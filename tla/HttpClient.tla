----------------------------- MODULE HttpClient -----------------------------
(***************************************************************************)
(* One HTTP exchange: the HttpClient object of src/base/net/http with its  *)
(* Dns, its Timer, its TCP handle and its response parser, from fetch() to *)
(* the close callback that deletes it.  All callbacks run on one event     *)
(* loop; what varies is their order and which of them never come.          *)
(*                                                                         *)
(* The listener is held by a weak_ptr: it may disappear at any time.       *)
(***************************************************************************)
EXTENDS Naturals, Sequences

CONSTANTS
  HasTimer,     \* m_req.timeout # 0
  ConnectError, \* the errors a connection attempt or a read may report
  Eof           \* UV_EOF, one of them

ASSUME HttpClientAssumption ==
  /\ HasTimer \in BOOLEAN
  /\ Eof \in ConnectError
  /\ {"response", "UV_ETIMEDOUT", "UV_EPROTO"} \cap ConnectError = {}

VARIABLES
  stored,      \* HttpContext's storage map has this object
  handle,      \* the TCP handle, and with it the object: see Handles
  conn,        \* the connection: see Conns
  resolver,    \* the getaddrinfo request: see Resolvers
  dnsKey,      \* Dns's storage has the key of this object's Dns
  timer,       \* the timer is armed
  parser,      \* how far the response has been parsed
  m_listener,  \* the weak_ptr is set and has not expired
  status,      \* HttpData's status: 0 as "none"
  told,        \* the statuses the listener was called with
  asserted     \* Storage::get was asked for a key it does not have

vars == <<stored, handle, conn, resolver, dnsKey, timer, parser, m_listener,
          status, told, asserted>>

Handles   == {"none", "open", "closing", "deleted"}
Conns     == {"none", "connecting", "connected"}
Resolvers == {"none", "pending", "done"}
Parsers   == {"start", "partial", "done"}

Errors    == ConnectError \cup {"UV_ETIMEDOUT", "UV_EPROTO"}
Told      == Errors \cup {"response"}

-----------------------------------------------------------------------------
\* HttpContext::close with a negative status: the listener is told while the
\* object is still in the storage, then the handle is closed.
close_unguarded(error) ==
  /\ status' = IF m_listener THEN error ELSE status
  /\ told' = IF m_listener THEN Append(told, error) ELSE told
  /\ stored' = FALSE
  /\ handle' = IF handle = "open" THEN "closing" ELSE handle

close_silent(error) ==
  /\ UNCHANGED <<status, told>>
  /\ stored' = FALSE
  /\ handle' = IF handle = "open" THEN "closing" ELSE handle

close(error) ==
  \/ /\ ~ stored
     /\ UNCHANGED <<stored, handle, status, told>>
  \/ /\ stored
     /\ status' = IF m_listener THEN error ELSE status
     /\ told' = IF m_listener THEN Append(told, error) ELSE told
     /\ stored' = FALSE
     /\ handle' = IF handle = "open" THEN "closing" ELSE handle

\* on_message_complete: the listener is told once, then forgotten.
onMessageComplete_noReset ==
  /\ told' = IF m_listener THEN Append(told, status') ELSE told
  /\ UNCHANGED m_listener

onMessageComplete ==
  /\ told' = IF m_listener THEN Append(told, status') ELSE told
  /\ m_listener' = FALSE

-----------------------------------------------------------------------------
Init ==
  /\ stored = FALSE /\ handle = "none" /\ conn = "none"
  /\ resolver = "none" /\ dnsKey = FALSE /\ timer = FALSE
  /\ parser = "start" /\ m_listener = TRUE
  /\ status = "none" /\ told = <<>> /\ asserted = FALSE

\* fetch(): the constructor, then connect(), whose result is ignored: when
\* getaddrinfo refuses the host no callback will come.
fetch ==
  /\ handle = "none"
  /\ stored' = TRUE
  /\ handle' = "open"
  /\ dnsKey' = TRUE
  /\ timer' = HasTimer
  /\ resolver' \in {"pending", "none"}
  /\ UNCHANGED <<conn, parser, m_listener, status, told, asserted>>

\* Dns::onResolved and HttpClient::onResolved.  A resolver error only sets
\* the status.  The result of uv_tcp_connect is ignored too: when it fails,
\* as it does on a handle that is closing, no callback will come.
onResolved ==
  /\ resolver = "pending" /\ dnsKey
  /\ resolver' = "done"
  /\ \/ status' = "UV_EAI" /\ UNCHANGED conn
     \/ status' = "none" /\ conn' \in {"none", "connecting"}
  /\ UNCHANGED <<stored, handle, dnsKey, timer, parser, m_listener, told, asserted>>

\* The resolver finishes when the Dns object is gone: Storage::get does not
\* find the key, and in a release build the callback does nothing more.
onResolvedLate ==
  /\ resolver = "pending" /\ ~ dnsKey /\ handle = "deleted"
  /\ resolver' = "done"
  /\ asserted' = TRUE
  /\ UNCHANGED <<stored, handle, conn, dnsKey, timer, parser, m_listener, status, told>>

onConnect ==
  /\ conn = "connecting" /\ handle = "open"
  /\ \/ /\ conn' = "connected"
        /\ UNCHANGED <<stored, handle, status, told>>
     \/ /\ conn' = "none"
        /\ \E error \in ConnectError \ {Eof} : close(error)
  /\ UNCHANGED <<resolver, dnsKey, timer, parser, m_listener, asserted>>

Reading == conn = "connected" /\ handle = "open"

\* A part of the response arrives; with the end of its headers the status.
onReadPart ==
  /\ Reading
  /\ parser # "done"
  /\ parser' = "partial"
  /\ status' \in {status, "response"}
  /\ UNCHANGED <<stored, handle, conn, resolver, dnsKey, timer, m_listener, told, asserted>>

\* The last part arrives.  A response without a length has no last part.
onReadEnd ==
  /\ Reading
  /\ parser # "done"
  /\ parser' = "done"
  /\ status' = "response"
  /\ onMessageComplete
  /\ UNCHANGED <<stored, handle, conn, resolver, dnsKey, timer, asserted>>

\* More than the response arrives, in one read with its end: the parser
\* stops there, and the read ends in close().
onReadEndAndMore ==
  /\ Reading
  /\ parser # "done"
  /\ parser' = "done"
  /\ status' = "response"
  /\ onMessageComplete
  /\ stored' = FALSE
  /\ handle' = "closing"
  /\ UNCHANGED <<conn, resolver, dnsKey, timer, asserted>>

\* Another message on a connection the server keeps alive.
onReadNextMessage ==
  /\ Reading
  /\ parser = "done"
  /\ status' = "response"
  /\ onMessageComplete
  /\ UNCHANGED <<stored, handle, conn, resolver, dnsKey, timer, parser, asserted>>

\* What arrives is not HTTP, or follows a response that ends the connection.
onReadGarbage ==
  /\ Reading
  /\ close("UV_EPROTO")
  /\ UNCHANGED <<conn, resolver, dnsKey, timer, parser, m_listener, asserted>>

\* End of file, or an error of the connection.
onReadError ==
  /\ Reading
  /\ \E error \in ConnectError : close(error)
  /\ UNCHANGED <<conn, resolver, dnsKey, timer, parser, m_listener, asserted>>

onTimer_connected ==
  /\ timer /\ handle = "open"
  /\ timer' = FALSE
  /\ IF conn = "none" THEN UNCHANGED <<stored, handle, status, told>>
                      ELSE close("UV_ETIMEDOUT")
  /\ UNCHANGED <<conn, resolver, dnsKey, parser, m_listener, asserted>>

onTimer ==
  /\ timer /\ handle = "open"
  /\ timer' = FALSE
  /\ close("UV_ETIMEDOUT")
  /\ UNCHANGED <<conn, resolver, dnsKey, parser, m_listener, asserted>>

\* libuv finishes uv_close(): it cancels a connection attempt, which calls
\* onConnect with UV_ECANCELED, ...
onCancelled ==
  /\ handle = "closing" /\ conn = "connecting"
  /\ conn' = "none"
  /\ close("UV_ETIMEDOUT")
  /\ UNCHANGED <<resolver, dnsKey, timer, parser, m_listener, asserted>>

\* ... and the close callback deletes the object, its Timer and its Dns.
onClosed ==
  /\ handle = "closing" /\ conn # "connecting"
  /\ handle' = "deleted"
  /\ dnsKey' = FALSE
  /\ timer' = FALSE
  /\ UNCHANGED <<stored, conn, resolver, parser, m_listener, status, told, asserted>>

listenerGone ==
  /\ m_listener
  /\ m_listener' = FALSE
  /\ UNCHANGED <<stored, handle, conn, resolver, dnsKey, timer, parser, status, told, asserted>>

Resolving  == onResolved \/ onResolvedLate
Connecting == onConnect \/ onCancelled
Receiving  == \/ onReadPart \/ onReadEnd \/ onReadEndAndMore
              \/ onReadNextMessage \/ onReadGarbage \/ onReadError

Next ==
  \/ fetch
  \/ Resolving
  \/ Connecting
  \/ Receiving
  \/ onTimer
  \/ onClosed
  \/ listenerGone

Spec == Init /\ [][Next]_vars

(***************************************************************************)
(* Only what the event loop itself guarantees: an armed timer fires and a  *)
(* handle that closes is closed.  The resolver and the daemon may be       *)
(* silent for ever.                                                        *)
(***************************************************************************)
Fairness ==
  /\ WF_vars(fetch)
  /\ WF_vars(onTimer)
  /\ WF_vars(onCancelled)
  /\ WF_vars(onClosed)

FairSpec == Spec /\ Fairness

-----------------------------------------------------------------------------
(***************************************************************************)
(* Type correctness.                                                       *)
(***************************************************************************)
TypeOK ==
  /\ stored \in BOOLEAN
  /\ handle \in Handles
  /\ conn \in Conns
  /\ resolver \in Resolvers
  /\ dnsKey \in BOOLEAN
  /\ timer \in BOOLEAN
  /\ parser \in Parsers
  /\ m_listener \in BOOLEAN
  /\ status \in Told \cup {"none", "UV_EAI"}
  /\ told \in Seq(Told)
  /\ asserted \in BOOLEAN

(***************************************************************************)
(* The storage map of HttpContext holds exactly the objects whose handle   *)
(* is open: get() and closeAll() never reach one that is being deleted,    *)
(* and no open exchange escapes them.                                      *)
(***************************************************************************)
StoredWhileOpen == stored <=> handle = "open"

(***************************************************************************)
(* What the listener hears is what happened: a response only when one was  *)
(* received to its end, an error only when none was, and nothing that the  *)
(* parser or another event changes afterwards makes it untrue.             *)
(***************************************************************************)
HonestOutcome ==
  \A i \in DOMAIN told :
    /\ told[i] = "response" <=> parser = "done"
    /\ told[i] # "response" => ~ stored

(***************************************************************************)
(* A listener that waits is not forgotten: while it has not been told, the *)
(* exchange is still open, and with a timeout the timer that will end it   *)
(* is armed, whatever the resolver and the daemon do.                      *)
(***************************************************************************)
WillBeTold ==
  handle # "none" /\ m_listener /\ told = <<>> =>
    /\ stored /\ handle = "open"
    /\ HasTimer => timer

(***************************************************************************)
(* What makes the above inductive: a listener that can still be called has *)
(* not seen a complete response, and while the object is in the storage it *)
(* has been called for a complete response only.                           *)
(***************************************************************************)
ToldOnce ==
  /\ Len(told) <= 1
  /\ m_listener => parser # "done"
  /\ stored /\ told # <<>> => parser = "done"
  /\ handle = "none" => told = <<>> /\ parser = "start"

IInv == TypeOK /\ StoredWhileOpen /\ HonestOutcome /\ WillBeTold /\ ToldOnce

(***************************************************************************)
(* The exchange implements what it promises to its listener.               *)
(***************************************************************************)
Promise == INSTANCE Exchange WITH
  Status <- Told, listening <- m_listener, over <- handle = "deleted"

Implements == Promise!Spec

(***************************************************************************)
(* With a timeout every exchange is over in the end, though the resolver,  *)
(* the connection or the daemon never answer.                              *)
(***************************************************************************)
EndsInTime == HasTimer => <>(handle = "deleted")

(***************************************************************************)
(* The assertion of Storage::get: a key that is looked up is there.        *)
(***************************************************************************)
KeyIsStored == ~ asserted

=============================================================================
