----------------------------- MODULE HttpsClient -----------------------------
(***************************************************************************)
(* An HTTP exchange over TLS: src/base/net/https/HttpsClient.cpp, which    *)
(* derives from HttpClient and puts OpenSSL between the socket and the     *)
(* parser.  What it inherits is taken from module HttpClient.              *)
(*                                                                         *)
(* OpenSSL is modelled from its use.  A read brings any number of the      *)
(* server's records into the BIO m_read; SSL_connect consumes the          *)
(* handshake up to its end, SSL_read the data of one record.               *)
(***************************************************************************)
EXTENDS Naturals, Sequences

CONSTANTS
  HasTimer, ConnectError, Eof,   \* as in HttpClient
  Fingerprint,                   \* a fingerprint is configured
  MaxRecords                     \* bound: the records a server sends

ASSUME HttpsClientAssumption ==
  /\ HasTimer \in BOOLEAN
  /\ Eof \in ConnectError
  /\ {"response", "UV_ETIMEDOUT", "UV_EPROTO"} \cap ConnectError = {}
  /\ Fingerprint \in BOOLEAN
  /\ MaxRecords \in Nat

VARIABLES
  stored, handle, conn, resolver, dnsKey, timer, parser, m_listener, status,
  told, asserted,  \* as in HttpClient
  ssl,       \* SSL_is_init_finished and what led to it: see Sessions
  cert,      \* the server's certificate, once it is known: see Certs
  m_ready,   \* the handshake is over and the certificate accepted
  m_read,    \* the BIO of records that were received and not consumed
  m_write,   \* the BIO of what is to be sent
  sent,      \* everything that was written to the socket
  looping,   \* the loop of read() that calls SSL_read is running
  rest,      \* what was in m_read when the last callback before the loop's
             \* first run ended, <<>> from then on
  records    \* for the bound MaxRecords

inherited == <<stored, handle, conn, resolver, dnsKey, timer, parser, m_listener,
               status, told, asserted>>
tls  == <<ssl, cert, m_ready, m_read, m_write, sent, looping, rest, records>>
vars == <<inherited, tls>>

Plain == INSTANCE HttpClient

\* "broken": OpenSSL has met an error from which it does not recover.
Sessions == {"none", "connecting", "finished", "broken"}
Certs    == {"unknown", "none", "other", "expected"}

\* A piece of the handshake or a message after it, the end of the handshake,
\* data, close_notify, or something that TLS rejects.
Records  == {"handshake", "finished", "data", "close_notify", "bad"}
\* An "answer" is what OpenSSL has to say to a message after the handshake
\* (a key update), an "alert" why it gives up.
Written  == {"hello", "keys", "request", "answer", "alert"}

-----------------------------------------------------------------------------
Init ==
  /\ Plain!Init
  /\ ssl = "none" /\ cert = "unknown" /\ m_ready = FALSE
  /\ m_read = <<>> /\ m_write = <<>> /\ sent = <<>>
  /\ looping = FALSE /\ rest = <<>> /\ records = 0

\* uv_is_writable
Writable == conn' = "connected" /\ handle' = "open"

\* flush(): what a stream that cannot be written to keeps waits in m_write.
flush(written) ==
  IF Writable THEN sent' = sent \o written /\ m_write' = <<>>
              ELSE m_write' = written /\ UNCHANGED sent

\* handshake(), instead of the request HttpClient sends at this point.
handshake ==
  /\ ssl' = "connecting"
  /\ flush(Append(m_write, "hello"))
  /\ UNCHANGED <<cert, m_ready, m_read, looping, rest, records>>

\* verify() and verifyFingerprint(); a certificate OpenSSL cannot digest
\* counts as "none".
verify_any(c) == c # "none"
verify(c) == c = "expected" \/ (c = "other" /\ ~ Fingerprint)

onConnect ==
  /\ Plain!onConnect
  /\ IF conn' = "connected" THEN handshake ELSE UNCHANGED tls

\* SSL_connect consumes the pieces of the handshake at the head of the BIO.
Handshaken(bio) ==
  CHOOSE n \in 0..Len(bio) : /\ \A i \in 1..n : bio[i] = "handshake"
                             /\ n < Len(bio) => bio[n + 1] # "handshake"
Unread(bio) == SubSeq(bio, Handshaken(bio) + 1, Len(bio))

\* What SSL_connect has to say when it has consumed pieces of the handshake.
Keys(consumed) == {<<>>} \cup (IF consumed > 0 THEN {<<"keys">>} ELSE {})

\* SSL_connect in read().  It wants more: what it has to say is flushed; ...
connectMore(consumed, bio) ==
  /\ bio = <<>>
  /\ m_read' = bio
  /\ UNCHANGED <<inherited, ssl, cert, m_ready, looping, rest>>
  /\ \E keys \in Keys(consumed) : flush(m_write \o keys)

\* ... it fails, which nothing handles: what it has to say, and the alert
\* unless the server gave up itself, stay in m_write, and the timer or the
\* server ends it; ...
connectFails(consumed, bio) ==
  /\ bio # <<>> /\ Head(bio) # "finished"
  /\ ssl' = "broken"
  /\ m_read' = bio
  /\ \E keys \in Keys(consumed), alert \in {<<>>, <<"alert">>} :
       m_write' = m_write \o keys \o alert
  /\ UNCHANGED <<inherited, cert, m_ready, sent, looping, rest>>

\* ... or it is finished: the certificate is judged, and HttpClient sends its
\* request through write().
connected(bio) ==
  /\ bio # <<>> /\ Head(bio) = "finished"
  /\ ssl' = "finished"
  /\ m_read' = Tail(bio)
  /\ rest' = Tail(bio)
  /\ cert' \in Certs \ {"unknown"}
  /\ \/ /\ verify(cert')
        /\ m_ready' = TRUE
        /\ UNCHANGED inherited
        /\ \E keys \in Keys(1) : flush(m_write \o keys \o <<"request">>)
     \/ /\ ~ verify(cert')
        /\ Plain!onReadGarbage
        /\ \E keys \in Keys(1) : m_write' = m_write \o keys
        /\ UNCHANGED <<m_ready, sent>>
  /\ UNCHANGED looping

read ==
  /\ Plain!Reading /\ ~ looping
  /\ \E n \in 0..(MaxRecords - records) : \E new \in [1..n -> Records] :
       LET bio == Unread(m_read \o new)
       IN /\ records' = records + n
          /\ \/ /\ ssl = "connecting"
                /\ \/ connectMore(Handshaken(m_read \o new), bio)
                   \/ connectFails(Handshaken(m_read \o new), bio)
                   \/ connected(bio)
             \/ /\ ssl = "broken"
                /\ m_read' = m_read \o new
                /\ UNCHANGED <<inherited, ssl, cert, m_ready, m_write, sent, looping, rest>>
             \/ /\ ssl = "finished"
                /\ m_read' = m_read \o new
                /\ looping' = TRUE
                /\ rest' = <<>>
                /\ UNCHANGED <<inherited, ssl, cert, m_ready, m_write, sent>>

-----------------------------------------------------------------------------
\* HttpClient::read with the data of one record.  Once the parser has failed
\* and close() was called it takes nothing more.
Parsed ==
  \/ Plain!onReadPart \/ Plain!onReadEnd \/ Plain!onReadEndAndMore
  \/ Plain!onReadNextMessage \/ Plain!onReadGarbage
  \/ UNCHANGED inherited

\* An iteration of the loop of read() whose SSL_read returns data.
SSL_read_data_once ==
  /\ looping
  /\ m_read # <<>> /\ Head(m_read) = "data"
  /\ m_read' = Tail(m_read)
  /\ Parsed
  /\ looping' = FALSE
  /\ UNCHANGED <<ssl, cert, m_ready, m_write, sent, rest, records>>

SSL_read_data ==
  /\ looping
  /\ m_read # <<>> /\ Head(m_read) = "data"
  /\ m_read' = Tail(m_read)
  /\ Parsed
  /\ UNCHANGED <<ssl, cert, m_ready, m_write, sent, looping, rest, records>>

\* Messages after the handshake are consumed by OpenSSL itself.  What it
\* answers stays in m_write: there is no flush after SSL_read.
SSL_read_message ==
  /\ looping
  /\ m_read # <<>> /\ Head(m_read) = "handshake"
  /\ m_read' = Tail(m_read)
  /\ m_write' \in {m_write, Append(m_write, "answer")}
  /\ UNCHANGED <<inherited, ssl, cert, m_ready, sent, looping, rest, records>>

\* SSL_read returns 0 and the loop ends: the server has closed the session,
\* or given it up with an alert.
SSL_read_zero_tells ==
  /\ looping
  /\ m_read # <<>> /\ Head(m_read) = "close_notify"
  /\ m_read' = Tail(m_read)
  /\ looping' = FALSE
  /\ Plain!close_unguarded(Eof)
  /\ UNCHANGED <<conn, resolver, dnsKey, timer, parser, m_listener, asserted>>
  /\ UNCHANGED <<ssl, cert, m_ready, m_write, sent, rest, records>>

SSL_read_zero ==
  /\ looping
  /\ m_read # <<>> /\ Head(m_read) = "close_notify"
  /\ m_read' = Tail(m_read)
  /\ looping' = FALSE
  /\ Plain!close(Eof)
  /\ UNCHANGED <<conn, resolver, dnsKey, timer, parser, m_listener, asserted>>
  /\ UNCHANGED <<ssl, cert, m_ready, m_write, sent, rest, records>>

\* ... or less: there is nothing to read, or nothing that TLS accepts, and
\* the alert that says so is not sent.
SSL_read_negative ==
  /\ looping
  /\ \/ m_read = <<>> /\ UNCHANGED <<ssl, m_read, m_write>>
     \/ /\ m_read # <<>> /\ Head(m_read) \in {"bad", "finished"}
        /\ ssl' = "broken"
        /\ m_read' = Tail(m_read)
        /\ m_write' \in {m_write, Append(m_write, "alert")}
  /\ looping' = FALSE
  /\ UNCHANGED <<inherited, cert, m_ready, sent, rest, records>>

SSL_read == SSL_read_data \/ SSL_read_message \/ SSL_read_zero \/ SSL_read_negative

-----------------------------------------------------------------------------
\* What is inherited as it is; while the loop runs there are no callbacks.
onTimer_handshake == ~ looping /\ ssl # "finished" /\ Plain!onTimer /\ UNCHANGED tls
onTimer     == ~ looping /\ Plain!onTimer /\ UNCHANGED tls
onCancelled == ~ looping /\ Plain!onCancelled /\ UNCHANGED tls
onClosed    == ~ looping /\ Plain!onClosed /\ UNCHANGED tls
fetch       == Plain!fetch /\ UNCHANGED tls
onReadError == ~ looping /\ Plain!onReadError /\ UNCHANGED tls
Resolving   == ~ looping /\ Plain!Resolving /\ UNCHANGED tls
listenerGone == Plain!listenerGone /\ UNCHANGED tls

Next ==
  \/ fetch \/ Resolving
  \/ (~ looping /\ onConnect) \/ onCancelled
  \/ read \/ SSL_read \/ onReadError
  \/ onTimer \/ onClosed \/ listenerGone

Spec == Init /\ [][Next]_vars

\* As in HttpClient; and the loop, which is code, runs to its end.  Reads do
\* not keep the timer from firing: libuv runs the due timers in every round.
Fairness ==
  /\ WF_vars(fetch) /\ SF_vars(onTimer)
  /\ WF_vars(onCancelled) /\ WF_vars(onClosed)
  /\ WF_vars(SSL_read)

FairSpec == Spec /\ Fairness

-----------------------------------------------------------------------------
(***************************************************************************)
(* The request is written once, last, and only to a server whose           *)
(* certificate has been accepted; and nothing reaches the parser before.   *)
(***************************************************************************)
RequestProtected ==
  /\ m_ready => cert \in (IF Fingerprint THEN {"expected"} ELSE {"expected", "other"})
  /\ m_ready => sent # <<>> /\ sent[Len(sent)] = "request"
  /\ \A i \in DOMAIN sent : sent[i] = "request" => m_ready /\ i = Len(sent)
  /\ ~ m_ready => parser = "start" /\ \A i \in DOMAIN told : told[i] # "response"

(***************************************************************************)
(* While the exchange is open nothing that it depends on waits.  What the  *)
(* client has to say up to the request is on its way as long as the        *)
(* session works: only an answer to a message after the handshake stays in *)
(* m_write (and, once the session is broken, what was to be said last).    *)
(* And no record that could be read is left in m_read when read() has      *)
(* returned, unless it came together with the end of the handshake and     *)
(* nothing has come since: the request had not been sent when it came.     *)
(***************************************************************************)
NothingHeldBack ==
  handle = "open" =>
    /\ ssl # "broken" => \A i \in DOMAIN m_write : m_write[i] = "answer"
    /\ ssl = "finished" /\ ~ looping => m_read = rest

(***************************************************************************)
(* An exchange over TLS is an exchange: to its listener, its storage and   *)
(* its timer it is HttpClient.                                             *)
(***************************************************************************)
Implements == Plain!Spec

(***************************************************************************)
(* With a timeout every exchange ends, though the handshake fails halfway, *)
(* which no code notices.                                                  *)
(***************************************************************************)
EndsInTime == HasTimer => <>(handle = "deleted")

=============================================================================
