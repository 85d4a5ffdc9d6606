------------------------- MODULE HttpsClientProofs -------------------------
(***************************************************************************)
(* Theorems about module HttpsClient, for any errors and certificates and  *)
(* any number of records, cut into reads in any way.  What is proved of    *)
(* HttpClient is taken from HttpClientProofs.                              *)
(***************************************************************************)
EXTENDS HttpsClient, TLAPS

PlainProofs == INSTANCE HttpClientProofs

\* The connection, the session and the object go together.
Lifetimes ==
  /\ stored <=> handle = "open"
  /\ handle = "none" => resolver = "none"
  /\ resolver # "done" => conn = "none"
  /\ ssl # "none" <=> conn = "connected"

\* Nothing waits to be sent before the end of the handshake, and nothing but
\* answers after it.
Unsent ==
  /\ ssl \in Sessions
  /\ m_write \in Seq(Written)
  /\ ssl \in {"none", "connecting"} => m_write = <<>>
  /\ handle = "open" /\ ssl = "finished" => \A i \in DOMAIN m_write : m_write[i] = "answer"

\* A session that is open and finished has an accepted certificate; the
\* request goes out when it is accepted.
Handshake ==
  /\ ssl \in {"none", "connecting"} => ~ m_ready
  /\ ssl = "finished" => m_ready \/ handle # "open"
  /\ sent \in Seq(Written)
  /\ IF m_ready
       THEN /\ cert \in (IF Fingerprint THEN {"expected"} ELSE {"expected", "other"})
            /\ sent # <<>> /\ sent[Len(sent)] = "request"
            /\ \A i \in DOMAIN sent : sent[i] = "request" => i = Len(sent)
       ELSE parser = "start" /\ \A i \in DOMAIN sent : sent[i] # "request"

Loop ==
  /\ looping => m_ready /\ ssl = "finished" /\ rest = <<>>
  /\ handle = "open" /\ ssl = "finished" /\ ~ looping => m_read = rest

IInv == Lifetimes /\ Unsent /\ Handshake /\ Loop

-----------------------------------------------------------------------------
LEMMA InitInv == Init => IInv
<1>1. <<>> \in Seq(Written) /\ DOMAIN <<>> = {}
  OBVIOUS
<1> QED
  BY <1>1 DEF Init, Plain!Init, IInv, Lifetimes, Unsent, Sessions, Handshake, Loop

\* What close() leaves of the invariant.
LEMMA CloseStops ==
  ASSUME Lifetimes, NEW error, Plain!close(error)
  PROVE  /\ stored' <=> handle' = "open"
         /\ handle' # "open"
         /\ handle # "none" => handle' # "none"
BY DEF Lifetimes, Plain!close

\* The steps of HttpClient that keep the connection and what was parsed.
LEMMA InheritedKeeps ==
  ASSUME IInv, UNCHANGED tls,
         \/ Plain!fetch \/ Plain!Resolving \/ Plain!onCancelled \/ Plain!onReadError
         \/ Plain!onTimer \/ Plain!onClosed \/ Plain!listenerGone
         \/ Plain!onConnect /\ conn' # "connected"
         \/ UNCHANGED inherited
  PROVE  IInv'
<1>1. UNCHANGED parser /\ (handle' = "open" => handle = "open" \/ ssl = "none")
  BY CloseStops DEF IInv, Lifetimes, Plain!fetch, Plain!Resolving, Plain!onResolved,
     Plain!onResolvedLate, Plain!onCancelled, Plain!onReadError, Plain!onTimer,
     Plain!onClosed, Plain!listenerGone, Plain!onConnect, Plain!Reading, inherited
<1>2. Lifetimes'
  <2>1. CASE Plain!fetch \/ Plain!Resolving \/ Plain!onClosed \/ Plain!listenerGone
             \/ UNCHANGED inherited
    BY <2>1 DEF IInv, Lifetimes, Plain!fetch, Plain!Resolving, Plain!onResolved,
       Plain!onResolvedLate, Plain!onClosed, Plain!listenerGone, inherited, tls
  <2>2. CASE Plain!onReadError \/ Plain!onTimer \/ Plain!onCancelled
    BY <2>2, CloseStops DEF IInv, Lifetimes, Plain!onReadError, Plain!onTimer,
       Plain!onCancelled, Plain!Reading, tls
  <2>3. CASE Plain!onConnect /\ conn' # "connected"
    BY <2>3, CloseStops DEF IInv, Lifetimes, Plain!onConnect, tls
  <2> QED  BY <2>1, <2>2, <2>3
<1>3. Handshake'
  BY <1>1 DEF IInv, Handshake, tls
<1>4. Loop'
  BY <1>1 DEF IInv, Loop, tls
<1>5. Unsent'
  BY <1>1 DEF IInv, Unsent, tls
<1> QED  BY <1>2, <1>3, <1>4, <1>5 DEF IInv

\* The data of one record changes the exchange as a read of HttpClient does.
LEMMA ParsedKeeps ==
  ASSUME IInv, Parsed
  PROVE  (stored' <=> handle' = "open") /\ UNCHANGED <<conn, resolver>>
         /\ (handle' # "none" \/ UNCHANGED handle)
         /\ (handle' = "open" => handle = "open")
BY CloseStops DEF IInv, Lifetimes, Parsed, Plain!onReadPart, Plain!onReadEnd,
   Plain!onReadEndAndMore, Plain!onReadNextMessage, Plain!onReadGarbage,
   Plain!Reading, inherited

\* What is appended to writings without a request is the only one there.
LEMMA AppendLast ==
  ASSUME NEW s \in Seq(Written), \A i \in DOMAIN s : s[i] # "request",
         NEW w \in Written
  PROVE  /\ Append(s, w) \in Seq(Written) /\ Append(s, w) # <<>>
         /\ Append(s, w)[Len(Append(s, w))] = w
         /\ \A i \in DOMAIN Append(s, w) :
              Append(s, w)[i] = "request" => w = "request" /\ i = Len(Append(s, w))
<1>1. Len(s) \in Nat /\ DOMAIN s = 1..Len(s)
  OBVIOUS
<1>2. Len(Append(s, w)) = Len(s) + 1 /\ DOMAIN Append(s, w) = 1..(Len(s) + 1)
  OBVIOUS
<1>3. Append(s, w)[Len(s) + 1] = w /\ \A i \in 1..Len(s) : Append(s, w)[i] = s[i]
  OBVIOUS
<1>4. Append(s, w) \in Seq(Written)
  OBVIOUS
<1>5. Append(s, w) # <<>>
  BY <1>1, <1>2
<1> QED  BY <1>1, <1>2, <1>3, <1>4, <1>5

\* What SSL_connect leaves in the BIO.
LEMMA KeysWritten ==
  ASSUME NEW consumed
  PROVE  /\ \A keys \in Keys(consumed) : keys \in Seq(Written)
         /\ \A alert \in {<<>>, <<"alert">>} : alert \in Seq(Written)
<1>1. "keys" \in Written /\ "alert" \in Written
  BY DEF Written
<1>2. /\ <<>> \in Seq(Written) /\ <<"keys">> \in Seq(Written)
      /\ <<"alert">> \in Seq(Written)
  BY <1>1
<1> QED  BY <1>2 DEF Keys

\* Answers stay answers.
LEMMA AppendAnswer ==
  ASSUME m_write \in Seq(Written)
  PROVE  /\ Append(m_write, "answer") \in Seq(Written)
         /\ (\A i \in DOMAIN m_write : m_write[i] = "answer") =>
              \A i \in DOMAIN Append(m_write, "answer") : Append(m_write, "answer")[i] = "answer"
<1>1. "answer" \in Written
  BY DEF Written
<1>2. Append(m_write, "answer") \in Seq(Written)
  BY <1>1
<1>3. /\ Len(m_write) \in Nat /\ DOMAIN m_write = 1..Len(m_write)
      /\ DOMAIN Append(m_write, "answer") = 1..(Len(m_write) + 1)
  OBVIOUS
<1>4. /\ Append(m_write, "answer")[Len(m_write) + 1] = "answer"
      /\ \A i \in 1..Len(m_write) : Append(m_write, "answer")[i] = m_write[i]
  OBVIOUS
<1> QED  BY <1>2, <1>3, <1>4

LEMMA RequestLast ==
  ASSUME sent \in Seq(Written), \A i \in DOMAIN sent : sent[i] # "request",
         NEW keys \in {<<>>, <<"keys">>},
         sent' = sent \o (<<>> \o keys \o <<"request">>)
  PROVE  /\ sent' \in Seq(Written) /\ sent' # <<>>
         /\ sent'[Len(sent')] = "request"
         /\ \A i \in DOMAIN sent' : sent'[i] = "request" => i = Len(sent')
<1>0. "keys" \in Written /\ "request" \in Written
  BY DEF Written
<1>1. CASE keys = <<>>
  <2> DEFINE s == Append(sent, "request")
  <2>1. sent' = s
    BY <1>1
  <2>2. /\ s \in Seq(Written) /\ s # <<>> /\ s[Len(s)] = "request"
        /\ \A i \in DOMAIN s : s[i] = "request" => i = Len(s)
    BY <1>0, AppendLast
  <2> HIDE DEF s
  <2> QED  BY <2>1, <2>2
<1>2. CASE keys = <<"keys">>
  <2> DEFINE t == Append(sent, "keys")
             s == Append(t, "request")
  <2>1. sent' = s
    BY <1>2
  <2>2. t \in Seq(Written) /\ \A i \in DOMAIN t : t[i] # "request"
    BY <1>0, AppendLast
  <2> HIDE DEF t
  <2>3. /\ s \in Seq(Written) /\ s # <<>> /\ s[Len(s)] = "request"
        /\ \A i \in DOMAIN s : s[i] = "request" => i = Len(s)
    BY <2>2, <1>0, AppendLast
  <2> HIDE DEF s
  <2> QED  BY <2>1, <2>3
<1> QED  BY <1>1, <1>2

-----------------------------------------------------------------------------
\* The connection is made: the session starts.
LEMMA ConnectKeeps ==
  ASSUME IInv, Plain!onConnect, conn' = "connected", handshake
  PROVE  IInv'
<1>1. /\ conn = "connecting" /\ handle = "open" /\ resolver = "done" /\ ssl = "none"
      /\ UNCHANGED <<stored, handle, resolver, parser>>
  <2>1. conn = "connecting" /\ handle = "open" /\ UNCHANGED <<resolver, parser>>
    BY DEF Plain!onConnect
  <2>2. UNCHANGED <<stored, handle>>
    BY DEF Plain!onConnect
  <2> QED  BY <2>1, <2>2 DEF IInv, Lifetimes
<1>2. sent' = Append(sent, "hello") /\ m_write' = <<>>
  <2>1. m_write = <<>> /\ sent \in Seq(Written)
    BY <1>1 DEF IInv, Unsent, Handshake
  <2>2. sent' = sent \o Append(m_write, "hello") /\ m_write' = <<>>
    BY <1>1 DEF handshake, flush, Writable
  <2> QED  BY <2>1, <2>2
<1>3. "hello" \in Written
  BY DEF Written
<1>4. ~ m_ready /\ ~ m_ready' /\ parser' = "start" /\ ssl' = "connecting"
  BY <1>1 DEF IInv, Handshake, handshake
<1>5. /\ sent' \in Seq(Written)
      /\ \A i \in DOMAIN sent' : sent'[i] # "request"
  <2> DEFINE s == Append(sent, "hello")
  <2>1. s \in Seq(Written) /\ \A i \in DOMAIN s : s[i] # "request"
    BY <1>1, <1>3, AppendLast DEF IInv, Handshake
  <2>2. sent' = s
    BY <1>2
  <2> HIDE DEF s
  <2> QED  BY <2>1, <2>2
<1>8. Handshake' /\ Unsent'
  BY <1>2, <1>4, <1>5 DEF Handshake, Unsent, Sessions
<1>6. Lifetimes'
  BY <1>1, <1>4 DEF IInv, Lifetimes
<1>7. Loop'
  BY <1>4 DEF IInv, Loop, handshake
<1> QED  BY <1>6, <1>7, <1>8 DEF IInv

\* SSL_connect leaves the socket as it is, except where the certificate is
\* refused.
LEMMA ConnectMoreKeeps ==
  ASSUME IInv, Plain!Reading, ~ looping, ssl = "connecting",
         NEW consumed, NEW bio, connectMore(consumed, bio)
  PROVE  IInv'
<1>1. UNCHANGED <<inherited, ssl, cert, m_ready, looping, rest>> /\ m_write' = <<>>
  BY DEF connectMore, flush, Writable, Plain!Reading, inherited
<1>2. ~ m_ready /\ m_write = <<>> /\ sent \in Seq(Written) /\ \A i \in DOMAIN sent : sent[i] # "request"
  BY DEF IInv, Unsent, Handshake
<1>3. sent' \in Seq(Written) /\ \A i \in DOMAIN sent' : sent'[i] # "request"
  <2>1. CASE sent' = sent \o <<>>
    BY <1>2, <2>1
  <2>2. CASE sent' = sent \o <<"keys">>
    <3> DEFINE s == Append(sent, "keys")
    <3>1. s \in Seq(Written) /\ \A i \in DOMAIN s : s[i] # "request"
      BY <1>2, AppendLast DEF Written
    <3>2. sent' = s
      BY <1>2, <2>2
    <3> HIDE DEF s
    <3> QED  BY <3>1, <3>2
  <2>3. <<>> \o <<>> = <<>> /\ <<>> \o <<"keys">> = <<"keys">>
    OBVIOUS
  <2>4. flush(<<>>) \/ flush(<<"keys">>)
    BY <1>2, <2>3 DEF connectMore, Keys
  <2>5. Writable
    BY <1>1 DEF Writable, Plain!Reading, inherited
  <2> QED  BY <2>1, <2>2, <2>4, <2>5 DEF flush
<1>4. Handshake' /\ Unsent'
  BY <1>1, <1>2, <1>3 DEF IInv, Handshake, Unsent, inherited
<1>5. Lifetimes'
  BY <1>1 DEF IInv, Lifetimes, inherited
<1>6. Loop'
  BY <1>1 DEF IInv, Loop, inherited
<1> QED  BY <1>4, <1>5, <1>6 DEF IInv

LEMMA ConnectedKeeps ==
  ASSUME IInv, Plain!Reading, ~ looping, ssl = "connecting",
         NEW bio, connected(bio)
  PROVE  IInv'
<1>1. /\ ssl' = "finished" /\ rest' = m_read' /\ looping' = looping
      /\ UNCHANGED <<conn, resolver, parser>>
  BY DEF connected, Plain!onReadGarbage, inherited
<1>2. /\ ~ m_ready /\ m_write = <<>> /\ sent \in Seq(Written)
      /\ \A i \in DOMAIN sent : sent[i] # "request"
      /\ parser = "start"
  BY DEF IInv, Unsent, Handshake
<1>3. CASE verify(cert') /\ m_ready' = TRUE /\ UNCHANGED inherited
           /\ \E keys \in Keys(1) : flush(m_write \o keys \o <<"request">>)
  <2>1. PICK keys \in {<<>>, <<"keys">>} : flush(m_write \o keys \o <<"request">>)
    BY <1>3 DEF Keys
  <2>2. Writable
    BY <1>3 DEF Writable, Plain!Reading, inherited
  <2>3. sent' = sent \o (<<>> \o keys \o <<"request">>) /\ m_write' = <<>>
    BY <1>2, <2>1, <2>2 DEF flush
  <2>4. /\ sent' \in Seq(Written) /\ sent' # <<>>
        /\ sent'[Len(sent')] = "request"
        /\ \A i \in DOMAIN sent' : sent'[i] = "request" => i = Len(sent')
    BY <1>2, <2>3, RequestLast
  <2>5. cert' \in (IF Fingerprint THEN {"expected"} ELSE {"expected", "other"})
    BY <1>3, HttpsClientAssumption DEF verify
  <2>6. Handshake' /\ Unsent'
    BY <1>1, <1>3, <2>3, <2>4, <2>5 DEF Handshake, Unsent, Sessions
  <2>7. Lifetimes' /\ Loop'
    BY <1>1, <1>3 DEF IInv, Lifetimes, Loop, inherited
  <2> QED  BY <2>6, <2>7 DEF IInv
<1>4. CASE Plain!onReadGarbage /\ UNCHANGED <<m_ready, sent>>
           /\ \E keys \in Keys(1) : m_write' = m_write \o keys
  <2>1. /\ stored' <=> handle' = "open"
        /\ handle' # "open" /\ handle' # "none"
    BY <1>4, CloseStops DEF IInv, Plain!onReadGarbage, Plain!Reading
  <2>2. Lifetimes'
    BY <1>1, <2>1 DEF IInv, Lifetimes
  <2>3. Handshake'
    BY <1>1, <1>2, <1>4, <2>1 DEF Handshake
  <2>4. Loop'
    BY <1>1, <2>1 DEF IInv, Loop
  <2>5. Unsent'
    <3>1. \A keys \in Keys(1) : keys \in Seq(Written)
      BY KeysWritten
    <3>2. m_write' \in Seq(Written)
      <4>1. PICK keys \in Keys(1) : m_write' = <<>> \o keys
        BY <1>2, <1>4
      <4>2. keys \in Seq(Written)
        BY <3>1
      <4> QED  BY <4>1, <4>2
    <3> QED  BY <1>1, <2>1, <3>2 DEF Unsent, Sessions
  <2> QED  BY <2>2, <2>3, <2>4, <2>5 DEF IInv
<1> QED  BY <1>3, <1>4 DEF connected

\* A read.
LEMMA ReadKeeps == ASSUME IInv, read PROVE IInv'
<1>0. Plain!Reading /\ ~ looping
  BY DEF read
<1>1. ASSUME ssl = "connecting", NEW consumed, NEW bio, connectFails(consumed, bio)
      PROVE  IInv'
  <2>1. m_write = <<>>  BY <1>1 DEF IInv, Unsent
  <2>2. m_write' \in Seq(Written) /\ ssl' = "broken"
    <3>1. PICK keys \in Keys(consumed), alert \in {<<>>, <<"alert">>} :
            m_write' = <<>> \o keys \o alert
      BY <1>1, <2>1 DEF connectFails
    <3>2. keys \in Seq(Written) /\ alert \in Seq(Written)
      BY <3>1, KeysWritten
    <3> QED  BY <1>1, <3>1, <3>2 DEF connectFails
  <2>3. Unsent'  BY <2>2 DEF Unsent, Sessions
  <2> QED  BY <1>1, <2>3 DEF IInv, Lifetimes, Handshake, Loop, connectFails, inherited
<1>2. ASSUME ssl = "broken", UNCHANGED <<inherited, ssl, cert, m_ready, m_write, sent, looping, rest>>
      PROVE  IInv'
  BY <1>2 DEF IInv, Lifetimes, Unsent, Handshake, Loop, inherited
<1>3. ASSUME ssl = "finished", looping' = TRUE, rest' = <<>>,
             UNCHANGED <<inherited, ssl, cert, m_ready, m_write, sent>>
      PROVE  IInv'
  BY <1>0, <1>3 DEF IInv, Lifetimes, Unsent, Handshake, Loop, inherited, Plain!Reading
<1> QED
  BY <1>0, <1>1, <1>2, <1>3, ConnectMoreKeeps, ConnectedKeeps DEF read

\* An iteration of the loop.
LEMMA SSL_readKeeps == ASSUME IInv, SSL_read PROVE IInv'
<1>0. /\ looping /\ m_ready /\ ssl = "finished" /\ rest = <<>> /\ conn = "connected"
      /\ handle # "none" /\ resolver = "done"
  BY DEF SSL_read, SSL_read_data, SSL_read_message, SSL_read_zero, SSL_read_negative,
     IInv, Lifetimes, Loop
<1>1. CASE SSL_read_data
  <2>1. UNCHANGED <<ssl, cert, m_ready, m_write, sent, looping, rest>> /\ Parsed
    BY <1>1 DEF SSL_read_data
  <2>2. Lifetimes' /\ Loop'
    BY <1>0, <2>1, ParsedKeeps DEF IInv, Lifetimes, Loop
  <2>3. Handshake'
    BY <1>0, <2>1, ParsedKeeps DEF IInv, Handshake
  <2>4. Unsent'
    BY <1>0, <2>1, ParsedKeeps DEF IInv, Unsent
  <2> QED  BY <2>2, <2>3, <2>4 DEF IInv
<1>2. CASE SSL_read_message
  <2>1. UNCHANGED <<handle, ssl>> /\ m_write' \in {m_write, Append(m_write, "answer")}
    BY <1>2 DEF SSL_read_message, inherited
  <2>2. Unsent'
    <3>1. CASE m_write' = m_write
      BY <2>1, <3>1 DEF IInv, Unsent
    <3>2. CASE m_write' = Append(m_write, "answer")
      BY <1>0, <2>1, <3>2, AppendAnswer DEF IInv, Unsent
    <3> QED  BY <2>1, <3>1, <3>2
  <2> QED
    BY <1>2, <2>2 DEF SSL_read_message, IInv, Lifetimes, Handshake, Loop, inherited
<1>3. CASE SSL_read_zero
  <2>1. /\ UNCHANGED <<ssl, cert, m_ready, m_write, sent, rest, conn, resolver, parser>>
        /\ ~ looping' /\ (stored' <=> handle' = "open") /\ handle' # "open" /\ handle' # "none"
    BY <1>0, <1>3, CloseStops DEF SSL_read_zero, IInv
  <2>2. Lifetimes' /\ Loop'
    BY <1>0, <2>1 DEF IInv, Lifetimes, Loop
  <2>3. Handshake'
    BY <1>0, <2>1 DEF IInv, Handshake
  <2>4. Unsent'
    BY <1>0, <2>1 DEF IInv, Unsent
  <2> QED  BY <2>2, <2>3, <2>4 DEF IInv
<1>4. CASE SSL_read_negative
  <2>1. UNCHANGED <<inherited, cert, m_ready, sent, rest>> /\ ~ looping'
        /\ \/ ssl' = "finished" /\ m_read' = <<>> /\ UNCHANGED m_write
           \/ ssl' = "broken" /\ m_write' \in {m_write, Append(m_write, "alert")}
    BY <1>0, <1>4 DEF SSL_read_negative
  <2>2. Lifetimes' /\ Loop'
    BY <1>0, <2>1 DEF IInv, Lifetimes, Loop, inherited
  <2>3. Handshake'
    BY <1>0, <2>1 DEF IInv, Handshake, inherited
  <2>4. Unsent'
    <3>1. m_write \in Seq(Written) /\ "alert" \in Written
      BY DEF IInv, Unsent, Written
    <3>2. m_write' \in Seq(Written)
      BY <2>1, <3>1
    <3> QED  BY <1>0, <2>1, <3>2 DEF IInv, Unsent, Sessions, inherited
  <2> QED  BY <2>2, <2>3, <2>4 DEF IInv
<1> QED  BY <1>1, <1>2, <1>3, <1>4 DEF SSL_read

LEMMA StepInv == IInv /\ [Next]_vars => IInv'
<1> SUFFICES ASSUME IInv, [Next]_vars PROVE IInv'
  OBVIOUS
<1>1. CASE fetch \/ Resolving \/ onCancelled \/ onReadError \/ onTimer \/ onClosed
           \/ listenerGone \/ UNCHANGED vars
  BY <1>1, InheritedKeeps DEF fetch, Resolving, onCancelled, onReadError, onTimer,
     onClosed, listenerGone, vars
<1>2. CASE onConnect
  BY <1>2, InheritedKeeps, ConnectKeeps DEF onConnect
<1> QED  BY <1>1, <1>2, ReadKeeps, SSL_readKeeps DEF Next

(***************************************************************************)
(* The inductive invariant: the lifetimes of connection, session and       *)
(* object, the state of the handshake, and what the loop of read() may     *)
(* rely on.                                                                *)
(***************************************************************************)
THEOREM Invariance == Spec => []IInv
BY InitInv, StepInv, PTL DEF Spec

-----------------------------------------------------------------------------
LEMMA StepRefines == IInv /\ [Next]_vars => [Plain!Next]_(Plain!vars)
<1> SUFFICES ASSUME IInv, [Next]_vars PROVE Plain!Next \/ UNCHANGED inherited
  BY DEF Plain!vars, inherited
<1>1. CASE fetch \/ Resolving \/ onConnect \/ onCancelled \/ onReadError \/ onTimer
           \/ onClosed \/ listenerGone
  BY <1>1 DEF fetch, Resolving, onConnect, onCancelled, onReadError, onTimer, onClosed,
     listenerGone, Plain!Next, Plain!Connecting, Plain!Receiving
<1>2. CASE read
  BY <1>2 DEF read, connectMore, connectFails, connected, Plain!Next, Plain!Receiving
<1>3. CASE SSL_read_data \/ SSL_read_message \/ SSL_read_negative
  BY <1>3 DEF SSL_read_data, SSL_read_message, SSL_read_negative, Parsed,
     Plain!Next, Plain!Receiving
<1>4. CASE SSL_read_zero
  <2>1. CASE ~ stored
    BY <1>4, <2>1 DEF SSL_read_zero, Plain!close, inherited
  <2>2. CASE stored
    <3>1. Plain!Reading
      BY <1>4, <2>2 DEF SSL_read_zero, IInv, Lifetimes, Loop, Plain!Reading
    <3>2. Plain!onReadError
      BY <1>4, <3>1, HttpsClientAssumption DEF SSL_read_zero, Plain!onReadError
    <3> QED  BY <3>2 DEF Plain!Next, Plain!Receiving
  <2> QED  BY <2>1, <2>2
<1>5. CASE UNCHANGED vars
  BY <1>5 DEF vars
<1> QED  BY <1>1, <1>2, <1>3, <1>4, <1>5 DEF Next, SSL_read

(***************************************************************************)
(* An exchange over TLS implements HttpClient: TLS neither adds, repeats   *)
(* nor withholds a call to the listener, nor keeps the object alive.       *)
(***************************************************************************)
THEOREM IsAnExchange == Spec => Implements
<1>1. Init => Plain!Init
  BY DEF Init
<1>2. Spec => Plain!Spec
  BY <1>1, StepRefines, Invariance, PTL DEF Spec, Plain!Spec
<1> QED  BY <1>2 DEF Implements

(***************************************************************************)
(* So the listener hears the truth, and one that waits is not forgotten.   *)
(***************************************************************************)
THEOREM TruthfulAndMindful == Spec => [](Plain!HonestOutcome /\ Plain!WillBeTold)
<1>1. Plain!Init => PlainProofs!Init
  BY DEF Plain!Init, PlainProofs!Init
<1>2. [Plain!Next]_(Plain!vars) => [PlainProofs!Next]_(PlainProofs!vars)
  BY DEF
     Plain!Next, PlainProofs!Next, Plain!fetch, PlainProofs!fetch,
     Plain!Resolving, PlainProofs!Resolving, Plain!onResolved,
     PlainProofs!onResolved, Plain!onResolvedLate, PlainProofs!onResolvedLate,
     Plain!Connecting, PlainProofs!Connecting, Plain!onConnect,
     PlainProofs!onConnect, Plain!onCancelled, PlainProofs!onCancelled,
     Plain!Receiving, PlainProofs!Receiving, Plain!onReadPart,
     PlainProofs!onReadPart, Plain!onReadEnd, PlainProofs!onReadEnd,
     Plain!onReadEndAndMore, PlainProofs!onReadEndAndMore,
     Plain!onReadNextMessage, PlainProofs!onReadNextMessage,
     Plain!onReadGarbage, PlainProofs!onReadGarbage, Plain!onReadError,
     PlainProofs!onReadError, Plain!Reading, PlainProofs!Reading, Plain!close,
     PlainProofs!close, Plain!onMessageComplete,
     PlainProofs!onMessageComplete, Plain!onTimer, PlainProofs!onTimer,
     Plain!onClosed, PlainProofs!onClosed, Plain!listenerGone,
     PlainProofs!listenerGone, Plain!vars, PlainProofs!vars
<1>3. PlainProofs!HonestOutcome /\ PlainProofs!WillBeTold =>
        Plain!HonestOutcome /\ Plain!WillBeTold
  BY DEF Plain!HonestOutcome, PlainProofs!HonestOutcome, Plain!WillBeTold, PlainProofs!WillBeTold
<1>4. PlainProofs!Spec => [](PlainProofs!HonestOutcome /\ PlainProofs!WillBeTold)
  <2>1. PlainProofs!Spec => []PlainProofs!HonestOutcome
    BY PlainProofs!Truthful, HttpsClientAssumption
  <2>2. PlainProofs!Spec => []PlainProofs!WillBeTold
    BY PlainProofs!Mindful, HttpsClientAssumption
  <2> QED  BY <2>1, <2>2, PTL
<1> QED
  BY <1>1, <1>2, <1>3, <1>4, IsAnExchange, PTL DEF Implements, Plain!Spec, PlainProofs!Spec

(***************************************************************************)
(* The request is sent once, last, and only when the certificate has been  *)
(* accepted; no response is parsed before.                                 *)
(***************************************************************************)
THEOREM Protected == Spec => []RequestProtected
<1>1. IInv /\ Plain!HonestOutcome => RequestProtected
  BY DEF IInv, Handshake, RequestProtected, Plain!HonestOutcome
<1> QED  BY <1>1, Invariance, TruthfulAndMindful, PTL

(***************************************************************************)
(* No record is left unread, and nothing that is to be said before or with *)
(* the request is left unsent, while the session works.                    *)
(***************************************************************************)
THEOREM HoldsNothingBack == Spec => []NothingHeldBack
<1>1. IInv => NothingHeldBack
  <2>1. DOMAIN <<>> = {}
    OBVIOUS
  <2> QED  BY <2>1 DEF IInv, Unsent, Loop, Sessions, NothingHeldBack
<1> QED  BY <1>1, Invariance, PTL

=============================================================================
