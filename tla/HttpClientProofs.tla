-------------------------- MODULE HttpClientProofs --------------------------
(***************************************************************************)
(* Theorems about module HttpClient, for any set of connection errors and  *)
(* with or without a timeout.                                              *)
(***************************************************************************)
EXTENDS HttpClient, TLAPS

\* The two ways the listener is told: an error, by close(), or a response.
LEMMA CloseTells ==
  ASSUME IInv, NEW error \in Errors, close(error)
  PROVE  \/ ~ stored /\ UNCHANGED <<stored, handle, status, told>>
         \/ /\ stored /\ handle = "open" /\ stored' = FALSE /\ handle' = "closing"
            /\ \/ m_listener /\ told = <<>> /\ told' = <<error>> /\ status' = error
               \/ ~ m_listener /\ UNCHANGED <<told, status>>
<1>1. CASE ~ stored
  BY <1>1 DEF close
<1>2. CASE stored /\ ~ m_listener
  BY <1>2 DEF close, IInv, StoredWhileOpen
<1>3. CASE stored /\ m_listener
  <2>1. told = <<>>
    BY <1>3 DEF IInv, ToldOnce
  <2>2. told' = Append(told, error) /\ status' = error
    BY <1>3 DEF close
  <2>3. told' = <<error>>
    BY <2>1, <2>2
  <2> QED  BY <1>3, <2>1, <2>2, <2>3 DEF close, IInv, StoredWhileOpen
<1> QED  BY <1>1, <1>2, <1>3

LEMMA MessageTells ==
  ASSUME IInv, Reading, status' = "response", onMessageComplete
  PROVE  /\ m_listener' = FALSE
         /\ \/ m_listener /\ told = <<>> /\ told' = <<"response">>
            \/ ~ m_listener /\ told' = told
<1>1. CASE ~ m_listener
  BY <1>1 DEF onMessageComplete
<1>2. CASE m_listener
  <2>1. told = <<>>
    BY <1>2 DEF Reading, IInv, StoredWhileOpen, ToldOnce
  <2>2. told' = Append(told, "response")
    BY <1>2 DEF onMessageComplete
  <2>3. told' = <<"response">>
    BY <2>1, <2>2
  <2> QED  BY <1>2, <2>1, <2>3 DEF onMessageComplete
<1> QED  BY <1>1, <1>2

LEMMA ErrorTypes ==
  /\ Errors \subseteq Told /\ "response" \in Told /\ "response" \notin Errors
  /\ ConnectError \subseteq Errors /\ "UV_ETIMEDOUT" \in Errors /\ "UV_EPROTO" \in Errors
BY HttpClientAssumption DEF Errors, Told

LEMMA Once ==
  ASSUME NEW outcome \in Told
  PROVE  /\ <<outcome>> \in Seq(Told) /\ <<outcome>> # <<>> /\ Len(<<outcome>>) <= 1
         /\ \A i \in DOMAIN <<outcome>> : <<outcome>>[i] = outcome
OBVIOUS

LEMMA Never == <<>> \in Seq(Told) /\ Len(<<>>) <= 1 /\ DOMAIN <<>> = {}
OBVIOUS

LEMMA InitInv == Init => IInv
<1> SUFFICES ASSUME Init
             PROVE  IInv
  OBVIOUS
<1> USE DEF Init
<1>1. TypeOK
  <2>1. told \in Seq(Told)  BY Never
  <2> QED  BY <2>1 DEF TypeOK, Handles, Conns, Resolvers, Parsers
<1>2. HonestOutcome  BY Never DEF HonestOutcome
<1>3. StoredWhileOpen /\ WillBeTold  BY DEF StoredWhileOpen, WillBeTold
<1>4. ToldOnce  BY Never DEF ToldOnce
<1> QED  BY <1>1, <1>2, <1>3, <1>4 DEF IInv

\* A step that calls close() and changes of the rest conn and timer at most.
LEMMA CloseInv ==
  ASSUME IInv, NEW error \in Errors, close(error),
         UNCHANGED <<resolver, dnsKey, parser, m_listener, asserted>>,
         conn' \in Conns, timer' \in BOOLEAN, timer' = timer \/ handle = "open"
  PROVE  IInv'
<1>1. CASE ~ stored /\ UNCHANGED <<stored, handle, status, told>>
  <2>1. TypeOK'
    BY <1>1 DEF IInv, TypeOK
  <2>2. (StoredWhileOpen /\ HonestOutcome /\ ToldOnce)'
    BY <1>1 DEF IInv, StoredWhileOpen, HonestOutcome, ToldOnce
  <2>3. WillBeTold'
    BY <1>1 DEF IInv, StoredWhileOpen, WillBeTold
  <2> QED  BY <2>1, <2>2, <2>3 DEF IInv
<1>2. CASE /\ stored /\ handle = "open" /\ stored' = FALSE /\ handle' = "closing"
           /\ m_listener /\ told = <<>> /\ told' = <<error>> /\ status' = error
  <2>1. error \in Told /\ error # "response" /\ parser # "done"
    BY <1>2, ErrorTypes DEF IInv, ToldOnce
  <2>2. told' \in Seq(Told) /\ told' # <<>> /\ Len(told') <= 1
        /\ \A i \in DOMAIN told' : told'[i] = error
    BY <1>2, <2>1, Once
  <2>3. TypeOK'
    BY <1>2, <2>1, <2>2 DEF IInv, TypeOK, Handles
  <2>4. (StoredWhileOpen /\ HonestOutcome)'
    BY <1>2, <2>1, <2>2 DEF StoredWhileOpen, HonestOutcome
  <2>5. (WillBeTold /\ ToldOnce)'
    BY <1>2, <2>1, <2>2 DEF IInv, WillBeTold, ToldOnce
  <2> QED  BY <2>3, <2>4, <2>5 DEF IInv
<1>3. CASE /\ stored /\ handle = "open" /\ stored' = FALSE /\ handle' = "closing"
           /\ ~ m_listener /\ UNCHANGED <<told, status>>
  <2>1. TypeOK'
    BY <1>3 DEF IInv, TypeOK, Handles
  <2>2. (StoredWhileOpen /\ HonestOutcome)'
    BY <1>3 DEF IInv, StoredWhileOpen, HonestOutcome
  <2>3. (WillBeTold /\ ToldOnce)'
    BY <1>3 DEF IInv, WillBeTold, ToldOnce
  <2> QED  BY <2>1, <2>2, <2>3 DEF IInv
<1> QED  BY <1>1, <1>2, <1>3, CloseTells

\* A step that completes a message.
LEMMA MessageInv ==
  ASSUME IInv, Reading, status' = "response", onMessageComplete, parser' = "done",
         \/ UNCHANGED <<stored, handle>>
         \/ stored' = FALSE /\ handle' = "closing",
         UNCHANGED <<conn, resolver, dnsKey, timer, asserted>>
  PROVE  IInv'
<1>1. stored /\ (StoredWhileOpen /\ WillBeTold)' /\ m_listener' = FALSE
  BY MessageTells DEF Reading, IInv, StoredWhileOpen, WillBeTold
<1>2. /\ told' \in Seq(Told) /\ Len(told') <= 1
      /\ \A i \in DOMAIN told' : told'[i] = "response"
  <2>1. CASE told' = <<"response">>
    BY <2>1, Once, ErrorTypes
  <2>2. CASE ~ m_listener /\ told' = told
    <3>1. told # <<>> => parser = "done"
      BY <1>1 DEF IInv, ToldOnce
    <3>2. \A i \in DOMAIN told : told[i] = "response"
      BY <3>1, Never DEF IInv, HonestOutcome
    <3> QED  BY <2>2, <3>2 DEF IInv, TypeOK, ToldOnce
  <2> QED  BY <2>1, <2>2, MessageTells
<1>3. TypeOK'
  BY <1>1, <1>2, ErrorTypes DEF IInv, TypeOK, Handles, Parsers
<1>4. HonestOutcome'
  BY <1>2 DEF HonestOutcome
<1>5. ToldOnce'
  BY <1>1, <1>2 DEF IInv, ToldOnce, Reading
<1> QED  BY <1>1, <1>3, <1>4, <1>5 DEF IInv

LEMMA StepInv == IInv /\ [Next]_vars => IInv'
<1> SUFFICES ASSUME IInv, [Next]_vars
             PROVE  IInv'
  OBVIOUS
<1>1. CASE fetch
  BY <1>1, HttpClientAssumption DEF fetch, IInv, TypeOK, StoredWhileOpen, HonestOutcome, WillBeTold, ToldOnce,
    Handles, Resolvers
<1>2. CASE onResolved
  BY <1>2, ErrorTypes DEF onResolved, IInv, TypeOK, StoredWhileOpen, HonestOutcome,
    WillBeTold, ToldOnce, Conns, Resolvers
<1>3. CASE onResolvedLate
  BY <1>3 DEF onResolvedLate, IInv, TypeOK, StoredWhileOpen, HonestOutcome, WillBeTold,
    ToldOnce, Resolvers
<1>4. CASE onConnect
  <2>1. CASE conn' = "connected" /\ UNCHANGED <<stored, handle, status, told>>
    BY <1>4, <2>1 DEF onConnect, IInv, TypeOK, StoredWhileOpen, HonestOutcome, WillBeTold,
      ToldOnce, Conns
  <2>2. ASSUME conn' = "none", NEW error \in ConnectError \ {Eof}, close(error)
        PROVE  IInv'
    BY <1>4, <2>2, CloseInv, ErrorTypes DEF onConnect, Conns, IInv, TypeOK
  <2> QED  BY <1>4, <2>1, <2>2 DEF onConnect
<1>5. CASE onCancelled
  BY <1>5, CloseInv, ErrorTypes DEF onCancelled, Conns, IInv, TypeOK
<1>6. CASE onReadPart
  BY <1>6, ErrorTypes DEF onReadPart, Reading, IInv, TypeOK, StoredWhileOpen, HonestOutcome,
    WillBeTold, ToldOnce, Parsers
<1>7. CASE onReadEnd
  BY <1>7, MessageInv DEF onReadEnd
<1>8. CASE onReadEndAndMore
  BY <1>8, MessageInv DEF onReadEndAndMore
<1>9. CASE onReadNextMessage
  BY <1>9, MessageInv DEF onReadNextMessage
<1>10. CASE onReadGarbage
  BY <1>10, CloseInv, ErrorTypes DEF onReadGarbage, IInv, TypeOK
<1>11. CASE onReadError
  BY <1>11, CloseInv, ErrorTypes DEF onReadError, IInv, TypeOK
<1>12. CASE onTimer
  BY <1>12, CloseInv, ErrorTypes DEF onTimer, IInv, TypeOK
<1>13. CASE onClosed
  BY <1>13 DEF onClosed, IInv, TypeOK, StoredWhileOpen, HonestOutcome, WillBeTold, ToldOnce,
    Handles
<1>14. CASE listenerGone
  BY <1>14 DEF listenerGone, IInv, TypeOK, StoredWhileOpen, HonestOutcome, WillBeTold, ToldOnce
<1>15. CASE UNCHANGED vars
  BY <1>15 DEF vars, IInv, TypeOK, StoredWhileOpen, HonestOutcome, WillBeTold, ToldOnce
<1> QED
  BY <1>1, <1>2, <1>3, <1>4, <1>5, <1>6, <1>7, <1>8, <1>9, <1>10, <1>11, <1>12, <1>13,
    <1>14, <1>15 DEF Next, Resolving, Connecting, Receiving

(***************************************************************************)
(* The inductive invariant: all of the following are parts of it.          *)
(***************************************************************************)
THEOREM Invariant == Spec => []IInv
BY InitInv, StepInv, PTL DEF Spec

(***************************************************************************)
(* Every variable keeps its type.                                          *)
(***************************************************************************)
THEOREM TypeCorrect == Spec => []TypeOK
<1>1. IInv => TypeOK  BY DEF IInv
<1> QED  BY <1>1, Invariant, PTL

(***************************************************************************)
(* The storage map never holds an object that is being deleted.            *)
(***************************************************************************)
THEOREM NoStaleEntry == Spec => []StoredWhileOpen
<1>1. IInv => StoredWhileOpen  BY DEF IInv
<1> QED  BY <1>1, Invariant, PTL

(***************************************************************************)
(* The listener hears what happened.                                       *)
(***************************************************************************)
THEOREM Truthful == Spec => []HonestOutcome
<1>1. IInv => HonestOutcome  BY DEF IInv
<1> QED  BY <1>1, Invariant, PTL

(***************************************************************************)
(* A listener that waits is not forgotten: the exchange is open and, if it *)
(* has a timeout, its timer runs.                                          *)
(***************************************************************************)
THEOREM Mindful == Spec => []WillBeTold
<1>1. IInv => WillBeTold  BY DEF IInv
<1> QED  BY <1>1, Invariant, PTL

-----------------------------------------------------------------------------
LEMMA InitRefines == Init => Promise!Init
BY DEF Init, Promise!Init

LEMMA StepRefines == IInv /\ [Next]_vars => [Promise!Next]_(Promise!vars)
<1> SUFFICES ASSUME IInv, [Next]_vars
             PROVE  Promise!Next \/ UNCHANGED <<m_listener, told, handle = "deleted">>
  BY DEF Promise!vars
<1>1. ASSUME NEW error \in Errors, close(error), UNCHANGED m_listener
      PROVE  Promise!Next \/ UNCHANGED <<m_listener, told, handle = "deleted">>
  BY <1>1, CloseTells, ErrorTypes DEF Promise!Next, Promise!Tell, IInv, TypeOK
<1>2. ASSUME Reading, status' = "response", onMessageComplete,
             UNCHANGED handle \/ handle' = "closing"
      PROVE  Promise!Next \/ UNCHANGED <<m_listener, told, handle = "deleted">>
  BY <1>2, MessageTells, ErrorTypes DEF Promise!Next, Promise!Tell, Reading, IInv, TypeOK
<1>3. CASE fetch \/ Resolving \/ onReadPart \/ UNCHANGED vars
  BY <1>3 DEF fetch, Resolving, onResolved, onResolvedLate, onReadPart, vars
<1>4. CASE Connecting
  BY <1>1, <1>4, ErrorTypes DEF Connecting, onConnect, onCancelled
<1>5. CASE onReadEnd \/ onReadEndAndMore \/ onReadNextMessage
  BY <1>2, <1>5 DEF onReadEnd, onReadEndAndMore, onReadNextMessage
<1>6. CASE onReadGarbage \/ onReadError \/ onTimer
  BY <1>1, <1>6, ErrorTypes DEF onReadGarbage, onReadError, onTimer
<1>7. CASE onClosed
  BY <1>7 DEF onClosed, Promise!Next, Promise!End, IInv, WillBeTold
<1>8. CASE listenerGone
  BY <1>8 DEF listenerGone, Promise!Next, Promise!Leave
<1> QED  BY <1>3, <1>4, <1>5, <1>6, <1>7, <1>8 DEF Next, Receiving

(***************************************************************************)
(* HttpClient implements Exchange: the listener is called at most once,    *)
(* not after it is gone, and the exchange does not end without the call    *)
(* while the listener lives.                                               *)
(***************************************************************************)
THEOREM Refinement == Spec => Implements
<1>1. Spec => Promise!Spec
  BY InitRefines, StepRefines, Invariant, PTL DEF Spec, Promise!Spec
<1> QED  BY <1>1 DEF Implements

=============================================================================
