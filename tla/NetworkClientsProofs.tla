------------------------ MODULE NetworkClientsProofs ------------------------
(***************************************************************************)
(* Theorems about module NetworkClients, for every value of its constants: *)
(* the synchronisation and its HTTP clients, put together, keep what each  *)
(* of them promises alone.                                                 *)
(*                                                                         *)
(* The argument.  What is proved of Network is taken over, with the        *)
(* requests that wait for a client (Wire) for its open exchanges.  That a  *)
(* step of the parts together is one of Network needs the invariant of the *)
(* clients where one is deleted: as long as the Network object lives each  *)
(* client that has told nothing still listens, so that the deletion is an  *)
(* exchange that expires, or that has been answered before.                *)
(***************************************************************************)
EXTENDS NetworkClients, TLAPS

NetProofs == INSTANCE NetworkProofs WITH wire <- Wire

-----------------------------------------------------------------------------
(***************************************************************************)
(* The definitions of Network are the same here and in the module of its   *)
(* theorems.                                                               *)
(***************************************************************************)
LEMMA SameCardinality ==
  ASSUME NEW S
  PROVE  Net!Cardinality(S) = NetProofs!Cardinality(S)
BY DEF Net!Cardinality, NetProofs!Cardinality, Net!IsFiniteSet, NetProofs!IsFiniteSet

LEMMA SameRoom == ASSUME NEW req PROVE Net!Room(req) <=> NetProofs!Room(req)
BY SameCardinality DEF Net!Room, NetProofs!Room

LEMMA SameSend ==
  ASSUME NEW range, NEW req, NEW open
  PROVE  /\ Net!getBlockHeadersRangeOf(range, req, open)
              <=> NetProofs!getBlockHeadersRangeOf(range, req, open)
         /\ Net!getBlockHeadersRange(req, open)
              <=> NetProofs!getBlockHeadersRange(req, open)
BY DEF Net!getBlockHeadersRangeOf, NetProofs!getBlockHeadersRangeOf,
   Net!getBlockHeadersRange, NetProofs!getBlockHeadersRange, Net!NextPos,
   NetProofs!NextPos, Net!Wrap, NetProofs!Wrap, Net!Insert, NetProofs!Insert, Net!NewRange,
   NetProofs!NewRange, Net!BLOCK_HEADERS_RANGE, NetProofs!BLOCK_HEADERS_RANGE

LEMMA SameInit == Net!Init <=> NetProofs!Init
BY DEF Net!Init, NetProofs!Init

LEMMA SameIInv == Net!IInv <=> NetProofs!IInv
<1>1. Net!TypeOK <=> NetProofs!TypeOK
  BY DEF Net!TypeOK, NetProofs!TypeOK, Net!UInt32, NetProofs!UInt32, Net!Ranges,
     NetProofs!Ranges, Net!Exchanges, NetProofs!Exchanges, Net!Outcomes,
     NetProofs!Outcomes, Net!LAST_BLOCK_HEADER, NetProofs!LAST_BLOCK_HEADER,
     Net!BLOCK_HEADERS_RANGE, NetProofs!BLOCK_HEADERS_RANGE
<1>2. Net!Bounded <=> NetProofs!Bounded
  BY DEF Net!Bounded, NetProofs!Bounded
<1>3. Net!Phases <=> NetProofs!Phases
  BY DEF Net!Phases, NetProofs!Phases, Net!Asking, NetProofs!Asking,
     Net!LAST_BLOCK_HEADER, NetProofs!LAST_BLOCK_HEADER
<1>4. Net!FromChain <=> NetProofs!FromChain
  BY DEF Net!FromChain, NetProofs!FromChain
<1>5. Net!TrackedExchanges <=> NetProofs!TrackedExchanges
  BY DEF Net!TrackedExchanges, NetProofs!TrackedExchanges, Net!BLOCK_HEADERS_RANGE,
     NetProofs!BLOCK_HEADERS_RANGE
<1>6. Net!ConcurrencyBound <=> NetProofs!ConcurrencyBound
  BY SameCardinality DEF Net!ConcurrencyBound, NetProofs!ConcurrencyBound
<1>7. Net!Coverage <=> NetProofs!Coverage
  BY DEF Net!Coverage, NetProofs!Coverage, Net!Covered, NetProofs!Covered,
     Net!Requested, NetProofs!Requested
<1>8. Net!NoMissingHeader <=> NetProofs!NoMissingHeader
  BY DEF Net!NoMissingHeader, NetProofs!NoMissingHeader
<1>9. Net!SuccessIsQuiet <=> NetProofs!SuccessIsQuiet
  BY DEF Net!SuccessIsQuiet, NetProofs!SuccessIsQuiet
<1>10. Net!ReportsComplete <=> NetProofs!ReportsComplete
  BY DEF Net!ReportsComplete, NetProofs!ReportsComplete
<1> QED
  BY <1>1, <1>2, <1>3, <1>4, <1>5, <1>6, <1>7, <1>8, <1>9, <1>10
  DEF Net!IInv, NetProofs!IInv

LEMMA SameSetBlockHeadersRange ==
  ASSUME NEW x, NEW id, NEW headers
  PROVE  Net!setBlockHeadersRange(x, id, headers)
           <=> NetProofs!setBlockHeadersRange(x, id, headers)
BY SameSend, SameRoom DEF Net!setBlockHeadersRange, NetProofs!setBlockHeadersRange,
   Net!Insert, NetProofs!Insert, Net!Erase, NetProofs!Erase, Net!Finish, NetProofs!Finish,
   Net!net, NetProofs!net, Net!Complete, NetProofs!Complete, Net!save, NetProofs!save

LEMMA SameNext == [Net!Next]_(Net!vars) <=> [NetProofs!Next]_(NetProofs!vars)
<1>1. Net!connect <=> NetProofs!connect
  BY DEF Net!connect, NetProofs!connect, Net!LAST_BLOCK_HEADER,
     NetProofs!LAST_BLOCK_HEADER, Net!net, NetProofs!net
<1>2. Net!syncLoop <=> NetProofs!syncLoop
  BY SameSend DEF Net!syncLoop, NetProofs!syncLoop, Net!net, NetProofs!net
<1>3. ASSUME NEW x
      PROVE  /\ Net!Callback(x) <=> NetProofs!Callback(x)
             /\ Net!onTransportError(x) <=> NetProofs!onTransportError(x)
             /\ Net!onUnusableReply(x) <=> NetProofs!onUnusableReply(x)
  BY SameSend DEF Net!Callback, NetProofs!Callback, Net!Retriable,
     NetProofs!Retriable, Net!onTransportError,
     NetProofs!onTransportError, Net!Retried, NetProofs!Retried, Net!Erase,
     NetProofs!Erase, Net!Finish, NetProofs!Finish, Net!net, NetProofs!net,
     Net!onUnusableReply, NetProofs!onUnusableReply, Net!BLOCK_HEADERS_RANGE,
     NetProofs!BLOCK_HEADERS_RANGE
<1>4. ASSUME NEW x
      PROVE  Net!onLastBlockHeader(x) <=> NetProofs!onLastBlockHeader(x)
  BY <1>3 DEF Net!onLastBlockHeader, NetProofs!onLastBlockHeader,
     Net!setLastBlockHeader, NetProofs!setLastBlockHeader, Net!Finish, NetProofs!Finish,
     Net!sync, NetProofs!sync, Net!Blocks, NetProofs!Blocks, Net!Wrap, NetProofs!Wrap,
     Net!LAST_BLOCK_HEADER, NetProofs!LAST_BLOCK_HEADER
<1>5. ASSUME NEW x
      PROVE  Net!onBlockHeadersRange(x) <=> NetProofs!onBlockHeadersRange(x)
  BY <1>3, SameSetBlockHeadersRange DEF Net!onBlockHeadersRange,
     NetProofs!onBlockHeadersRange, Net!Replies, NetProofs!Replies, Net!ReplyIds,
     NetProofs!ReplyIds, Net!BLOCK_HEADERS_RANGE, NetProofs!BLOCK_HEADERS_RANGE
<1>6. Net!close <=> NetProofs!close
  BY DEF Net!close, NetProofs!close, Net!Finish, NetProofs!Finish, Net!net, NetProofs!net
<1>7. ASSUME NEW x
      PROVE  Net!expired(x) <=> NetProofs!expired(x)
  BY DEF Net!expired, NetProofs!expired, Net!net, NetProofs!net
<1>8. UNCHANGED Net!vars <=> UNCHANGED NetProofs!vars
  BY DEF Net!vars, NetProofs!vars, Net!net, NetProofs!net
<1> QED
  BY <1>1, <1>2, <1>3, <1>4, <1>5, <1>6, <1>7, <1>8
  DEF Net!Next, NetProofs!Next, Net!Answer, NetProofs!Answer

LEMMA SameSpec == Net!Spec <=> NetProofs!Spec
BY SameInit, SameNext, PTL DEF Net!Spec, NetProofs!Spec

LEMMA SameImplements == Net!Implements <=> NetProofs!Implements
<1>1. Net!Sync!Init <=> NetProofs!Sync!Init
  BY DEF Net!Sync!Init, NetProofs!Sync!Init
<1>2. [Net!Sync!Next]_(Net!Sync!vars) <=> [NetProofs!Sync!Next]_(NetProofs!Sync!vars)
  BY DEF Net!Sync!Next, NetProofs!Sync!Next, Net!Sync!vars, NetProofs!Sync!vars,
     Net!Sync!Complete, NetProofs!Sync!Complete, Net!Sync!GiveUp, NetProofs!Sync!GiveUp,
     Net!Sync!Extended, NetProofs!Sync!Extended, Net!Outcomes, NetProofs!Outcomes
<1> QED
  BY <1>1, <1>2, PTL
  DEF Net!Implements, NetProofs!Implements, Net!Sync!Spec, NetProofs!Sync!Spec

-----------------------------------------------------------------------------
(***************************************************************************)
(* The requests.                                                           *)
(***************************************************************************)
\* A request that is on its way is known by its number.
LEMMA RequestsHaveIds ==
  ASSUME RequestsOK
  PROVE  /\ DOMAIN request = 1..nextId
         /\ DOMAIN request \subseteq Ids
         /\ \A i, j \in DOMAIN request : request[i] = request[j] => i = j
BY NetworkClientsAssumption DEF RequestsOK, Ids

LEMMA RequestsKept ==
  ASSUME RequestsOK,
         \/ UNCHANGED <<nextId, request>>
         \/ \E type \in {"LAST_BLOCK_HEADER", "BLOCK_HEADERS_RANGE"}, range \in Net!Ranges :
              rpcSend(type, range)
  PROVE  /\ RequestsOK'
         /\ DOMAIN request \subseteq DOMAIN request'
         /\ \A i \in DOMAIN request : request'[i] = request[i]
<1>1. CASE UNCHANGED <<nextId, request>>
  BY <1>1 DEF RequestsOK
<1>2. ASSUME NEW type \in {"LAST_BLOCK_HEADER", "BLOCK_HEADERS_RANGE"},
             NEW range \in Net!Ranges,
             rpcSend(type, range)
      PROVE  /\ RequestsOK'
             /\ DOMAIN request \subseteq DOMAIN request'
             /\ \A i \in DOMAIN request : request'[i] = request[i]
  <2> DEFINE x == [id |-> nextId + 1, type |-> type, range |-> range]
  <2>1. nextId' = nextId + 1 /\ nextId' <= MaxRequests /\ request' = Append(request, x)
    BY <1>2, NetworkClientsAssumption DEF rpcSend, RequestsOK, Ids
  <2>2. x \in Net!Exchanges /\ x.id = nextId + 1
    BY DEF Net!Exchanges, Net!LAST_BLOCK_HEADER, Net!BLOCK_HEADERS_RANGE, RequestsOK
  <2> HIDE DEF x
  <2>3. request' \in Seq(Net!Exchanges) /\ Len(request') = nextId + 1
    BY <2>1, <2>2 DEF RequestsOK
  <2>4. /\ \A i \in 1..nextId : request'[i] = request[i]
        /\ request'[nextId + 1] = x
    BY <2>1, <2>2 DEF RequestsOK
  <2>5. DOMAIN request = 1..nextId /\ DOMAIN request' = 1..(nextId + 1)
    BY <2>3 DEF RequestsOK
  <2>6. \A i \in DOMAIN request' : request'[i].id = i
    BY <2>2, <2>4, <2>5 DEF RequestsOK
  <2>7. nextId + 1 \in Nat  BY DEF RequestsOK
  <2>8. RequestsOK'  BY <2>1, <2>3, <2>6, <2>7 DEF RequestsOK
  <2>9. DOMAIN request \subseteq DOMAIN request'  BY <2>5 DEF RequestsOK
  <2> QED  BY <2>4, <2>5, <2>8, <2>9
<1> QED  BY <1>1, <1>2

\* The ranges that getBlockHeadersRange requests.
LEMMA SendsRange ==
  ASSUME Net!IInv, getBlockHeadersRange
  PROVE  \/ UNCHANGED <<nextId, request>>
         \/ \E range \in Net!Ranges : rpcSend("BLOCK_HEADERS_RANGE", range)
<1>1. \A id \in DOMAIN m_req : m_req[id] \in Net!Ranges
  BY DEF Net!IInv, Net!TypeOK
<1>2. Net!NewRange(m_pos, MaxRange, m_height) \in Net!Ranges
  <2>1. m_pos \in 0..(Modulus - 1) /\ m_height \in 0..MaxHeight
    BY DEF Net!IInv, Net!TypeOK, Net!UInt32
  <2>2. m_pos + MaxRange \in Nat /\ m_pos + MaxRange < Modulus + Modulus
    BY <2>1, NetworkClientsAssumption
  <2>3. Net!Wrap(m_pos + MaxRange) \in 0..(Modulus - 1)
    BY <2>2, NetworkClientsAssumption DEF Net!Wrap
  <2>4. m_height \in 0..(Modulus - 1)  BY <2>1, NetworkClientsAssumption
  <2> QED  BY <2>1, <2>3, <2>4 DEF Net!NewRange, Net!Ranges, Net!UInt32
<1> QED  BY <1>1, <1>2 DEF getBlockHeadersRange

-----------------------------------------------------------------------------
(***************************************************************************)
(* The clients keep step with the Network object.                          *)
(***************************************************************************)
LEMMA InitInv == Init => IInv
<1> SUFFICES ASSUME Init PROVE IInv
  OBVIOUS
<1>1. Net!Init  BY DEF Init
<1>2. Net!IInv
  BY <1>1, SameInit, SameIInv, NetProofs!InitInv, NetworkClientsAssumption
<1>3. nextId = 0 /\ outcome = "running"  BY <1>1 DEF Net!Init
<1>4. RequestsOK  BY <1>3, NetworkClientsAssumption DEF Init, RequestsOK
<1>5. TypesOK  BY DEF Init, TypesOK
<1>6. ListenersLive  BY <1>3 DEF Init, ListenersLive, Live, Unopened
<1> QED  BY <1>2, <1>4, <1>5, <1>6 DEF IInv

\* A step that leaves the clients alone.
LEMMA ClientsAlone ==
  ASSUME TypesOK, ListenersLive, DOMAIN request \subseteq DOMAIN request',
         UNCHANGED clients, UNCHANGED outcome
  PROVE  TypesOK' /\ ListenersLive'
BY DEF TypesOK, ListenersLive, Live, Unopened, clients

\* The call of the listener, with what it does to the others.
LEMMA ClientsAnswered ==
  ASSUME RequestsOK, TypesOK, ListenersLive, DOMAIN request \subseteq DOMAIN request',
         NEW i \in Ids, NEW status \in Status, onHttpData(i, status)
  PROVE  TypesOK' /\ ListenersLive'
<1>1. /\ i \in DOMAIN request
      /\ told' = [told EXCEPT ![i] = <<status>>]
      /\ over' = over
      /\ listening' = [j \in Ids |->
              [listening EXCEPT ![i] = (status = "error")][j] /\ outcome' = "running"]
  BY DEF onHttpData, Expired
<1>2. outcome = "running"
  BY DEF onHttpData, ListenersLive, Live
<1>3. TypesOK'
  <2>1. listening' \in [Ids -> BOOLEAN]  BY <1>1
  <2>2. <<status>> \in Seq(Status)  OBVIOUS
  <2>3. told' \in [Ids -> Seq(Status)]  BY <1>1, <2>2 DEF TypesOK
  <2> QED  BY <1>1, <2>1, <2>3 DEF TypesOK
<1>4. ASSUME NEW j \in Ids PROVE Live(j)'
  <2>1. listening'[j] => outcome' = "running"  BY <1>1
  <2>2. ASSUME outcome' = "running", told'[j] = <<>>
        PROVE  listening'[j] /\ ~ over'[j]
    <3>1. j # i  BY <1>1, <2>2 DEF TypesOK
    <3>2. told[j] = <<>>  BY <1>1, <2>2, <3>1 DEF TypesOK
    <3>3. listening[j] /\ ~ over[j]  BY <1>2, <3>2 DEF ListenersLive, Live
    <3> QED  BY <1>1, <2>2, <3>1, <3>3 DEF TypesOK
  <2> QED  BY <2>1, <2>2 DEF Live
<1>5. ASSUME NEW j \in Ids \ DOMAIN request' PROVE Unopened(j)'
  <2>1. j # i /\ j \in Ids \ DOMAIN request  BY <1>1
  <2>2. told[j] = <<>> /\ ~ over[j] /\ listening[j]  BY <1>2, <2>1 DEF ListenersLive, Unopened
  <2>3. told'[j] = <<>> /\ ~ over'[j]  BY <1>1, <2>1, <2>2 DEF TypesOK
  <2>4. listening'[j] = (outcome' = "running")  BY <1>1, <2>1, <2>2 DEF TypesOK
  <2> QED  BY <2>3, <2>4 DEF Unopened
<1> QED  BY <1>3, <1>4, <1>5 DEF ListenersLive

\* The Network object goes, with its listener.
LEMMA ClientsExpired ==
  ASSUME TypesOK, ListenersLive, close
  PROVE  TypesOK' /\ ListenersLive'
<1>1. /\ outcome' = "closed" /\ UNCHANGED <<request, told, over>>
      /\ listening' = [j \in Ids |-> FALSE]
  BY DEF close, Expired, Net!close, Net!Finish
<1> QED  BY <1>1 DEF TypesOK, ListenersLive, Live, Unopened

LEMMA ClientsClosed ==
  ASSUME TypesOK, ListenersLive, NEW i \in Ids, onClosed(i)
  PROVE  TypesOK' /\ ListenersLive'
<1>1. /\ i \in DOMAIN request /\ (told[i] # <<>> \/ ~ listening[i])
      /\ over' = [over EXCEPT ![i] = TRUE]
      /\ UNCHANGED <<outcome, request, listening, told>>
  BY DEF onClosed, net
<1>2. TypesOK'  BY <1>1 DEF TypesOK
<1>3. ASSUME NEW j \in Ids PROVE Live(j)'
  BY <1>1 DEF TypesOK, ListenersLive, Live
<1>4. ASSUME NEW j \in Ids \ DOMAIN request' PROVE Unopened(j)'
  <2>1. j # i  BY <1>1 DEF onClosed
  <2> QED  BY <1>1, <2>1 DEF TypesOK, ListenersLive, Unopened
<1> QED  BY <1>2, <1>3, <1>4 DEF ListenersLive

-----------------------------------------------------------------------------
(***************************************************************************)
(* Network in the company of its clients.                                  *)
(***************************************************************************)
\* A client that is deleted unheard is an exchange that expires.
LEMMA ClosedExpires ==
  ASSUME RequestsOK, TypesOK, ListenersLive, NEW i \in Ids, onClosed(i)
  PROVE  [Net!Next]_(Net!vars)
<1>1. /\ outcome # "terminated" /\ i \in DOMAIN request
      /\ ~ over[i] /\ (told[i] # <<>> \/ ~ listening[i])
      /\ over' = [over EXCEPT ![i] = TRUE]
      /\ UNCHANGED <<net, request, told>>
  BY DEF onClosed
<1>2. \A j \in DOMAIN request : Unanswered(j)' <=> Unanswered(j) /\ j # i
  BY <1>1, RequestsHaveIds DEF Unanswered, TypesOK
<1>3. CASE told[i] # <<>>
  <2>1. \A j \in DOMAIN request : Unanswered(j)' <=> Unanswered(j)
    BY <1>2, <1>3 DEF Unanswered
  <2>2. Wire' = Wire  BY <1>1, <2>1 DEF Wire
  <2> QED  BY <1>1, <2>2 DEF Net!vars, Net!net, net
<1>4. CASE told[i] = <<>>
  <2>1. outcome # "running"  BY <1>1, <1>4 DEF ListenersLive, Live
  <2>2. request[i] \in Wire  BY <1>1, <1>4 DEF Wire, Unanswered
  <2>3. Wire' = Wire \ {request[i]}
    <3>1. Wire' = {request[j] : j \in {k \in DOMAIN request : Unanswered(k) /\ k # i}}
      BY <1>1, <1>2 DEF Wire
    <3> QED  BY <1>1, <3>1, RequestsHaveIds DEF Wire
  <2>4. Net!expired(request[i])  BY <1>1, <2>1, <2>2, <2>3 DEF Net!expired, Net!net, net
  <2> QED  BY <2>2, <2>4 DEF Net!Next
<1> QED  BY <1>3, <1>4

LEMMA NetSteps ==
  ASSUME RequestsOK, TypesOK, ListenersLive, [Next]_vars
  PROVE  [Net!Next]_(Net!vars)
<1>1. CASE connect  BY <1>1 DEF connect, Net!Next
<1>2. CASE syncLoop  BY <1>2 DEF syncLoop, Net!Next
<1>3. CASE close  BY <1>3 DEF close, Net!Next
<1>4. ASSUME NEW i \in Ids, onClosed(i)
      PROVE  [Net!Next]_(Net!vars)
  BY <1>4, ClosedExpires
<1>5. ASSUME NEW i \in Ids, NEW status \in Status, onHttpData(i, status)
      PROVE  [Net!Next]_(Net!vars)
  <2>1. request[i] \in Wire  BY <1>5 DEF onHttpData, Wire
  <2>2. Net!Answer
    <3>1. \/ Net!onTransportError(request[i]) \/ Net!onUnusableReply(request[i])
          \/ Net!onLastBlockHeader(request[i]) \/ Net!onBlockHeadersRange(request[i])
      BY <1>5 DEF onHttpData
    <3> QED  BY <2>1, <3>1 DEF Net!Answer
  <2> QED  BY <2>2 DEF Net!Next
<1>6. CASE UNCHANGED vars
  <2>1. Wire' = Wire  BY <1>6 DEF vars, clients, Wire, Unanswered
  <2> QED  BY <1>6, <2>1 DEF vars, net, Net!vars, Net!net
<1> QED  BY <1>1, <1>2, <1>3, <1>4, <1>5, <1>6 DEF Next, ClientStep

LEMMA StepInv == IInv /\ [Next]_vars => IInv'
<1> SUFFICES ASSUME IInv, [Next]_vars PROVE IInv'
  OBVIOUS
<1>0. RequestsOK /\ TypesOK /\ ListenersLive /\ Net!IInv  BY DEF IInv
<1>1. Net!IInv'
  <2>1. NetProofs!IInv /\ [NetProofs!Next]_(NetProofs!vars)
    BY <1>0, NetSteps, SameIInv, SameNext
  <2>2. NetProofs!IInv'  BY <2>1, NetProofs!StepInv, NetworkClientsAssumption
  <2>3. Net!IInv' <=> NetProofs!IInv'  BY SameIInv, PTL
  <2> QED  BY <2>2, <2>3
<1>2. RequestsOK' /\ DOMAIN request \subseteq DOMAIN request'
  <2>1. \/ UNCHANGED <<nextId, request>>
        \/ \E type \in {"LAST_BLOCK_HEADER", "BLOCK_HEADERS_RANGE"}, range \in Net!Ranges :
             rpcSend(type, range)
    <3>1. CASE connect
      <4>1. [start |-> 0, end |-> 0] \in Net!Ranges
        BY NetworkClientsAssumption DEF Net!Ranges, Net!UInt32
      <4> QED  BY <3>1, <4>1 DEF connect
    <3>2. CASE getBlockHeadersRange  BY <1>0, <3>2, SendsRange
    <3>3. CASE syncLoop  BY <3>2, <3>3 DEF syncLoop
    <3>4. CASE close  BY <3>4 DEF close, Net!close, Net!net
    <3>5. ASSUME NEW i \in Ids, ClientStep(i)
          PROVE  getBlockHeadersRange \/ UNCHANGED <<nextId, request>>
      BY <3>5 DEF ClientStep, onClosed, onHttpData, net
    <3>6. CASE UNCHANGED vars  BY <3>6 DEF vars, net
    <3> QED  BY <3>1, <3>2, <3>3, <3>4, <3>5, <3>6 DEF Next
  <2> QED  BY <1>0, <2>1, RequestsKept
<1>3. TypesOK' /\ ListenersLive'
  <2>1. CASE connect \/ syncLoop \/ UNCHANGED vars
    <3>1. UNCHANGED clients /\ UNCHANGED outcome
      BY <2>1 DEF connect, syncLoop, Net!connect, Net!syncLoop, vars, net
    <3> QED  BY <1>0, <1>2, <3>1, ClientsAlone
  <2>2. CASE close  BY <1>0, <2>2, ClientsExpired
  <2>3. ASSUME NEW i \in Ids, onClosed(i)
        PROVE  TypesOK' /\ ListenersLive'
    BY <1>0, <2>3, ClientsClosed
  <2>4. ASSUME NEW i \in Ids, NEW status \in Status, onHttpData(i, status)
        PROVE  TypesOK' /\ ListenersLive'
    BY <1>0, <1>2, <2>4, ClientsAnswered
  <2> QED  BY <2>1, <2>2, <2>3, <2>4 DEF Next, ClientStep
<1> QED  BY <1>1, <1>2, <1>3 DEF IInv

(***************************************************************************)
(* The inductive invariant of the parts together.                          *)
(***************************************************************************)
THEOREM Invariant == Spec => []IInv
BY InitInv, StepInv, PTL DEF Spec

-----------------------------------------------------------------------------
(***************************************************************************)
(* The clients as exchanges.                                               *)
(***************************************************************************)
LEMMA ClientSteps ==
  ASSUME TypesOK, ListenersLive, [Next]_vars, NEW i \in Ids
  PROVE  [Client(i)!Next]_(Client(i)!vars)
<1> SUFFICES \/ Client(i)!Tell \/ Client(i)!Leave \/ Client(i)!End
             \/ UNCHANGED <<listening[i], told[i], over[i]>>
  BY DEF Client!Next, Client!vars
<1>1. CASE connect \/ syncLoop \/ UNCHANGED vars
  BY <1>1 DEF connect, syncLoop, vars, clients
<1>2. CASE close
  <2>1. listening' = [j \in Ids |-> FALSE] /\ UNCHANGED <<told, over>>
    BY <1>2 DEF close, Expired, Net!close, Net!Finish
  <2> QED  BY <2>1 DEF Client!Leave
<1>3. ASSUME NEW k \in Ids, onClosed(k)
      PROVE  Client(i)!End \/ UNCHANGED <<listening[i], told[i], over[i]>>
  BY <1>3 DEF onClosed, Client!End, TypesOK
<1>4. ASSUME NEW k \in Ids, NEW status \in Status, onHttpData(k, status)
      PROVE  Client(i)!Tell \/ Client(i)!Leave \/ UNCHANGED <<listening[i], told[i], over[i]>>
  <2>1. /\ listening[k] /\ Unanswered(k)
        /\ told' = [told EXCEPT ![k] = <<status>>]
        /\ over' = over
        /\ listening' = [j \in Ids |->
                [listening EXCEPT ![k] = (status = "error")][j] /\ outcome' = "running"]
    BY <1>4 DEF onHttpData, Expired
  <2>2. CASE i = k
    BY <2>1, <2>2 DEF Client!Tell, Unanswered, TypesOK
  <2>3. CASE i # k
    <3>1. told'[i] = told[i] /\ over'[i] = over[i]  BY <2>1, <2>3 DEF TypesOK
    <3>2. listening'[i] = listening[i] \/ listening'[i] = FALSE
      BY <2>1, <2>3 DEF TypesOK
    <3> QED  BY <3>1, <3>2 DEF Client!Leave
  <2> QED  BY <2>2, <2>3
<1> QED  BY <1>1, <1>2, <1>3, <1>4 DEF Next, ClientStep

(***************************************************************************)
(* Each part keeps its promise in the company of the others.               *)
(***************************************************************************)
THEOREM Refinement == Spec => Implements
<1>1. Spec => Net!Spec
  <2>1. Init => Net!Init  BY DEF Init
  <2>2. IInv /\ [Next]_vars => [Net!Next]_(Net!vars)  BY NetSteps DEF IInv
  <2> QED  BY <2>1, <2>2, Invariant, PTL DEF Spec, Net!Spec
<1>2. Spec => Net!Implements
  BY <1>1, SameSpec, SameImplements, NetProofs!Refinement, NetworkClientsAssumption
<1>3. Spec => Exchanges
  <2>1. Init => \A i \in Ids : Client(i)!Init  BY DEF Init, Client!Init
  <2>2. IInv /\ [Next]_vars => [\A i \in Ids : [Client(i)!Next]_(Client(i)!vars)]_clients
    BY ClientSteps DEF IInv
  <2> QED  BY <2>1, <2>2, Invariant, PTL DEF Spec, Exchanges
<1> QED  BY <1>1, <1>2, <1>3 DEF Implements

(***************************************************************************)
(* With a daemon that answers what it is asked, the application hears of   *)
(* its success only when every client has told its outcome.                *)
(***************************************************************************)
THEOREM NothingUnheard == Spec => []AnsweredBySuccess
<1>1. Init => AnsweredBySuccess  BY DEF Init, AnsweredBySuccess
<1>2. IInv /\ IInv' /\ AnsweredBySuccess /\ [Next]_vars => AnsweredBySuccess'
  <2> SUFFICES ASSUME IInv, IInv', AnsweredBySuccess, [Next]_vars,
                      Conforming, outcome' \in {"synced", "upToDate"},
                      NEW i \in DOMAIN request'
               PROVE  told'[i] # <<>>
    BY DEF AnsweredBySuccess
  <2>1. Wire' = {}
    <3>1. Net!SuccessIsQuiet'  BY DEF IInv, Net!IInv
    <3> QED  BY <3>1 DEF Net!SuccessIsQuiet
  <2>2. told'[i] # <<>> \/ over'[i]  BY <2>1 DEF Wire, Unanswered
  <2>3. i \in Ids
    <3>1. RequestsOK'  BY DEF IInv
    <3> QED  BY <3>1, NetworkClientsAssumption DEF RequestsOK, Ids
  <2>4. CASE outcome = "running"
    <3>1. PICK k \in Ids, status \in Status : onHttpData(k, status)
      BY <2>4 DEF Next, ClientStep, connect, syncLoop, close, onClosed, vars, net,
        Net!connect, Net!syncLoop, Net!close, Net!Finish
    <3>2. over' = over /\ told' = [told EXCEPT ![k] = <<status>>]
      BY <3>1 DEF onHttpData
    <3>3. told[i] = <<>> => ~ over[i]  BY <2>3, <2>4 DEF IInv, ListenersLive, Live
    <3> QED  BY <2>2, <2>3, <3>2, <3>3 DEF IInv, TypesOK
  <2>5. CASE outcome # "running"
    <3>1. \A k \in Ids, status \in Status : ~ onHttpData(k, status)
      BY <2>5 DEF onHttpData, IInv, ListenersLive, Live
    <3>2. ~ connect /\ ~ syncLoop /\ ~ close
      BY <2>5 DEF connect, syncLoop, close, Net!connect, Net!syncLoop, Net!close,
        IInv, Net!IInv, Net!Phases
    <3>3. UNCHANGED <<outcome, request, told>>
      BY <3>1, <3>2 DEF Next, ClientStep, onClosed, vars, net, clients
    <3> QED  BY <3>3 DEF AnsweredBySuccess
  <2> QED  BY <2>4, <2>5
<1> QED  BY <1>1, <1>2, Invariant, PTL DEF Spec

=============================================================================
