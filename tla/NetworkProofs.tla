--------------------------- MODULE NetworkProofs ---------------------------
(***************************************************************************)
(* Theorems about module Network, for every value of its constants: any    *)
(* chain and stored list, any max_range and concurrency, any number of     *)
(* failed exchanges, any width of the height type.                         *)
(*                                                                         *)
(* The argument.  "Outstanding" says that a map of requests and a set of   *)
(* open exchanges are well formed and agree, "CoveredBy" that no requested *)
(* height is lost.  Both are stated for any map and set, because a         *)
(* callback takes an exchange away before it sends the next one, so the    *)
(* facts hold of values that are not yet those of the variables.           *)
(***************************************************************************)
EXTENDS Network, FiniteSetTheorems, TLAPS

-----------------------------------------------------------------------------
(***************************************************************************)
(* The number of outstanding requests.                                     *)
(***************************************************************************)
LEMMA IdsAreFinite ==
  ASSUME NEW n \in Nat, NEW S \in SUBSET (1..n)
  PROVE  IsFiniteSet(S) /\ Cardinality(S) \in Nat
<1>1. IsFiniteSet(1..n)  BY FS_Interval
<1>2. IsFiniteSet(S)  BY <1>1, FS_Subset
<1> QED  BY <1>2, FS_CardinalityType

LEMMA OneMore ==
  ASSUME NEW S, NEW e, IsFiniteSet(S)
  PROVE  Cardinality(S \cup {e}) <= Cardinality(S) + 1
<1>1. Cardinality(S) \in Nat  BY FS_CardinalityType
<1>2. Cardinality(S \cup {e}) = IF e \in S THEN Cardinality(S) ELSE Cardinality(S) + 1
  BY FS_AddElement
<1> QED  BY <1>1, <1>2

-----------------------------------------------------------------------------
(***************************************************************************)
(* Requests and exchanges.                                                 *)
(***************************************************************************)
Tracked(req, open) ==
  /\ \A x \in open : x.type = BLOCK_HEADERS_RANGE =>
       x.id \in DOMAIN req /\ req[x.id] = x.range
  /\ \A id \in DOMAIN req :
       [id |-> id, type |-> BLOCK_HEADERS_RANGE, range |-> req[id]] \in open

Outstanding(req, open) ==
  /\ DOMAIN req \subseteq 1..nextId
  /\ req \in [DOMAIN req -> Ranges]
  /\ \A id \in DOMAIN req : req[id].end <= MaxHeight
  /\ open \in SUBSET Exchanges
  /\ \A x \in open : x.id \in 1..nextId /\ x.range.end <= MaxHeight
  /\ \A x \in open : x.type = BLOCK_HEADERS_RANGE

CoveredBy(h, req, data) ==
  h \in DOMAIN data \/ \E id \in DOMAIN req : h \in req[id].start..req[id].end

RequestedBy(h, req) == h < m_pos \/ \E id \in DOMAIN req : h <= req[id].end

CoverageOf(req, data) ==
  \A h \in Len(m_nonces)..m_height : RequestedBy(h, req) => CoveredBy(h, req, data)

\* The exchange of a new request, and what sending it does.
NewExchange(range) == [id |-> nextId + 1, type |-> BLOCK_HEADERS_RANGE, range |-> range]

Sent(range, req, open) ==
  /\ nextId' = nextId + 1
  /\ m_pos' = NextPos(range)
  /\ nextId + 1 \notin DOMAIN req
  /\ DOMAIN m_req' = DOMAIN req \cup {nextId + 1}
  /\ m_req' \in [DOMAIN m_req' -> Ranges]
  /\ \A k \in DOMAIN req : m_req'[k] = req[k]
  /\ m_req'[nextId + 1] = range
  /\ wire' = open \cup {NewExchange(range)}

LEMMA SendRange ==
  ASSUME NEW req, NEW open, NEW range \in Ranges, nextId \in Nat,
         Outstanding(req, open),
         getBlockHeadersRangeOf(range, req, open)
  PROVE  Sent(range, req, open)
<1>1. nextId + 1 \notin DOMAIN req  BY DEF Outstanding
<1>2. /\ nextId' = nextId + 1 /\ m_pos' = NextPos(range)
      /\ m_req' = [k \in DOMAIN req \cup {nextId + 1} |-> IF k \in DOMAIN req THEN req[k] ELSE range]
      /\ wire' = open \cup {NewExchange(range)}
  BY DEF getBlockHeadersRangeOf, Insert, NewExchange
<1>3. m_req' \in [DOMAIN req \cup {nextId + 1} -> Ranges]  BY <1>2 DEF Outstanding
<1> QED  BY <1>1, <1>2, <1>3 DEF Sent

LEMMA NewExchangeType ==
  ASSUME NEW range \in Ranges, nextId \in Nat
  PROVE  /\ NewExchange(range) \in Exchanges
         /\ NewExchange(range).id = nextId + 1
         /\ NewExchange(range).type = BLOCK_HEADERS_RANGE
         /\ NewExchange(range).range = range
BY DEF NewExchange, Exchanges

LEMMA SendKeepsOutstanding ==
  ASSUME NEW req, NEW open, NEW range \in Ranges, nextId \in Nat,
         Outstanding(req, open), range.end <= MaxHeight,
         Sent(range, req, open)
  PROVE  Outstanding(m_req, wire)'
<1>1. DOMAIN m_req' \subseteq 1..nextId'  BY DEF Outstanding, Sent
<1>2. m_req' \in [DOMAIN m_req' -> Ranges]  BY DEF Sent
<1>3. \A id \in DOMAIN m_req' : m_req'[id].end <= MaxHeight  BY DEF Outstanding, Sent
<1>4. wire' \in SUBSET Exchanges  BY NewExchangeType DEF Outstanding, Sent
<1>5. \A y \in wire' : y.id \in 1..nextId' /\ y.range.end <= MaxHeight
  BY NewExchangeType DEF Outstanding, Sent
<1>6. \A y \in wire' : y.type = BLOCK_HEADERS_RANGE
  BY NewExchangeType DEF Outstanding, Sent
<1> QED  BY <1>1, <1>2, <1>3, <1>4, <1>5, <1>6 DEF Outstanding

LEMMA SendKeepsTracked ==
  ASSUME NEW req, NEW open, NEW range \in Ranges, nextId \in Nat,
         Tracked(req, open), Sent(range, req, open)
  PROVE  Tracked(m_req, wire)'
<1>1. \A id \in DOMAIN m_req' :
        [id |-> id, type |-> BLOCK_HEADERS_RANGE, range |-> m_req'[id]] \in wire'
  BY DEF Tracked, Sent, NewExchange
<1>2. \A y \in wire' : y.type = BLOCK_HEADERS_RANGE =>
        y.id \in DOMAIN m_req' /\ m_req'[y.id] = y.range
  BY NewExchangeType DEF Tracked, Sent
<1> QED  BY <1>1, <1>2 DEF Tracked

-----------------------------------------------------------------------------
(***************************************************************************)
(* Positions and coverage.                                                 *)
(***************************************************************************)
LEMMA NextPosBound ==
  ASSUME NEW range \in Ranges
  PROVE  NextPos(range) \in UInt32 /\ NextPos(range) <= range.end + 1
BY NetworkAssumption DEF NextPos, Wrap, UInt32, Ranges

LEMMA RangeType ==
  ASSUME m_pos \in UInt32, m_height \in 0..MaxHeight
  PROVE  /\ NewRange(m_pos, MaxRange, m_height) \in Ranges
         /\ NewRange(m_pos, MaxRange, m_height).start = m_pos
         /\ NewRange(m_pos, MaxRange, m_height).end <= m_height
<1>1. m_pos + MaxRange \in Nat /\ m_pos + MaxRange < Modulus + Modulus
  BY NetworkAssumption DEF UInt32
<1>2. Wrap(m_pos + MaxRange) \in UInt32  BY <1>1, NetworkAssumption DEF Wrap, UInt32
<1> QED  BY <1>2, NetworkAssumption DEF NewRange, Ranges, UInt32

\* A request keeps the coverage if all it moves m_pos over is covered, or is
\* in its range.
LEMMA SendKeepsCoverage ==
  ASSUME NEW req, NEW open, NEW data, NEW range \in Ranges,
         nextId \in Nat, m_nonces \in Seq(Nonce), m_height \in Nat,
         Sent(range, req, open), CoverageOf(req, data),
         \A h \in Len(m_nonces)..m_height :
           h <= range.end => RequestedBy(h, req) \/ h \in range.start..range.end,
         UNCHANGED <<m_nonces, m_height>>, m_data' = data
  PROVE  CoverageOf(m_req, m_data)'
<1> SUFFICES ASSUME NEW h \in Len(m_nonces)..m_height, RequestedBy(h, m_req)'
             PROVE  CoveredBy(h, m_req, m_data)'
  BY DEF CoverageOf
<1>1. h \in Nat /\ range.end \in Nat  BY NetworkAssumption DEF Ranges, UInt32
<1>2. RequestedBy(h, req) \/ h <= range.end
  BY <1>1, NextPosBound, NetworkAssumption DEF RequestedBy, Sent, UInt32
<1>3. CASE RequestedBy(h, req)
  <2>1. CoveredBy(h, req, data)  BY <1>3 DEF CoverageOf
  <2> QED  BY <2>1 DEF CoveredBy, Sent
<1>4. CASE h \in range.start..range.end
  BY <1>4 DEF CoveredBy, Sent
<1> QED  BY <1>2, <1>3, <1>4

LEMMA TrackedIsTracked ==
  TrackedExchanges <=> (outcome = "running" /\ Conforming => Tracked(m_req, wire))
BY DEF TrackedExchanges, Tracked

LEMMA CoverageIsCoverage ==
  Coverage <=> (outcome = "running" /\ Conforming => CoverageOf(m_req, m_data))
BY DEF Coverage, Covered, Requested, CoverageOf, CoveredBy, RequestedBy

-----------------------------------------------------------------------------
(***************************************************************************)
(* The two ways of sending.                                                *)
(***************************************************************************)
Numbers ==
  /\ m_nonces \in Seq(Nonce) /\ m_height \in 0..MaxHeight
  /\ m_pos \in UInt32 /\ nextId \in Nat

\* What every callback that sends establishes.
Kept(req, open, data) ==
  /\ Outstanding(m_req, wire)'
  /\ m_pos' \in UInt32 /\ nextId' \in Nat /\ nextId' >= nextId
  /\ Tracked(req, open) => Tracked(m_req, wire)'
  /\ CoverageOf(req, data) => CoverageOf(m_req, m_data)'

LEMMA SendNext ==
  ASSUME NEW req, NEW open, NEW data, Numbers,
         Outstanding(req, open), getBlockHeadersRange(req, open),
         UNCHANGED <<m_nonces, m_height>>, m_data' = data
  PROVE  /\ Kept(req, open, data)
         /\ \/ DOMAIN m_req' = DOMAIN req
            \/ DOMAIN m_req' = DOMAIN req \cup {nextId + 1}
<1> USE DEF Numbers
<1>1. CASE m_pos > m_height /\ m_req' = req /\ wire' = open /\ UNCHANGED <<m_pos, nextId>>
  <2>1. Outstanding(m_req, wire)'  BY <1>1 DEF Outstanding
  <2>2. Tracked(req, open) => Tracked(m_req, wire)'  BY <1>1 DEF Tracked
  <2>3. CoverageOf(req, data) => CoverageOf(m_req, m_data)'
    BY <1>1 DEF CoverageOf, RequestedBy, CoveredBy
  <2> QED  BY <1>1, <2>1, <2>2, <2>3 DEF Kept
<1>2. CASE /\ m_pos <= m_height
           /\ getBlockHeadersRangeOf(NewRange(m_pos, MaxRange, m_height), req, open)
  <2> DEFINE range == NewRange(m_pos, MaxRange, m_height)
  <2>1. range \in Ranges /\ range.start = m_pos /\ range.end <= m_height  BY RangeType
  <2>2. range.end <= MaxHeight
    BY <2>1, NetworkAssumption DEF Ranges, UInt32
  <2>3. getBlockHeadersRangeOf(range, req, open)  BY <1>2
  <2> HIDE DEF range
  <2>4. Sent(range, req, open)  BY <2>1, <2>3, SendRange
  <2>5. Outstanding(m_req, wire)'  BY <2>1, <2>2, <2>4, SendKeepsOutstanding
  <2>6. Tracked(req, open) => Tracked(m_req, wire)'  BY <2>1, <2>4, SendKeepsTracked
  <2>7. \A h \in Len(m_nonces)..m_height :
          h <= range.end => RequestedBy(h, req) \/ h \in range.start..range.end
    BY <2>1, NetworkAssumption DEF RequestedBy, Ranges, UInt32
  <2>8. CoverageOf(req, data) => CoverageOf(m_req, m_data)'
    BY <2>1, <2>4, <2>7, SendKeepsCoverage
  <2>9. m_pos' \in UInt32 /\ nextId' = nextId + 1  BY <2>1, <2>4, NextPosBound DEF Sent
  <2>10. DOMAIN m_req' = DOMAIN req \cup {nextId + 1}  BY <2>4 DEF Sent
  <2> QED  BY <2>5, <2>6, <2>8, <2>9, <2>10 DEF Kept
<1> QED  BY <1>1, <1>2 DEF getBlockHeadersRange


\* Taking away an exchange and a request.
LEMMA RemoveKeeps ==
  ASSUME Outstanding(m_req, wire), NEW x \in wire, NEW id
  PROVE  /\ DOMAIN Erase(m_req, id) = DOMAIN m_req \ {id}
         /\ \A k \in DOMAIN m_req \ {id} : Erase(m_req, id)[k] = m_req[k]
         /\ Outstanding(Erase(m_req, id), wire \ {x})
         /\ Tracked(m_req, wire) /\ id = x.id => Tracked(Erase(m_req, id), wire \ {x})
<1> DEFINE req  == Erase(m_req, id)
           open == wire \ {x}
<1>1. /\ DOMAIN req = DOMAIN m_req \ {id}
      /\ req \in [DOMAIN req -> Ranges]
      /\ \A k \in DOMAIN req : req[k] = m_req[k]
  BY DEF Erase, Outstanding
<1> HIDE DEF req
<1>2. Outstanding(req, open)  BY <1>1 DEF Outstanding
<1>3. Tracked(m_req, wire) /\ id = x.id => Tracked(req, open)
  <2> SUFFICES ASSUME Tracked(m_req, wire), id = x.id
               PROVE  Tracked(req, open)
    OBVIOUS
  <2>1. \A y \in wire : y.id \in DOMAIN m_req /\ m_req[y.id] = y.range
    BY DEF Tracked, Outstanding
  <2>2. \A y \in wire : y = [id |-> y.id, type |-> BLOCK_HEADERS_RANGE, range |-> y.range]
    BY DEF Outstanding, Exchanges
  <2>3. \A y \in open : y.id # x.id  BY <2>1, <2>2
  <2>4. \A y \in open : y.id \in DOMAIN req /\ req[y.id] = y.range
    BY <1>1, <2>1, <2>3
  <2>5. \A k \in DOMAIN req :
          [id |-> k, type |-> BLOCK_HEADERS_RANGE, range |-> req[k]] \in open
    BY <1>1 DEF Tracked
  <2> QED  BY <2>4, <2>5 DEF Tracked
<1> QED  BY <1>1, <1>2, <1>3 DEF req

LEMMA SendAgain ==
  ASSUME Numbers, Outstanding(m_req, wire), NEW x \in wire, x.id \in DOMAIN m_req,
         getBlockHeadersRangeOf(m_req[x.id], Erase(m_req, x.id), wire \ {x}),
         UNCHANGED <<m_nonces, m_height, m_data>>
  PROVE  /\ Outstanding(m_req, wire)'
         /\ m_pos' \in UInt32 /\ nextId' = nextId + 1
         /\ Tracked(m_req, wire) => Tracked(m_req, wire)'
         /\ CoverageOf(m_req, m_data) => CoverageOf(m_req, m_data)'
         /\ DOMAIN m_req' = (DOMAIN m_req \ {x.id}) \cup {nextId + 1}
<1> USE DEF Numbers
<1> DEFINE req   == Erase(m_req, x.id)
           open  == wire \ {x}
           range == m_req[x.id]
<1>1. range \in Ranges /\ range.end <= MaxHeight  BY DEF Outstanding
<1>2. DOMAIN req = DOMAIN m_req \ {x.id} /\ \A k \in DOMAIN req : req[k] = m_req[k]
  BY RemoveKeeps
<1>3. getBlockHeadersRangeOf(range, req, open)  OBVIOUS
<1>4. Outstanding(req, open)  BY RemoveKeeps
<1>5. Tracked(m_req, wire) => Tracked(req, open)  BY RemoveKeeps
<1> HIDE DEF req, open, range
<1>6. Sent(range, req, open)  BY <1>1, <1>3, <1>4, SendRange
<1>7. Outstanding(m_req, wire)'  BY <1>1, <1>4, <1>6, SendKeepsOutstanding
<1>8. Tracked(m_req, wire) => Tracked(m_req, wire)'
  BY <1>1, <1>5, <1>6, SendKeepsTracked
<1>9. m_pos' \in UInt32 /\ nextId' = nextId + 1  BY <1>1, <1>6, NextPosBound DEF Sent
<1>10. DOMAIN m_req' = (DOMAIN m_req \ {x.id}) \cup {nextId + 1}  BY <1>2, <1>6 DEF Sent
<1>11. CoverageOf(m_req, m_data) => CoverageOf(m_req, m_data)'
  <2> SUFFICES ASSUME CoverageOf(m_req, m_data),
                      NEW h \in Len(m_nonces)..m_height, RequestedBy(h, m_req)'
               PROVE  CoveredBy(h, m_req, m_data)'
    BY DEF CoverageOf
  <2>1. h \in Nat /\ range.end \in Nat  BY <1>1, NetworkAssumption DEF Ranges, UInt32
  <2>2. RequestedBy(h, m_req)
    <3>1. h < m_pos' => h <= range.end
      BY <1>1, <1>6, <2>1, NextPosBound, NetworkAssumption DEF Sent, UInt32
    <3>2. \A k \in DOMAIN m_req' : m_req'[k] = range \/ (k \in DOMAIN m_req /\ m_req'[k] = m_req[k])
      BY <1>2, <1>6 DEF Sent
    <3> QED  BY <3>1, <3>2 DEF RequestedBy, range
  <2>3. CoveredBy(h, m_req, m_data)  BY <2>2 DEF CoverageOf
  <2>4. CASE h \in DOMAIN m_data  BY <2>4 DEF CoveredBy
  <2>5. CASE h \in range.start..range.end  BY <1>6, <2>5 DEF CoveredBy, Sent
  <2>6. ASSUME NEW k \in DOMAIN m_req, k # x.id, h \in m_req[k].start..m_req[k].end
        PROVE  CoveredBy(h, m_req, m_data)'
    <3>1. k \in DOMAIN m_req' /\ m_req'[k] = m_req[k]  BY <1>2, <1>6, <2>6 DEF Sent
    <3> QED  BY <2>6, <3>1 DEF CoveredBy
  <2> QED  BY <2>3, <2>4, <2>5, <2>6 DEF CoveredBy, range
<1> QED  BY <1>7, <1>8, <1>9, <1>10, <1>11

-----------------------------------------------------------------------------
(***************************************************************************)
(* The inductive invariant, taken apart and put together.                  *)
(***************************************************************************)
ChainMap(data) ==
  /\ DOMAIN data \subseteq 0..MaxHeight
  /\ data \in [DOMAIN data -> Nonce]
  /\ \A h \in DOMAIN data : data[h] = Chain[h]

Scalars ==
  /\ Numbers /\ ChainMap(m_data)
  /\ m_timer \in BOOLEAN /\ loop \in 0..Concurrency /\ fails \in 0..MaxFail

LEMMA Parts ==
  ASSUME IInv
  PROVE  /\ Scalars
         /\ ~ Asking => Outstanding(m_req, wire)
         /\ outcome = "running" /\ Conforming => Tracked(m_req, wire) /\ CoverageOf(m_req, m_data)
<1>1. Scalars
  BY DEF IInv, TypeOK, FromChain, Scalars, Numbers, ChainMap
<1>2. ASSUME ~ Asking
      PROVE  Outstanding(m_req, wire)
  <2>1. \A x \in wire : x.type = BLOCK_HEADERS_RANGE
    BY <1>2 DEF IInv, TypeOK, Asking, Exchanges
  <2> QED  BY <2>1 DEF IInv, TypeOK, Bounded, Outstanding
<1>3. outcome = "running" /\ Conforming => Tracked(m_req, wire) /\ CoverageOf(m_req, m_data)
  BY TrackedIsTracked, CoverageIsCoverage DEF IInv
<1> QED  BY <1>1, <1>2, <1>3

LEMMA Established ==
  ASSUME Scalars', Outstanding(m_req, wire)', nextId' > 0, outcome' = "running",
         Len(m_nonces') <= m_height',
         Conforming => Tracked(m_req, wire)' /\ CoverageOf(m_req, m_data)',
         ConcurrencyBound'
  PROVE  IInv'
<1>1. TypeOK'
  BY DEF Scalars, Numbers, ChainMap, Outstanding, TypeOK
<1>2. Bounded' /\ ~ Asking'
  BY DEF Bounded, Outstanding, Asking, LAST_BLOCK_HEADER, BLOCK_HEADERS_RANGE
<1>3. Phases'
  BY <1>2 DEF Phases, Outstanding, Scalars, Numbers, LAST_BLOCK_HEADER, BLOCK_HEADERS_RANGE
<1>4. FromChain'  BY DEF Scalars, ChainMap, FromChain
<1>5. TrackedExchanges' /\ Coverage'
  BY DEF TrackedExchanges, Tracked, Coverage, CoverageOf, Covered, CoveredBy, Requested, RequestedBy
<1>6. NoMissingHeader' /\ SuccessIsQuiet' /\ ReportsComplete'
  BY DEF NoMissingHeader, SuccessIsQuiet, ReportsComplete
<1> QED  BY <1>1, <1>2, <1>3, <1>4, <1>5, <1>6 DEF IInv

\* The steps that end the synchronisation without a success.
LEMMA GivesUp ==
  ASSUME IInv, wire' \subseteq wire, outcome' \in {"fatal", "closed"}, nextId > 0,
         UNCHANGED <<m_nonces, m_pos, m_req, m_data, m_timer, nextId, loop>>,
         m_height' \in 0..MaxHeight, fails' \in 0..MaxFail
  PROVE  IInv'
<1> USE DEF IInv
<1>1. TypeOK'  BY DEF TypeOK, Outcomes
<1>2. Bounded' /\ FromChain'  BY DEF Bounded, FromChain
<1>3. Phases'
  <2>1. Asking' => Asking  BY DEF Asking
  <2>2. \A x \in wire' : x.type = LAST_BLOCK_HEADER => wire' = {x}  BY DEF Phases
  <2> QED  BY <2>1, <2>2 DEF Phases, TypeOK
<1>4. TrackedExchanges' /\ Coverage' /\ NoMissingHeader' /\ SuccessIsQuiet' /\ ReportsComplete'
  BY DEF TrackedExchanges, Coverage, NoMissingHeader, SuccessIsQuiet, ReportsComplete
<1>5. ConcurrencyBound'  BY DEF ConcurrencyBound
<1> QED  BY <1>1, <1>2, <1>3, <1>4, <1>5

LEMMA InitInv == Init => IInv
<1> SUFFICES ASSUME Init
             PROVE  IInv
  OBVIOUS
<1> USE DEF Init
<1>1. TypeOK
  BY NetworkAssumption DEF TypeOK, UInt32, Ranges
<1>2. Cardinality(DOMAIN m_req) = 0
  BY FS_EmptySet
<1>3. ConcurrencyBound  BY <1>2, NetworkAssumption DEF ConcurrencyBound
<1>4. Bounded /\ Phases /\ FromChain  BY DEF Bounded, Phases, Asking, FromChain
<1>5. TrackedExchanges  BY DEF TrackedExchanges
<1>6. Coverage /\ NoMissingHeader /\ SuccessIsQuiet /\ ReportsComplete
  BY <1>1 DEF Coverage, Requested, NoMissingHeader, SuccessIsQuiet, ReportsComplete, TypeOK
<1> QED  BY <1>1, <1>3, <1>4, <1>5, <1>6 DEF IInv

-----------------------------------------------------------------------------
(***************************************************************************)
(* Every action preserves the inductive invariant.                         *)
(***************************************************************************)
LEMMA ConnectInv ==
  ASSUME IInv, connect
  PROVE  IInv'
<1> USE DEF IInv, connect
<1> DEFINE x == [id |-> 1, type |-> LAST_BLOCK_HEADER, range |-> [start |-> 0, end |-> 0]]
<1>1. x \in Exchanges /\ x.id = 1 /\ x.range.end = 0
  BY NetworkAssumption DEF Exchanges, Ranges, UInt32
<1>2. wire' = {x} /\ nextId' = 1  OBVIOUS
<1> HIDE DEF x
<1>3. TypeOK'  BY <1>1, <1>2 DEF TypeOK
<1>4. Bounded' /\ FromChain'  BY <1>1, <1>2, NetworkAssumption DEF TypeOK, Bounded, FromChain
<1>5. outcome = "running"  BY DEF Phases
<1>6. Asking  BY DEF Asking
<1>7. Phases'  BY <1>2, <1>5, <1>6 DEF Phases, Asking
<1>8. DOMAIN m_req = {} /\ m_pos = 0  BY <1>6 DEF Phases
<1>9. TrackedExchanges'
  BY <1>2, <1>8 DEF TrackedExchanges, LAST_BLOCK_HEADER, BLOCK_HEADERS_RANGE, x
<1>10. Coverage'  BY <1>8 DEF Coverage, Requested, TypeOK
<1>11. ConcurrencyBound'  BY DEF ConcurrencyBound
<1>12. NoMissingHeader' /\ SuccessIsQuiet' /\ ReportsComplete'
  BY <1>5 DEF NoMissingHeader, SuccessIsQuiet, ReportsComplete
<1> QED  BY <1>3, <1>4, <1>7, <1>9, <1>10, <1>11, <1>12

LEMMA SyncLoopInv ==
  ASSUME IInv, syncLoop
  PROVE  IInv'
<1>1. Scalars /\ outcome = "running" /\ loop > 0  BY Parts DEF syncLoop
<1>2. ~ Asking  BY <1>1 DEF IInv, Phases, Scalars
<1>3. Outstanding(m_req, wire)  BY <1>2, Parts
<1>4. /\ Kept(m_req, wire, m_data)
      /\ \/ DOMAIN m_req' = DOMAIN m_req
         \/ DOMAIN m_req' = DOMAIN m_req \cup {nextId + 1}
  BY <1>1, <1>3, SendNext DEF syncLoop, Scalars
<1>5. Scalars'  BY <1>1, <1>4, NetworkAssumption DEF syncLoop, Scalars, Numbers, Kept, ChainMap
<1>6. Len(m_nonces) <= m_height /\ nextId > 0
  BY <1>1, <1>2 DEF IInv, Phases, Asking, Scalars, Numbers
<1>7. Conforming => Tracked(m_req, wire)' /\ CoverageOf(m_req, m_data)'
  BY <1>1, <1>4, Parts DEF Kept
<1>8. ConcurrencyBound'
  <2>1. IsFiniteSet(DOMAIN m_req) /\ Cardinality(DOMAIN m_req) \in Nat
    BY <1>1, <1>3, IdsAreFinite DEF Scalars, Numbers, Outstanding
  <2>2. Cardinality(DOMAIN m_req') \in Nat /\ Cardinality(DOMAIN m_req') <= Cardinality(DOMAIN m_req) + 1
    BY <1>4, <2>1, FS_AddElement
  <2> QED  BY <1>1, <2>1, <2>2, NetworkAssumption DEF syncLoop, IInv, ConcurrencyBound, Scalars
<1> QED  BY <1>1, <1>4, <1>5, <1>6, <1>7, <1>8, Established DEF syncLoop, Kept, Scalars, Numbers

\* A callback of a range exchange runs after the phase of asking.
LEMMA RangeCallback ==
  ASSUME IInv, NEW x, Callback(x), x.type = BLOCK_HEADERS_RANGE
  PROVE  /\ Scalars /\ ~ Asking /\ Outstanding(m_req, wire)
         /\ x \in wire /\ outcome = "running" /\ loop = 0
         /\ nextId > 0 /\ Len(m_nonces) <= m_height
         /\ IsFiniteSet(DOMAIN m_req) /\ Cardinality(DOMAIN m_req) \in Nat
<1>1. Scalars /\ x \in wire /\ outcome = "running" /\ loop = 0
  BY Parts DEF Callback
<1>2. x.id \in 1..nextId  BY <1>1 DEF IInv, Bounded
<1>3. ~ Asking
  BY <1>1, <1>2 DEF IInv, Phases, Asking, Scalars, Numbers, LAST_BLOCK_HEADER, BLOCK_HEADERS_RANGE
<1>4. Outstanding(m_req, wire)  BY <1>3, Parts
<1>5. nextId > 0 /\ Len(m_nonces) <= m_height
  BY <1>1, <1>2, <1>3 DEF IInv, Phases, Scalars, Numbers
<1>6. IsFiniteSet(DOMAIN m_req) /\ Cardinality(DOMAIN m_req) \in Nat
  BY <1>1, <1>4, IdsAreFinite DEF Scalars, Numbers, Outstanding
<1> QED  BY <1>1, <1>3, <1>4, <1>5, <1>6

LEMMA TransportErrorInv ==
  ASSUME IInv, NEW x, onTransportError(x)
  PROVE  IInv'
<1>1. /\ Scalars /\ Outstanding(m_req, wire)
      /\ x \in wire /\ outcome = "running" /\ loop = 0
      /\ nextId > 0 /\ Len(m_nonces) <= m_height
      /\ IsFiniteSet(DOMAIN m_req) /\ Cardinality(DOMAIN m_req) \in Nat
  BY RangeCallback DEF onTransportError, Retriable
<1>2. fails' \in 0..MaxFail  BY <1>1, NetworkAssumption DEF onTransportError, Scalars
<1>3. /\ x.id \in DOMAIN m_req
      /\ getBlockHeadersRangeOf(m_req[x.id], Retried(x), wire \ {x})
      /\ UNCHANGED <<m_nonces, m_height, m_data, m_timer, loop, outcome>>
  BY DEF onTransportError, Retriable
<1> QED
  <2>1. getBlockHeadersRangeOf(m_req[x.id], Erase(m_req, x.id), wire \ {x})
    BY <1>3 DEF Retried
  <2>2. /\ Outstanding(m_req, wire)'
        /\ m_pos' \in UInt32 /\ nextId' = nextId + 1
        /\ Tracked(m_req, wire) => Tracked(m_req, wire)'
        /\ CoverageOf(m_req, m_data) => CoverageOf(m_req, m_data)'
        /\ DOMAIN m_req' = (DOMAIN m_req \ {x.id}) \cup {nextId + 1}
    BY <1>1, <1>3, <2>1, SendAgain DEF Scalars
  <2>3. Scalars'  BY <1>1, <1>2, <1>3, <2>2 DEF Scalars, Numbers, ChainMap
  <2>4. Conforming => Tracked(m_req, wire)' /\ CoverageOf(m_req, m_data)'
    BY <1>1, <2>2, Parts
  <2>5. ConcurrencyBound'
    <3> DEFINE rest == DOMAIN m_req \ {x.id}
    <3>1. IsFiniteSet(rest) /\ Cardinality(rest) = Cardinality(DOMAIN m_req) - 1
      BY <1>1, <1>3, FS_RemoveElement
    <3>2. Cardinality(DOMAIN m_req') <= Cardinality(DOMAIN m_req)
      <4>1. DOMAIN m_req' = rest \cup {nextId + 1}  BY <2>2
      <4> HIDE DEF rest
      <4>2. Cardinality(rest) \in Nat  BY <3>1, FS_CardinalityType
      <4>3. Cardinality(rest \cup {nextId + 1}) <= Cardinality(rest) + 1
        BY <3>1, <4>2, OneMore
      <4> QED  BY <1>1, <3>1, <4>1, <4>3
    <3>3. Cardinality(DOMAIN m_req') \in Nat
      BY <2>2, <2>3, IdsAreFinite DEF Outstanding, Scalars, Numbers
    <3> QED  BY <1>1, <1>3, <3>2, <3>3, NetworkAssumption DEF IInv, ConcurrencyBound
  <2> QED  BY <1>1, <1>3, <2>2, <2>3, <2>4, <2>5, Established DEF Scalars, Numbers

LEMMA UnusableReplyInv ==
  ASSUME IInv, NEW x, onUnusableReply(x)
  PROVE  IInv'
<1>1. Scalars /\ x \in wire  BY Parts DEF onUnusableReply, Callback
<1>2. nextId > 0  BY <1>1 DEF IInv, Bounded, Scalars, Numbers
<1> QED  BY <1>1, <1>2, GivesUp DEF onUnusableReply, Finish, net, Scalars, Numbers

LEMMA CloseInv ==
  ASSUME IInv, close
  PROVE  IInv'
<1>1. Scalars  BY Parts
<1> QED  BY <1>1, GivesUp DEF close, Finish, net, Scalars, Numbers

LEMMA ExpiredInv ==
  ASSUME IInv, NEW x, expired(x)
  PROVE  IInv'
<1> USE DEF IInv, expired, net
<1>1. TypeOK' /\ Bounded' /\ FromChain'  BY DEF TypeOK, Bounded, FromChain
<1>2. Phases'
  <2>1. Asking' => Asking  BY DEF Asking
  <2>2. \A y \in wire' : y.type = LAST_BLOCK_HEADER => wire' = {y}  BY DEF Phases
  <2> QED  BY <2>1, <2>2 DEF Phases
<1>3. TrackedExchanges' /\ Coverage' /\ NoMissingHeader' /\ SuccessIsQuiet' /\ ReportsComplete'
  BY DEF TrackedExchanges, Coverage, NoMissingHeader, SuccessIsQuiet, ReportsComplete
<1>4. ConcurrencyBound'  BY DEF ConcurrencyBound
<1> QED  BY <1>1, <1>2, <1>3, <1>4

LEMMA FirstCallback ==
  ASSUME IInv, NEW x, Callback(x), x.type = LAST_BLOCK_HEADER
  PROVE  /\ Scalars /\ outcome = "running" /\ loop = 0 /\ wire = {x} /\ nextId > 0
         /\ DOMAIN m_req = {} /\ DOMAIN m_data = {} /\ m_pos = 0
<1>1. Scalars /\ outcome = "running" /\ loop = 0 /\ x \in wire  BY Parts DEF Callback
<1>2. wire = {x}  BY <1>1 DEF IInv, Phases
<1>3. nextId > 0  BY <1>1 DEF IInv, Bounded, Scalars, Numbers
<1>4. Asking  BY <1>1 DEF Asking
<1> QED  BY <1>1, <1>2, <1>3, <1>4 DEF IInv, Phases

LEMMA LastBlockHeaderInv ==
  ASSUME IInv, NEW x, onLastBlockHeader(x)
  PROVE  IInv'
<1>1. /\ Scalars /\ outcome = "running" /\ loop = 0 /\ wire = {x} /\ nextId > 0
      /\ DOMAIN m_req = {} /\ DOMAIN m_data = {} /\ m_pos = 0
  BY FirstCallback DEF onLastBlockHeader
<1>2. PICK height \in 0..MaxHeight : setLastBlockHeader(x, height)
  BY DEF onLastBlockHeader
<1>3. /\ m_height' = height
      /\ UNCHANGED <<m_nonces, m_req, m_data, nextId, fails>>
      /\ Len(m_nonces) \in Nat
  BY <1>1, <1>2 DEF setLastBlockHeader, Scalars, Numbers
<1>4. Blocks(height) = IF height + 1 < Modulus THEN height + 1 ELSE 0
  BY NetworkAssumption DEF Blocks, Wrap
<1>5. CASE Finish("fatal", wire \ {x}) /\ UNCHANGED <<m_pos, m_timer, loop>>
  BY <1>1, <1>3, <1>5, GivesUp DEF Finish, Scalars, Numbers
<1>6. CASE /\ Len(m_nonces) < Blocks(height)
           /\ sync
           /\ wire' = wire \ {x}
           /\ UNCHANGED outcome
  <2>1. wire' = {}  BY <1>1, <1>6
  <2>2. Len(m_nonces) <= height /\ Len(m_nonces) + 0 < Modulus
    BY <1>3, <1>4, <1>6, NetworkAssumption
  <2>3. m_pos' = Len(m_nonces) /\ m_pos' \in UInt32
    BY <1>3, <1>6, <2>2, NetworkAssumption DEF sync, Wrap, UInt32
  <2>4. loop' = Concurrency /\ m_timer' \in BOOLEAN  BY <1>6 DEF sync
  <2>5. Scalars'
    BY <1>1, <1>3, <2>3, <2>4, NetworkAssumption DEF Scalars, Numbers, ChainMap
  <2>6. Outstanding(m_req, wire)'
    BY <1>1, <1>3, <2>1 DEF Outstanding, IInv, TypeOK
  <2>7. Tracked(m_req, wire)'  BY <1>1, <1>3, <2>1 DEF Tracked
  <2>8. CoverageOf(m_req, m_data)'
    BY <1>1, <1>3, <2>3 DEF CoverageOf, RequestedBy
  <2>9. ConcurrencyBound'
    BY <1>1, <1>3, <2>4, FS_EmptySet, NetworkAssumption DEF ConcurrencyBound
  <2> QED
    BY <1>1, <1>3, <1>6, <2>2, <2>5, <2>6, <2>7, <2>8, <2>9, Established
<1>7. CASE /\ Len(m_nonces) = Blocks(height)
           /\ Finish("upToDate", wire \ {x})
           /\ UNCHANGED <<m_pos, m_timer, loop>>
  <2>1. wire' = {} /\ outcome' = "upToDate"  BY <1>1, <1>7 DEF Finish
  <2>2. TypeOK'
    BY <1>1, <1>3, <1>7, <2>1 DEF IInv, TypeOK, Outcomes
  <2>3. Bounded' /\ FromChain' /\ ~ Asking'
    BY <1>1, <1>3, <2>1 DEF Bounded, FromChain, Asking
  <2>4. Phases'  BY <1>1, <1>3, <2>1, <2>3 DEF Phases
  <2>5. TrackedExchanges' /\ Coverage' /\ NoMissingHeader' /\ SuccessIsQuiet'
    BY <2>1 DEF TrackedExchanges, Coverage, NoMissingHeader, SuccessIsQuiet
  <2>6. ConcurrencyBound'  BY <1>3, <1>7 DEF IInv, ConcurrencyBound
  <2>7. ReportsComplete'
    <3>1. CASE height + 1 < Modulus
      BY <1>3, <1>4, <1>7, <3>1 DEF ReportsComplete
    <3>2. CASE ~ (height + 1 < Modulus)
      <4>1. height = Modulus - 1  BY <3>2, NetworkAssumption
      <4>2. m_nonces = <<>>  BY <1>1, <1>4, <1>7, <3>2 DEF Scalars, Numbers
      <4> QED  BY <1>3, <2>1, <4>1, <4>2 DEF ReportsComplete
    <3> QED  BY <3>1, <3>2
  <2> QED  BY <2>2, <2>3, <2>4, <2>5, <2>6, <2>7 DEF IInv
<1> QED  BY <1>2, <1>5, <1>6, <1>7 DEF setLastBlockHeader

LEMMA InsertHeaders ==
  ASSUME ChainMap(m_data), NEW heights \in SUBSET (0..MaxHeight)
  PROVE  /\ ChainMap(Insert(m_data, [h \in heights |-> Chain[h]]))
         /\ DOMAIN Insert(m_data, [h \in heights |-> Chain[h]]) = DOMAIN m_data \cup heights
<1> DEFINE data == Insert(m_data, [h \in heights |-> Chain[h]])
<1>1. data = [k \in DOMAIN m_data \cup heights |->
                IF k \in DOMAIN m_data THEN m_data[k] ELSE Chain[k]]
  BY DEF Insert
<1>2. \A k \in heights : Chain[k] \in Nonce  BY NetworkAssumption
<1> HIDE DEF data
<1>3. DOMAIN data = DOMAIN m_data \cup heights  BY <1>1
<1>4. \A k \in DOMAIN data : data[k] \in Nonce /\ data[k] = Chain[k]
  BY <1>1, <1>2 DEF ChainMap
<1>5. data \in [DOMAIN data -> Nonce]  BY <1>1, <1>4
<1>6. ChainMap(data)  BY <1>3, <1>4, <1>5 DEF ChainMap
<1> QED  BY <1>3, <1>6 DEF data

\* save() is called when every requested height has arrived.
LEMMA SaveInv ==
  ASSUME IInv, NEW x, Callback(x), x.type = BLOCK_HEADERS_RANGE,
         NEW data, ChainMap(data), NEW req, DOMAIN req = {}, m_pos > m_height,
         save(data), m_req' = req, wire' = wire \ {x},
         Conforming => Tracked(req, wire \ {x}) /\ CoverageOf(req, data),
         Outstanding(req, wire \ {x}),
         UNCHANGED <<m_height, m_pos, nextId, loop, fails>>
  PROVE  IInv'
<1>1. /\ Scalars /\ ~ Asking
      /\ x \in wire /\ outcome = "running" /\ loop = 0
      /\ nextId > 0 /\ Len(m_nonces) <= m_height
  BY RangeCallback
<1>2. m_height \in Nat /\ Len(m_nonces) \in Nat /\ m_height <= MaxHeight
  BY <1>1, NetworkAssumption DEF Scalars, Numbers
<1>3. Conforming => Len(m_nonces)..m_height \subseteq DOMAIN data
  BY <1>1, <1>2 DEF CoverageOf, RequestedBy, CoveredBy, Scalars, Numbers, UInt32
<1>4. Conforming => wire' = {}
  BY DEF Tracked, Outstanding
<1>5. DOMAIN m_req' = {} /\ ~ Asking'
  BY <1>1 DEF Asking, Outstanding, LAST_BLOCK_HEADER, BLOCK_HEADERS_RANGE
<1>6. Bounded'  BY <1>1, <1>5 DEF IInv, Bounded
<1>7. ConcurrencyBound'
  BY <1>1, <1>5, FS_EmptySet, NetworkAssumption DEF ConcurrencyBound
<1>8. CASE /\ Len(m_nonces)..m_height \subseteq DOMAIN data
           /\ m_nonces' = [i \in 1..(m_height + 1) |->
                             IF i <= Len(m_nonces) THEN m_nonces[i] ELSE data[i - 1]]
           /\ m_data' = [h \in {} |-> 0]
           /\ outcome' = "synced"
  <2>1. \A i \in 1..(m_height + 1) :
          (IF i <= Len(m_nonces) THEN m_nonces[i] ELSE data[i - 1]) \in Nonce
    <3> SUFFICES ASSUME NEW i \in 1..(m_height + 1)
                 PROVE  (IF i <= Len(m_nonces) THEN m_nonces[i] ELSE data[i - 1]) \in Nonce
      OBVIOUS
    <3>1. CASE i <= Len(m_nonces)
      <4>1. m_nonces \in Seq(Nonce)  BY <1>1 DEF Scalars, Numbers
      <4> QED  BY <1>2, <3>1, <4>1
    <3>2. CASE ~ (i <= Len(m_nonces))
      <4>1. i - 1 \in DOMAIN data  BY <1>2, <1>8, <3>2
      <4> QED  BY <3>2, <4>1 DEF ChainMap
    <3> QED  BY <3>1, <3>2
  <2>2. m_nonces' \in Seq(Nonce) /\ Len(m_nonces') = m_height + 1
    <3>1. m_nonces' \in [1..(m_height + 1) -> Nonce]  BY <1>8, <2>1
    <3> QED  BY <1>2, <3>1
  <2>3. TypeOK'
    <3>1. m_req' \in [DOMAIN m_req' -> Ranges]  BY DEF Outstanding
    <3>2. m_data' \in [DOMAIN m_data' -> Nonce] /\ DOMAIN m_data' = {}  BY <1>8
    <3>3. m_timer' = FALSE  BY DEF save
    <3> QED  BY <1>1, <1>5, <1>8, <2>2, <3>1, <3>2, <3>3 DEF IInv, TypeOK
  <2>4. FromChain'  BY <1>8 DEF FromChain
  <2>5. Phases'
    BY <1>1, <1>5, <1>8 DEF Phases, Outstanding, LAST_BLOCK_HEADER, BLOCK_HEADERS_RANGE,
      Scalars, Numbers
  <2>6. TrackedExchanges' /\ Coverage' /\ NoMissingHeader'
    BY <1>8 DEF TrackedExchanges, Coverage, NoMissingHeader
  <2>7. SuccessIsQuiet' /\ ReportsComplete'
    BY <1>4, <1>8, <2>2 DEF SuccessIsQuiet, ReportsComplete
  <2> QED  BY <1>6, <1>7, <2>3, <2>4, <2>5, <2>6, <2>7 DEF IInv
<1>9. CASE /\ ~ (Len(m_nonces)..m_height \subseteq DOMAIN data)
           /\ m_data' = data
           /\ outcome' = "terminated"
           /\ UNCHANGED m_nonces
  <2>1. ~ Conforming  BY <1>3, <1>9
  <2>2. TypeOK'
    <3>1. m_req' \in [DOMAIN m_req' -> Ranges]  BY DEF Outstanding
    <3>2. m_timer' = FALSE  BY DEF save
    <3> QED  BY <1>1, <1>5, <1>9, <3>1, <3>2 DEF IInv, TypeOK, ChainMap, Outcomes
  <2>3. FromChain'  BY <1>9 DEF FromChain, ChainMap
  <2>4. Phases'
    BY <1>1, <1>5, <1>9 DEF Phases, Outstanding, LAST_BLOCK_HEADER, BLOCK_HEADERS_RANGE,
      Scalars, Numbers
  <2>5. /\ TrackedExchanges' /\ Coverage' /\ NoMissingHeader'
        /\ SuccessIsQuiet' /\ ReportsComplete'
    BY <1>9, <2>1
    DEF TrackedExchanges, Coverage, NoMissingHeader, SuccessIsQuiet, ReportsComplete
  <2> QED  BY <1>6, <1>7, <2>2, <2>3, <2>4, <2>5 DEF IInv
<1> QED  BY <1>8, <1>9 DEF save

LEMMA BlockHeadersRangeInv ==
  ASSUME IInv, NEW x, onBlockHeadersRange(x)
  PROVE  IInv'
<1>1. Callback(x) /\ x.type = BLOCK_HEADERS_RANGE  BY DEF onBlockHeadersRange
<1>2. /\ Scalars /\ ~ Asking /\ Outstanding(m_req, wire)
      /\ x \in wire /\ outcome = "running" /\ loop = 0
      /\ nextId > 0 /\ Len(m_nonces) <= m_height
      /\ IsFiniteSet(DOMAIN m_req) /\ Cardinality(DOMAIN m_req) \in Nat
  BY <1>1, RangeCallback
<1>3. PICK heights \in Replies(x.range), id \in ReplyIds(x) :
        setBlockHeadersRange(x, id, [h \in heights |-> Chain[h]])
  BY DEF onBlockHeadersRange
<1> DEFINE headers == [h \in heights |-> Chain[h]]
           data == Insert(m_data, headers)
           req  == Erase(m_req, id)
           open == wire \ {x}
<1>4. heights \in SUBSET (0..MaxHeight)
  <2>1. heights \subseteq x.range.start..x.range.end  BY <1>3 DEF Replies
  <2>2. x.range \in Ranges /\ x.range.end <= MaxHeight  BY <1>2 DEF Outstanding, Exchanges
  <2> QED  BY <2>1, <2>2, NetworkAssumption DEF Ranges, UInt32
<1>5. ChainMap(data) /\ DOMAIN data = DOMAIN m_data \cup heights
  BY <1>2, <1>4, InsertHeaders DEF Scalars
<1>6. /\ DOMAIN req = DOMAIN m_req \ {id}
      /\ \A k \in DOMAIN req : req[k] = m_req[k]
      /\ Outstanding(req, open)
  BY <1>2, RemoveKeeps
<1>7. Conforming => id = x.id /\ heights = x.range.start..x.range.end
  BY <1>3 DEF ReplyIds, Replies
<1>8. Conforming => Tracked(req, open) /\ CoverageOf(req, data)
  <2> SUFFICES ASSUME Conforming
               PROVE  Tracked(req, open) /\ CoverageOf(req, data)
    OBVIOUS
  <2>1. Tracked(m_req, wire) /\ CoverageOf(m_req, m_data)  BY <1>2, Parts
  <2>2. Tracked(req, open)  BY <1>2, <1>7, <2>1, RemoveKeeps
  <2>3. m_req[x.id] = x.range  BY <1>1, <1>2, <2>1 DEF Tracked
  <2> HIDE DEF data, req, open
  <2>4. ASSUME NEW h \in Len(m_nonces)..m_height, RequestedBy(h, req)
        PROVE  CoveredBy(h, req, data)
    <3>1. RequestedBy(h, m_req)  BY <1>6, <2>4 DEF RequestedBy
    <3>2. CoveredBy(h, m_req, m_data)  BY <2>1, <3>1 DEF CoverageOf
    <3> QED  BY <1>5, <1>6, <1>7, <2>3, <3>2 DEF CoveredBy
  <2> QED  BY <2>2, <2>4 DEF CoverageOf
<1>9. CASE Finish("fatal", open) /\ UNCHANGED <<m_nonces, net, fails>>
  BY <1>2, <1>9, GivesUp DEF Finish, net, Scalars, Numbers
<1>10. CASE /\ id \in DOMAIN m_req /\ Complete(req)
            /\ save(data)
            /\ m_req' = req
            /\ wire' = open
            /\ UNCHANGED <<m_height, m_pos, nextId, loop, fails>>
  <2>1. DOMAIN req = {} /\ m_pos > m_height  BY <1>10 DEF Complete
  <2> HIDE DEF data, req
  <2> QED  BY <1>1, <1>5, <1>6, <1>8, <1>10, <2>1, SaveInv
<1>11. CASE /\ id \in DOMAIN m_req /\ ~ Complete(req)
            /\ m_data' = data
            /\ IF Room(req)
                 THEN getBlockHeadersRange(req, open)
                 ELSE m_req' = req /\ wire' = open /\ UNCHANGED <<m_pos, nextId>>
            /\ UNCHANGED <<m_nonces, m_height, m_timer, loop, outcome, fails>>
  <2> HIDE DEF data, req
  <2>1. IsFiniteSet(DOMAIN req) /\ Cardinality(DOMAIN req) = Cardinality(DOMAIN m_req) - 1
    BY <1>2, <1>6, <1>11, FS_RemoveElement
  <2>2. CASE Room(req) /\ getBlockHeadersRange(req, open)
    <3> HIDE DEF open
    <3>1. /\ Kept(req, open, data)
          /\ \/ DOMAIN m_req' = DOMAIN req
             \/ DOMAIN m_req' = DOMAIN req \cup {nextId + 1}
      BY <1>2, <1>6, <1>11, <2>2, SendNext DEF Scalars
    <3>2. Scalars'  BY <1>2, <1>5, <1>11, <3>1 DEF Scalars, Numbers, Kept, ChainMap
    <3>3. ConcurrencyBound'
      <4>1. Cardinality(DOMAIN req) \in Nat  BY <2>1, FS_CardinalityType
      <4>2. Cardinality(DOMAIN req \cup {nextId + 1}) <= Cardinality(DOMAIN req) + 1
        BY <2>1, <4>1, OneMore
      <4>3. Cardinality(DOMAIN m_req') \in Nat
        BY <3>1, <3>2, IdsAreFinite DEF Outstanding, Scalars, Numbers, Kept
      <4>4. Cardinality(DOMAIN m_req') <= Cardinality(DOMAIN req) + 1
        BY <3>1, <4>1, <4>2
      <4> QED  BY <1>2, <1>11, <2>1, <4>1, <4>3, <4>4, NetworkAssumption DEF IInv, ConcurrencyBound
    <3> QED
      BY <1>2, <1>8, <1>11, <3>1, <3>2, <3>3, Established DEF Kept, Scalars, Numbers
  <2>3. CASE m_req' = req /\ wire' = open /\ UNCHANGED <<m_pos, nextId>>
    <3> HIDE DEF open
    <3>1. Outstanding(m_req, wire)'  BY <1>6, <2>3 DEF Outstanding
    <3>2. Scalars'  BY <1>2, <1>5, <1>11, <2>3 DEF Scalars, Numbers, ChainMap
    <3>3. Conforming => Tracked(m_req, wire)' /\ CoverageOf(m_req, m_data)'
      BY <1>8, <1>11, <2>3 DEF Tracked, CoverageOf, RequestedBy, CoveredBy
    <3>4. ConcurrencyBound'
      <4>1. Cardinality(DOMAIN req) \in Nat  BY <2>1, FS_CardinalityType
      <4> QED  BY <1>2, <1>11, <2>1, <2>3, <4>1, NetworkAssumption DEF IInv, ConcurrencyBound
    <3> QED  BY <1>2, <1>11, <2>3, <3>1, <3>2, <3>3, <3>4, Established
  <2> QED  BY <1>11, <2>2, <2>3
<1> QED  BY <1>3, <1>9, <1>10, <1>11 DEF setBlockHeadersRange

-----------------------------------------------------------------------------
(***************************************************************************)
(* The invariants hold of every behaviour.                                 *)
(***************************************************************************)
LEMMA StepInv == IInv /\ [Next]_vars => IInv'
<1> SUFFICES ASSUME IInv, [Next]_vars
             PROVE  IInv'
  OBVIOUS
<1>1. CASE connect  BY <1>1, ConnectInv
<1>2. CASE syncLoop  BY <1>2, SyncLoopInv
<1>3. ASSUME NEW x \in wire, onTransportError(x)
      PROVE  IInv'
  BY <1>3, TransportErrorInv
<1>4. ASSUME NEW x \in wire, onUnusableReply(x)
      PROVE  IInv'
  BY <1>4, UnusableReplyInv
<1>5. ASSUME NEW x \in wire, onLastBlockHeader(x)
      PROVE  IInv'
  BY <1>5, LastBlockHeaderInv
<1>6. ASSUME NEW x \in wire, onBlockHeadersRange(x)
      PROVE  IInv'
  BY <1>6, BlockHeadersRangeInv
<1>7. CASE close  BY <1>7, CloseInv
<1>8. ASSUME NEW x \in wire, expired(x)
      PROVE  IInv'
  BY <1>8, ExpiredInv
<1>9. CASE UNCHANGED vars
  BY <1>9 DEF vars, net, IInv, TypeOK, Bounded, Phases, Asking, FromChain, TrackedExchanges,
    ConcurrencyBound, Coverage, Covered, Requested, NoMissingHeader, SuccessIsQuiet,
    ReportsComplete
<1> QED  BY <1>1, <1>2, <1>3, <1>4, <1>5, <1>6, <1>7, <1>8, <1>9 DEF Next, Answer

(***************************************************************************)
(* The inductive invariant: all of the following are parts of it.          *)
(***************************************************************************)
THEOREM Invariant == Spec => []IInv
BY InitInv, StepInv, PTL DEF Spec

(***************************************************************************)
(* Every variable keeps its type, whatever the daemon answers.             *)
(***************************************************************************)
THEOREM TypeCorrect == Spec => []TypeOK
<1>1. IInv => TypeOK  BY DEF IInv
<1> QED  BY <1>1, Invariant, PTL

(***************************************************************************)
(* With a daemon that answers under the id it was asked with, requests and *)
(* exchanges agree, so that every answer and every error finds its request *)
(* (lines 77 and 108 of Network.cpp).                                      *)
(***************************************************************************)
THEOREM ExchangesTracked == Spec => []TrackedExchanges
<1>1. IInv => TrackedExchanges  BY DEF IInv
<1> QED  BY <1>1, Invariant, PTL

(***************************************************************************)
(* The setting "concurrency" bounds the outstanding requests, whatever the *)
(* daemon answers and however often exchanges fail.                        *)
(***************************************************************************)
THEOREM ConcurrencyBounded == Spec => []ConcurrencyBound
<1>1. IInv => ConcurrencyBound  BY DEF IInv
<1> QED  BY <1>1, Invariant, PTL

(***************************************************************************)
(* No height that was requested is lost, even where positions wrap.        *)
(***************************************************************************)
THEOREM HeightsCovered == Spec => []Coverage
<1>1. IInv => Coverage  BY DEF IInv
<1> QED  BY <1>1, Invariant, PTL

(***************************************************************************)
(* With a conforming daemon save() finds every header: m_data.at() does    *)
(* not throw.                                                              *)
(***************************************************************************)
THEOREM HeadersPresent == Spec => []NoMissingHeader
<1>1. IInv => NoMissingHeader  BY DEF IInv
<1> QED  BY <1>1, Invariant, PTL

(***************************************************************************)
(* Success is reported for a complete list only.                           *)
(***************************************************************************)
THEOREM SuccessIsComplete == Spec => []ReportsComplete
<1>1. IInv => ReportsComplete  BY DEF IInv
<1> QED  BY <1>1, Invariant, PTL

(***************************************************************************)
(* With a conforming daemon no exchange is open when success is reported.  *)
(***************************************************************************)
THEOREM NothingOutlivesSuccess == Spec => []SuccessIsQuiet
<1>1. IInv => SuccessIsQuiet  BY DEF IInv
<1> QED  BY <1>1, Invariant, PTL

-----------------------------------------------------------------------------
(***************************************************************************)
(* Refinement.                                                             *)
(***************************************************************************)
LEMMA InitRefines == Init => Sync!Init
BY DEF Init, Sync!Init

LEMMA StepRefines == IInv /\ [Next]_vars => [Sync!Next]_(Sync!vars)
<1> SUFFICES ASSUME IInv, [Next]_vars
             PROVE  Sync!Next \/ UNCHANGED <<m_nonces, outcome>>
  BY DEF Sync!vars
<1>1. CASE connect \/ syncLoop \/ UNCHANGED vars
  BY <1>1 DEF connect, syncLoop, vars
<1>2. ASSUME outcome = "running", outcome' \in Outcomes, UNCHANGED m_nonces
      PROVE  Sync!Next
  BY <1>2 DEF Sync!Next, Sync!GiveUp
<1>3. CASE close
  BY <1>2, <1>3 DEF close, Finish, Outcomes
<1>4. ASSUME NEW x \in wire, onTransportError(x)
      PROVE  Sync!Next \/ UNCHANGED <<m_nonces, outcome>>
  BY <1>2, <1>4 DEF onTransportError, Callback, Finish, Outcomes
<1>5. ASSUME NEW x \in wire, onUnusableReply(x)
      PROVE  Sync!Next
  BY <1>2, <1>5 DEF onUnusableReply, Callback, Finish, Outcomes
<1>6. ASSUME NEW x \in wire, onLastBlockHeader(x)
      PROVE  Sync!Next \/ UNCHANGED <<m_nonces, outcome>>
  BY <1>2, <1>6 DEF onLastBlockHeader, setLastBlockHeader, Callback, Finish, Outcomes
<1>7. ASSUME NEW x \in wire, onBlockHeadersRange(x)
      PROVE  Sync!Next \/ UNCHANGED <<m_nonces, outcome>>
  <2>1. Callback(x) /\ x.type = BLOCK_HEADERS_RANGE  BY <1>7 DEF onBlockHeadersRange
  <2>2. /\ Scalars /\ Outstanding(m_req, wire) /\ outcome = "running"
        /\ Len(m_nonces) <= m_height
    BY <2>1, RangeCallback
  <2>3. PICK heights \in Replies(x.range), id \in ReplyIds(x) :
          setBlockHeadersRange(x, id, [h \in heights |-> Chain[h]])
    BY <1>7 DEF onBlockHeadersRange
  <2> DEFINE data == Insert(m_data, [h \in heights |-> Chain[h]])
  <2>4. ChainMap(data)
    <3>1. heights \subseteq x.range.start..x.range.end  BY <2>3 DEF Replies
    <3>2. x.range \in Ranges /\ x.range.end <= MaxHeight
      BY <2>2 DEF Outstanding, Exchanges
    <3>3. heights \in SUBSET (0..MaxHeight)
      BY <3>1, <3>2, NetworkAssumption DEF Ranges, UInt32
    <3> QED  BY <2>2, <3>3, InsertHeaders DEF Scalars
  <2>5. \/ outcome' = "fatal" /\ UNCHANGED m_nonces
        \/ save(data)
        \/ UNCHANGED <<m_nonces, outcome>>
    BY <2>3 DEF setBlockHeadersRange, Finish
  <2>6. CASE save(data)
    <3> HIDE DEF data
    <3>1. CASE outcome' = "terminated" /\ UNCHANGED m_nonces
      BY <1>2, <2>2, <3>1 DEF Outcomes
    <3>2. CASE /\ Len(m_nonces)..m_height \subseteq DOMAIN data
               /\ m_nonces' = [i \in 1..(m_height + 1) |->
                                 IF i <= Len(m_nonces) THEN m_nonces[i] ELSE data[i - 1]]
               /\ outcome' = "synced"
      <4>1. m_height \in 0..MaxHeight /\ Len(m_nonces) \in Nat /\ m_height \in Nat
        BY <2>2, NetworkAssumption DEF Scalars, Numbers
      <4>2. \A i \in 1..(m_height + 1) : ~ (i <= Len(m_nonces)) => data[i - 1] = Chain[i - 1]
        <5> SUFFICES ASSUME NEW i \in 1..(m_height + 1), ~ (i <= Len(m_nonces))
                     PROVE  data[i - 1] = Chain[i - 1]
          OBVIOUS
        <5>1. i - 1 \in DOMAIN data  BY <3>2, <4>1
        <5> QED  BY <2>4, <5>1 DEF ChainMap
      <4>3. m_nonces' = Sync!Extended(m_nonces, m_height + 1)
        BY <3>2, <4>2 DEF Sync!Extended
      <4> QED  BY <2>2, <3>2, <4>1, <4>3 DEF Sync!Next, Sync!Complete
    <3> QED  BY <2>6, <3>1, <3>2 DEF save
  <2> QED  BY <1>2, <2>2, <2>5, <2>6 DEF Outcomes
<1>8. ASSUME NEW x \in wire, expired(x)
      PROVE  UNCHANGED <<m_nonces, outcome>>
  BY <1>8 DEF expired
<1> QED  BY <1>1, <1>3, <1>4, <1>5, <1>6, <1>7, <1>8 DEF Next, Answer

(***************************************************************************)
(* Network implements NonceSync: whatever the order of the answers, the    *)
(* failures and what the daemon leaves out, the list of nonces is extended *)
(* once, to the end and with the daemon's nonces, or left as it was.       *)
(***************************************************************************)
THEOREM Refinement == Spec => Implements
<1>1. Spec => Sync!Spec
  BY InitRefines, StepRefines, Invariant, PTL DEF Spec, Sync!Spec
<1> QED  BY <1>1 DEF Implements

-----------------------------------------------------------------------------
(***************************************************************************)
(* What is requested and received is what the list lacks, and as long as   *)
(* nothing fails nothing is requested a second time; hence the difference  *)
(* that printSync() prints is never below zero.  This holds where no range *)
(* wraps.  IInv is strengthened by WorkInv.                                *)
(***************************************************************************)

WithinOf(req, open, data) ==
  /\ \A id \in DOMAIN req : Lacking(req[id])
  /\ \A x \in open : Lacking(x.range)
  /\ DOMAIN data \subseteq Len(m_nonces)..m_height

FreshOf(req, data) ==
  /\ \A h \in DOMAIN data : h < m_pos
  /\ \A id \in DOMAIN req : req[id].end < m_pos
  /\ \A id \in DOMAIN req : req[id].start..req[id].end \cap DOMAIN data = {}
  /\ \A i, j \in DOMAIN req :
       i # j => req[i].end < req[j].start \/ req[j].end < req[i].start

Working == RangesFit /\ outcome = "running" /\ ~ Asking

LEMMA WorkParts ==
  /\ WorkInv /\ Working => WithinOf(m_req, wire, m_data) /\ Len(m_nonces) <= m_pos
  /\ WorkInv /\ Working /\ Conforming /\ fails = 0 => FreshOf(m_req, m_data)
BY DEF WorkInv, Within, Fresh, Working, WithinOf, FreshOf

LEMMA WorkEstablished ==
  ASSUME Working' => WithinOf(m_req, wire, m_data)' /\ Len(m_nonces') <= m_pos',
         Working' /\ Conforming /\ fails' = 0 => FreshOf(m_req, m_data)',
         Unarmed'
  PROVE  WorkInv'
BY DEF WorkInv, Within, Fresh, Working, WithinOf, FreshOf

\* Nothing is claimed once the synchronisation has ended.
LEMMA NotWorking ==
  ASSUME outcome' # "running" \/ (Asking' /\ ~ m_timer')
  PROVE  WorkInv'
BY DEF WorkInv, Within, Fresh, Unarmed

\* A range request is not the first one.
LEMMA StaysUnarmed ==
  ASSUME WorkInv, outcome = "running", nextId \in Nat, NEW req, NEW open, open \subseteq wire,
         \/ getBlockHeadersRange(req, open)
         \/ \E range \in Ranges : getBlockHeadersRangeOf(range, req, open)
         \/ wire' = open /\ nextId' = nextId,
         m_timer' = m_timer
  PROVE  Unarmed'
<1>1. nextId' \in {nextId, nextId + 1}
  BY DEF getBlockHeadersRange, getBlockHeadersRangeOf
<1>2. \A x \in wire' : x \in wire \/ x.type = BLOCK_HEADERS_RANGE
  BY DEF getBlockHeadersRange, getBlockHeadersRangeOf
<1>3. Asking' => Asking
  BY <1>1, <1>2 DEF Asking, LAST_BLOCK_HEADER, BLOCK_HEADERS_RANGE
<1> QED  BY <1>3 DEF WorkInv, Unarmed

-----------------------------------------------------------------------------
(***************************************************************************)
(* Sending.                                                                *)
(***************************************************************************)
LEMMA NewRangeLacks ==
  ASSUME Numbers, RangesFit, Len(m_nonces) <= m_pos, m_pos <= m_height
  PROVE  Lacking(NewRange(m_pos, MaxRange, m_height))
<1>1. m_pos \in Nat /\ m_height \in Nat /\ Len(m_nonces) \in Nat /\ MaxRange \in Nat
  BY NetworkAssumption DEF Numbers, UInt32
<1>2. Wrap(m_pos + MaxRange) = m_pos + MaxRange
  BY <1>1, NetworkAssumption DEF Wrap, RangesFit
<1>3. /\ NewRange(m_pos, MaxRange, m_height).start = m_pos
      /\ NewRange(m_pos, MaxRange, m_height).end =
           IF m_pos + MaxRange < m_height THEN m_pos + MaxRange ELSE m_height
  BY <1>2 DEF NewRange
<1> QED  BY <1>1, <1>3 DEF Lacking

\* m_pos does not wrap either.
LEMMA PositionAfter ==
  ASSUME Numbers, RangesFit, NEW range \in Ranges, Lacking(range)
  PROVE  NextPos(range) = range.end + 1 /\ Len(m_nonces) <= NextPos(range)
<1>1. /\ m_height \in Nat /\ Len(m_nonces) \in Nat /\ Modulus \in Nat
      /\ range.start \in Nat /\ range.end \in Nat
      /\ MaxRange \in Nat /\ MaxRange >= 1
  BY NetworkAssumption DEF Numbers, Ranges, UInt32
<1>2. range.end + 1 < Modulus  BY <1>1 DEF Lacking, RangesFit
<1> QED  BY <1>1, <1>2 DEF NextPos, Wrap, Lacking

LEMMA SendKeepsWithin ==
  ASSUME Numbers, RangesFit, NEW req, NEW open, NEW data, NEW range \in Ranges,
         Lacking(range), WithinOf(req, open, data), Sent(range, req, open),
         UNCHANGED <<m_nonces, m_height>>, m_data' = data
  PROVE  WithinOf(m_req, wire, m_data)' /\ Len(m_nonces') <= m_pos'
<1>1. \A id \in DOMAIN m_req' : m_req'[id] = range \/ (id \in DOMAIN req /\ m_req'[id] = req[id])
  BY DEF Sent
<1>2. \A id \in DOMAIN m_req' : Lacking(m_req'[id])
  BY <1>1 DEF WithinOf
<1>3. \A x \in wire' : Lacking(x.range)
  BY NewExchangeType DEF Sent, WithinOf, Numbers
<1>4. Len(m_nonces') <= m_pos'
  BY PositionAfter DEF Sent
<1> QED  BY <1>2, <1>3, <1>4 DEF WithinOf, Lacking

LEMMA SendKeepsFresh ==
  ASSUME Numbers, RangesFit, NEW req, NEW open, NEW data, NEW range \in Ranges,
         Lacking(range), range.start = m_pos, req \in [DOMAIN req -> Ranges],
         WithinOf(req, open, data), FreshOf(req, data), Sent(range, req, open),
         m_data' = data
  PROVE  FreshOf(m_req, m_data)'
<1>1. /\ m_pos \in Nat /\ range.start \in Nat /\ range.end \in Nat
      /\ m_pos <= range.end /\ m_pos' = range.end + 1
  BY PositionAfter DEF Sent, Numbers, Ranges, UInt32, Lacking
<1>2. \A h \in DOMAIN data : h \in Nat
  BY DEF WithinOf, Numbers
<1>3. \A id \in DOMAIN req : req[id].start \in Nat /\ req[id].end \in Nat
  BY DEF Ranges, UInt32
<1>4. \A id \in DOMAIN m_req' : \/ id = nextId + 1 /\ m_req'[id] = range
                                \/ id \in DOMAIN req /\ m_req'[id] = req[id]
  BY DEF Sent
<1>5. \A h \in DOMAIN m_data' : h < m_pos'
  BY <1>1, <1>2 DEF FreshOf
<1>6. \A id \in DOMAIN m_req' : m_req'[id].end < m_pos'
  BY <1>1, <1>3, <1>4 DEF FreshOf
<1>7. \A id \in DOMAIN m_req' : m_req'[id].start..m_req'[id].end \cap DOMAIN m_data' = {}
  <2>1. range.start..range.end \cap DOMAIN data = {}
    BY <1>1, <1>2 DEF FreshOf
  <2> QED  BY <1>4, <2>1 DEF FreshOf
<1>8. ASSUME NEW i \in DOMAIN m_req', NEW j \in DOMAIN m_req', i # j
      PROVE  m_req'[i].end < m_req'[j].start \/ m_req'[j].end < m_req'[i].start
  <2>1. CASE i = nextId + 1 /\ m_req'[i] = range
    <3>1. j \in DOMAIN req /\ m_req'[j] = req[j]  BY <1>4, <1>8, <2>1
    <3> QED  BY <1>1, <1>3, <2>1, <3>1 DEF FreshOf
  <2>2. CASE j = nextId + 1 /\ m_req'[j] = range
    <3>1. i \in DOMAIN req /\ m_req'[i] = req[i]  BY <1>4, <1>8, <2>2
    <3> QED  BY <1>1, <1>3, <2>2, <3>1 DEF FreshOf
  <2>3. CASE /\ i \in DOMAIN req /\ m_req'[i] = req[i]
             /\ j \in DOMAIN req /\ m_req'[j] = req[j]
    BY <1>8, <2>3 DEF FreshOf
  <2> QED  BY <1>4, <2>1, <2>2, <2>3
<1> QED  BY <1>5, <1>6, <1>7, <1>8 DEF FreshOf

\* A further request, or none when everything has been requested.
LEMMA SendNextWork ==
  ASSUME Numbers, RangesFit, NEW req, NEW open, NEW data,
         Outstanding(req, open), getBlockHeadersRange(req, open),
         UNCHANGED <<m_nonces, m_height>>, m_data' = data,
         Len(m_nonces) <= m_pos, WithinOf(req, open, data)
  PROVE  /\ WithinOf(m_req, wire, m_data)' /\ Len(m_nonces') <= m_pos'
         /\ FreshOf(req, data) => FreshOf(m_req, m_data)'
<1>1. CASE m_pos > m_height /\ m_req' = req /\ wire' = open /\ UNCHANGED <<m_pos, nextId>>
  BY <1>1 DEF WithinOf, FreshOf, Lacking
<1>2. CASE /\ m_pos <= m_height
           /\ getBlockHeadersRangeOf(NewRange(m_pos, MaxRange, m_height), req, open)
  <2> DEFINE range == NewRange(m_pos, MaxRange, m_height)
  <2>1. range \in Ranges /\ range.start = m_pos  BY RangeType DEF Numbers
  <2>2. Lacking(range)  BY <1>2, NewRangeLacks
  <2>3. getBlockHeadersRangeOf(range, req, open)  BY <1>2
  <2> HIDE DEF range
  <2>4. Sent(range, req, open)  BY <2>1, <2>3, SendRange DEF Numbers
  <2>5. WithinOf(m_req, wire, m_data)' /\ Len(m_nonces') <= m_pos'
    BY <2>1, <2>2, <2>4, SendKeepsWithin
  <2>6. FreshOf(req, data) => FreshOf(m_req, m_data)'
    BY <2>1, <2>2, <2>4, SendKeepsFresh DEF Outstanding
  <2> QED  BY <2>5, <2>6
<1> QED  BY <1>1, <1>2 DEF getBlockHeadersRange

-----------------------------------------------------------------------------
(***************************************************************************)
(* Every action preserves it.                                              *)
(***************************************************************************)
LEMMA SyncLoopWork ==
  ASSUME IInv, WorkInv, syncLoop
  PROVE  WorkInv'
<1>1. Scalars /\ outcome = "running" /\ loop > 0  BY Parts DEF syncLoop
<1>2. ~ Asking  BY <1>1 DEF IInv, Phases, Scalars
<1>3. Outstanding(m_req, wire) /\ Numbers  BY <1>1, <1>2, Parts DEF Scalars
<1>4. Unarmed'  BY <1>1, <1>3, StaysUnarmed DEF syncLoop, Numbers
<1>5. SUFFICES ASSUME RangesFit
               PROVE  WorkInv'
  BY <1>4 DEF WorkInv, Within, Fresh, RangesFit, syncLoop
<1>6. WithinOf(m_req, wire, m_data) /\ Len(m_nonces) <= m_pos
  BY <1>1, <1>2, <1>5, WorkParts DEF Working
<1>7. Conforming /\ fails = 0 => FreshOf(m_req, m_data)
  BY <1>1, <1>2, <1>5, WorkParts DEF Working
<1>8. /\ WithinOf(m_req, wire, m_data)' /\ Len(m_nonces') <= m_pos'
      /\ FreshOf(m_req, m_data) => FreshOf(m_req, m_data)'
  BY <1>3, <1>5, <1>6, SendNextWork DEF syncLoop
<1> QED  BY <1>4, <1>7, <1>8, WorkEstablished DEF syncLoop

LEMMA LastBlockHeaderWork ==
  ASSUME IInv, WorkInv, NEW x, onLastBlockHeader(x)
  PROVE  WorkInv'
<1>1. /\ Scalars /\ outcome = "running" /\ loop = 0 /\ wire = {x} /\ nextId > 0
      /\ DOMAIN m_req = {} /\ DOMAIN m_data = {} /\ m_pos = 0
  BY FirstCallback DEF onLastBlockHeader
<1>2. PICK height \in 0..MaxHeight : setLastBlockHeader(x, height)
  BY DEF onLastBlockHeader
<1>3. CASE outcome' # "running"  BY <1>3, NotWorking
<1>4. CASE /\ Len(m_nonces) < Blocks(height)
           /\ sync
           /\ wire' = wire \ {x}
  <2>1. wire' = {} /\ UNCHANGED <<m_nonces, m_req, m_data>>
    BY <1>1, <1>2, <1>4 DEF setLastBlockHeader
  <2>2. Len(m_nonces) \in Nat /\ height \in Nat /\ height < Modulus /\ Modulus \in Nat
    BY <1>1, NetworkAssumption DEF Scalars, Numbers
  <2>3. Len(m_nonces) < Modulus
    BY <1>4, <2>2 DEF Blocks, Wrap
  <2>4. m_pos' = Len(m_nonces)  BY <1>4, <2>2, <2>3 DEF sync, Wrap
  <2>5. WithinOf(m_req, wire, m_data)' /\ Len(m_nonces') <= m_pos'
    BY <1>1, <2>1, <2>2, <2>4 DEF WithinOf
  <2>6. FreshOf(m_req, m_data)'  BY <1>1, <2>1 DEF FreshOf
  <2>7. Unarmed'  BY <1>1, <1>2, <2>1 DEF setLastBlockHeader, Unarmed, Asking
  <2> QED  BY <2>5, <2>6, <2>7, WorkEstablished
<1> QED  BY <1>2, <1>3, <1>4 DEF setLastBlockHeader, Finish

\* A retry: the same range again, and no claim about work done once.
LEMMA TransportErrorWork ==
  ASSUME IInv, WorkInv, NEW x, onTransportError(x)
  PROVE  WorkInv'
<1>1. /\ Scalars /\ ~ Asking /\ Outstanding(m_req, wire)
      /\ x \in wire /\ outcome = "running"
  BY RangeCallback DEF onTransportError, Retriable
<1>2. /\ x.id \in DOMAIN m_req
      /\ getBlockHeadersRangeOf(m_req[x.id], Retried(x), wire \ {x})
      /\ UNCHANGED <<m_nonces, m_height, m_data, m_timer>>
  BY DEF onTransportError, Retriable
<1> QED
  <2> DEFINE req   == Erase(m_req, x.id)
             open  == wire \ {x}
             range == m_req[x.id]
  <2>0. Unarmed'
    <3>1. m_req[x.id] \in Ranges /\ nextId \in Nat
      BY <1>1, <1>2 DEF Outstanding, Scalars, Numbers
    <3> QED  BY <1>1, <1>2, <3>1, StaysUnarmed
  <2>1. fails' # 0  BY <1>1 DEF onTransportError, Scalars
  <2>2. SUFFICES ASSUME RangesFit
                 PROVE  WithinOf(m_req, wire, m_data)' /\ Len(m_nonces') <= m_pos'
    BY <1>2, <2>1, <2>0, WorkEstablished DEF Working, RangesFit
  <2>3. WithinOf(m_req, wire, m_data)  BY <1>1, <2>2, WorkParts DEF Working
  <2>4. Numbers /\ nextId \in Nat  BY <1>1 DEF Scalars, Numbers
  <2>5. range \in Ranges /\ Lacking(range)  BY <1>1, <1>2, <2>3 DEF Outstanding, WithinOf
  <2>6. /\ DOMAIN req = DOMAIN m_req \ {x.id} /\ \A k \in DOMAIN req : req[k] = m_req[k]
        /\ Outstanding(req, open)
    BY <1>1, RemoveKeeps
  <2>7. getBlockHeadersRangeOf(range, req, open)  BY <1>2 DEF Retried
  <2> HIDE DEF req, range
  <2>8. WithinOf(req, open, m_data)  BY <2>3, <2>6 DEF WithinOf
  <2> HIDE DEF open
  <2>9. Sent(range, req, open)  BY <2>4, <2>5, <2>6, <2>7, SendRange
  <2> QED  BY <1>2, <2>2, <2>4, <2>5, <2>8, <2>9, SendKeepsWithin

LEMMA BlockHeadersRangeWork ==
  ASSUME IInv, WorkInv, NEW x, onBlockHeadersRange(x)
  PROVE  WorkInv'
<1>1. Callback(x) /\ x.type = BLOCK_HEADERS_RANGE  BY DEF onBlockHeadersRange
<1>2. /\ Scalars /\ ~ Asking /\ Outstanding(m_req, wire)
      /\ x \in wire /\ outcome = "running"
  BY <1>1, RangeCallback
<1>3. PICK heights \in Replies(x.range), id \in ReplyIds(x) :
        setBlockHeadersRange(x, id, [h \in heights |-> Chain[h]])
  BY DEF onBlockHeadersRange
<1> DEFINE data == Insert(m_data, [h \in heights |-> Chain[h]])
           req  == Erase(m_req, id)
           open == wire \ {x}
<1>4. CASE outcome' # "running"  BY <1>4, NotWorking
<1>5. CASE /\ m_data' = data
           /\ IF Room(req)
                THEN getBlockHeadersRange(req, open)
                ELSE m_req' = req /\ wire' = open /\ UNCHANGED <<m_pos, nextId>>
           /\ UNCHANGED <<m_nonces, m_height, m_timer, outcome, fails>>
  <2>0. Unarmed'
    <3>1. nextId \in Nat  BY <1>2 DEF Scalars, Numbers
    <3> HIDE DEF data, req
    <3> QED  BY <1>2, <1>5, <3>1, StaysUnarmed
  <2>1. SUFFICES ASSUME RangesFit
                 PROVE  WorkInv'
    BY <1>5, <2>0 DEF WorkInv, Within, Fresh, RangesFit
  <2>2. WithinOf(m_req, wire, m_data) /\ Len(m_nonces) <= m_pos
    BY <1>2, <2>1, WorkParts DEF Working
  <2>3. heights \subseteq x.range.start..x.range.end /\ heights \in SUBSET (0..MaxHeight)
    <3>1. heights \subseteq x.range.start..x.range.end  BY <1>3 DEF Replies
    <3>2. x.range \in Ranges /\ x.range.end <= MaxHeight  BY <1>2 DEF Outstanding, Exchanges
    <3> QED  BY <3>1, <3>2, NetworkAssumption DEF Ranges, UInt32
  <2>4. DOMAIN data = DOMAIN m_data \cup heights  BY <1>2, <2>3, InsertHeaders DEF Scalars
  <2>5. /\ DOMAIN req = DOMAIN m_req \ {id} /\ \A k \in DOMAIN req : req[k] = m_req[k]
        /\ Outstanding(req, open)
    BY <1>2, RemoveKeeps
  <2> HIDE DEF data, req
  <2>6. WithinOf(req, open, data)
    <3>1. Lacking(x.range) /\ x.range \in Ranges
      BY <1>2, <2>2 DEF WithinOf, Outstanding, Exchanges
    <3>2. heights \subseteq Len(m_nonces)..m_height
      BY <1>2, <2>3, <3>1, NetworkAssumption DEF Lacking, Ranges, UInt32, Scalars, Numbers
    <3> QED  BY <2>2, <2>4, <2>5, <3>2 DEF WithinOf
  <2>7. ASSUME Conforming, fails = 0
        PROVE  FreshOf(req, data)
    <3>1. FreshOf(m_req, m_data)  BY <1>2, <2>1, <2>7, WorkParts DEF Working
    <3>2. id = x.id /\ x.id \in DOMAIN m_req /\ m_req[x.id] = x.range
      BY <1>1, <1>2, <1>3, <2>7, Parts DEF ReplyIds, Tracked
    <3>3. x.range \in Ranges /\ m_pos \in Nat
      BY <1>2 DEF Outstanding, Exchanges, Scalars, Numbers, UInt32
    <3>4. \A h \in heights : h \in Nat /\ x.range.start <= h /\ h <= x.range.end
      BY <2>3, <3>3 DEF Ranges, UInt32
    <3>5. \A h \in DOMAIN data : h < m_pos
      BY <2>4, <3>1, <3>2, <3>3, <3>4 DEF FreshOf, Ranges, UInt32
    <3>6. \A k \in DOMAIN req : req[k].start..req[k].end \cap DOMAIN data = {}
      <4> SUFFICES ASSUME NEW k \in DOMAIN req, NEW h \in req[k].start..req[k].end,
                          h \in heights
                   PROVE  FALSE
        BY <2>4, <2>5, <3>1 DEF FreshOf
      <4>1. k # x.id /\ k \in DOMAIN m_req /\ req[k] = m_req[k]  BY <2>5, <3>2
      <4>2. m_req[k] \in Ranges  BY <1>2, <4>1 DEF Outstanding
      <4>3. m_req[k].end < x.range.start \/ x.range.end < m_req[k].start
        BY <3>1, <3>2, <4>1 DEF FreshOf
      <4> QED  BY <3>3, <3>4, <4>1, <4>2, <4>3 DEF Ranges, UInt32
    <3> QED  BY <2>5, <3>1, <3>5, <3>6 DEF FreshOf
  <2> HIDE DEF open
  <2>8. CASE Room(req) /\ getBlockHeadersRange(req, open)
    <3>1. /\ WithinOf(m_req, wire, m_data)' /\ Len(m_nonces') <= m_pos'
          /\ FreshOf(req, data) => FreshOf(m_req, m_data)'
      BY <1>2, <1>5, <2>1, <2>2, <2>5, <2>6, <2>8, SendNextWork DEF Scalars
    <3> QED  BY <1>5, <2>0, <2>7, <3>1, WorkEstablished
  <2>9. CASE m_req' = req /\ wire' = open /\ UNCHANGED <<m_pos, nextId>>
    <3>1. WithinOf(m_req, wire, m_data)' /\ Len(m_nonces') <= m_pos'
      BY <1>5, <2>2, <2>6, <2>9 DEF WithinOf, Lacking
    <3>2. FreshOf(req, data) => FreshOf(m_req, m_data)'
      BY <1>5, <2>9 DEF FreshOf
    <3> QED  BY <1>5, <2>0, <2>7, <3>1, <3>2, WorkEstablished
  <2> QED  BY <1>5, <2>8, <2>9
<1> QED  BY <1>3, <1>4, <1>5 DEF setBlockHeadersRange, Finish, save

-----------------------------------------------------------------------------
LEMMA InitWork == Init => WorkInv
BY DEF Init, WorkInv, Within, Fresh, Unarmed, Asking

LEMMA StepWork == IInv /\ WorkInv /\ [Next]_vars => WorkInv'
<1> SUFFICES ASSUME IInv, WorkInv, [Next]_vars
             PROVE  WorkInv'
  OBVIOUS
<1>1. CASE connect
  <2>1. outcome = "running" /\ Asking  BY <1>1 DEF connect, IInv, Phases, Asking
  <2>2. Asking' /\ ~ m_timer'  BY <1>1, <2>1 DEF connect, Asking, WorkInv, Unarmed
  <2> QED  BY <2>2, NotWorking
<1>2. CASE syncLoop  BY <1>2, SyncLoopWork
<1>3. ASSUME NEW x \in wire, onTransportError(x)
      PROVE  WorkInv'
  BY <1>3, TransportErrorWork
<1>4. ASSUME NEW x \in wire, onUnusableReply(x)
      PROVE  WorkInv'
  BY <1>4, NotWorking DEF onUnusableReply, Finish
<1>5. ASSUME NEW x \in wire, onLastBlockHeader(x)
      PROVE  WorkInv'
  BY <1>5, LastBlockHeaderWork
<1>6. ASSUME NEW x \in wire, onBlockHeadersRange(x)
      PROVE  WorkInv'
  BY <1>6, BlockHeadersRangeWork
<1>7. CASE close
  BY <1>7, NotWorking DEF close, Finish
<1>8. ASSUME NEW x \in wire, expired(x)
      PROVE  WorkInv'
  BY <1>8, NotWorking DEF expired
<1>9. CASE UNCHANGED vars
  BY <1>9 DEF vars, net, WorkInv, Within, Fresh, Unarmed, Lacking, RangesFit, Asking
<1> QED  BY <1>1, <1>2, <1>3, <1>4, <1>5, <1>6, <1>7, <1>8, <1>9 DEF Next, Answer

LEMMA WorkInvariant == Spec => [](IInv /\ WorkInv)
BY InitInv, StepInv, InitWork, StepWork, PTL DEF Spec

(***************************************************************************)
(* While nothing fails every height that the list lacks is requested at    *)
(* most once, and no other height is, in whatever order the answers come.  *)
(***************************************************************************)
THEOREM WorkedOnce == Spec => []NoDuplicateWork
<1>1. IInv /\ WorkInv => NoDuplicateWork
  <2> SUFFICES ASSUME IInv, WorkInv, Conforming, RangesFit, outcome = "running", fails = 0,
                      NEW i \in DOMAIN m_req, NEW j \in DOMAIN m_req
               PROVE  LET heights == m_req[i].start..m_req[i].end
                      IN  /\ heights \subseteq (Len(m_nonces)..m_height) \ DOMAIN m_data
                          /\ i # j => heights \cap (m_req[j].start..m_req[j].end) = {}
    BY DEF NoDuplicateWork
  <2>1. ~ Asking  BY DEF IInv, Phases
  <2>2. WithinOf(m_req, wire, m_data) /\ FreshOf(m_req, m_data)
    BY <2>1, WorkParts DEF Working
  <2>3. Scalars /\ m_req[i] \in Ranges /\ m_req[j] \in Ranges
    BY <2>1, Parts DEF Outstanding
  <2>4. m_req[i].start..m_req[i].end \subseteq Len(m_nonces)..m_height
    BY <2>2, <2>3, NetworkAssumption DEF WithinOf, Lacking, Ranges, UInt32, Scalars, Numbers
  <2>5. i # j => m_req[i].start..m_req[i].end \cap (m_req[j].start..m_req[j].end) = {}
    BY <2>2, <2>3 DEF FreshOf, Ranges, UInt32
  <2> QED  BY <2>2, <2>4, <2>5 DEF FreshOf
<1> QED  BY <1>1, WorkInvariant, PTL

(***************************************************************************)
(* The rest that printSync() prints is not negative: no more is received   *)
(* than the list lacks, whatever fails and whatever the daemon leaves out. *)
(***************************************************************************)
THEOREM ProgressSubtracts == Spec => []RemainingNotNegative
<1>1. IInv /\ WorkInv /\ RangesFit /\ m_timer /\ outcome = "running" =>
        Len(m_nonces) + Cardinality(DOMAIN m_data) <= m_height + 1
  <2> SUFFICES ASSUME IInv, WorkInv, RangesFit, m_timer, outcome = "running"
               PROVE  Len(m_nonces) + Cardinality(DOMAIN m_data) <= m_height + 1
    OBVIOUS
  <2>1. ~ Asking  BY DEF WorkInv, Unarmed
  <2>2. DOMAIN m_data \subseteq Len(m_nonces)..m_height
    BY <2>1, WorkParts DEF Working, WithinOf
  <2>3. Len(m_nonces) \in Nat /\ m_height \in Nat /\ Len(m_nonces) <= m_height
    BY <2>1, Parts, NetworkAssumption DEF IInv, Phases, Scalars, Numbers
  <2>4. /\ IsFiniteSet(Len(m_nonces)..m_height)
        /\ Cardinality(Len(m_nonces)..m_height) = m_height - Len(m_nonces) + 1
    BY <2>3, FS_Interval
  <2>5. /\ Cardinality(DOMAIN m_data) \in Nat
        /\ Cardinality(DOMAIN m_data) <= Cardinality(Len(m_nonces)..m_height)
    BY <2>2, <2>4, FS_Subset, FS_CardinalityType
  <2> QED  BY <2>3, <2>4, <2>5
<1>2. IInv /\ WorkInv => RemainingNotNegative  BY <1>1 DEF RemainingNotNegative
<1> QED  BY <1>2, WorkInvariant, PTL

=============================================================================
