--------------------------- MODULE EventLoopProofs ---------------------------
(***************************************************************************)
(* Proofs about MemPool and EventLoop, for any size of the pool's blocks   *)
(* and any number of connections.                                          *)
(***************************************************************************)
EXTENDS EventLoop, WellFoundedInduction, TLAPS

USE MemPoolAssumption

LEMMA LeastNat ==
  ASSUME NEW T, T \subseteq Nat, T # {}
  PROVE  \E x \in T : \A y \in T : x <= y
<1>1. \E x \in T : \A y \in T : ~ (<<y, x>> \in OpToRel(<, Nat))
  BY WFMin, NatLessThanWellFounded, Zenon
<1>2. PICK x \in T : \A y \in T : ~ (<<y, x>> \in OpToRel(<, Nat))
  BY <1>1
<1>3. ASSUME NEW y \in T  PROVE ~ (y < x)
  BY <1>2, Zenon DEF OpToRel
<1> QED  BY <1>3

\* Different chunks lie at different addresses.
LEMMA AddressInjective ==
  ASSUME NEW i \in Nat, NEW j \in Nat, Address(i) = Address(j)
  PROVE  i = j
<1> DEFINE r == i \div InitSize
<1> DEFINE q == j \div InitSize
<1>1. r = q /\ i - r * InitSize = j - q * InitSize
  BY DEF Address
<1>2. r * InitSize \in Int
  BY Z3
<1> HIDE DEF r, q
<1> QED  BY <1>1, <1>2

LEMMA AddressNotEmpty ==
  ASSUME NEW i  PROVE  Address(i) # <<>>
BY DEF Address

-----------------------------------------------------------------------------
\* The state of the pool without its users.
Pool == m_data \in Nat /\ m_free \subseteq Chunks

LEMMA ChunksAreNat ==
  ASSUME m_data \in Nat  PROVE  Chunks \subseteq Nat /\ m_data * InitSize \in Nat
<1>1. m_data * InitSize \in Nat
  BY Z3
<1> QED  BY <1>1 DEF Chunks

\* What allocate() hands out was not in use: it is free, or did not exist.
LEMMA HandedIsNew ==
  ASSUME Pool
  PROVE  /\ Lowest \in Available.free
         /\ Lowest \in Nat
         /\ Lowest \in m_free \/ Lowest \notin Chunks
         /\ Available.blocks \in Nat
         /\ Available.free \subseteq 0..(Available.blocks * InitSize - 1)
         /\ Chunks \ m_free \subseteq 0..(Available.blocks * InitSize - 1)
         /\ 0..(Available.blocks * InitSize - 1) \ Available.free = Chunks \ m_free
<1>1. m_data * InitSize \in Nat /\ Chunks \subseteq Nat
  BY ChunksAreNat DEF Pool
<1>2. (m_data + 1) * InitSize = m_data * InitSize + InitSize
  BY Z3 DEF Pool
<1>3. CASE m_free = {}
  <2>1. Available.blocks = m_data + 1
    BY <1>3 DEF Available, resize
  <2>2. Available.free = {m_data * InitSize + i : i \in 0..(InitSize - 1)}
    BY <1>3 DEF Available, resize
  <2>3. Available.free \subseteq Nat /\ Available.free # {}
    BY <1>1, <2>2
  <2>4. Lowest \in Available.free
    BY <2>3, LeastNat DEF Lowest
  <2>5. \A k : k \in Available.free <=>
          k \in (m_data * InitSize)..(m_data * InitSize + InitSize - 1)
    <3> DEFINE b == m_data * InitSize
    <3>1. b \in Nat
      BY <1>1
    <3>2. \A k : k \in {b + i : i \in 0..(InitSize - 1)} <=> k \in b..(b + InitSize - 1)
      <4> HIDE DEF b
      <4>1. ASSUME NEW k \in b..(b + InitSize - 1)
            PROVE  k \in {b + i : i \in 0..(InitSize - 1)}
        <5>1. k - b \in 0..(InitSize - 1) /\ k = b + (k - b)
          BY <3>1
        <5> QED  BY <5>1
      <4> QED  BY <3>1, <4>1
    <3> QED  BY <2>2, <3>2
  <2> HIDE DEF Available, Lowest
  <2> DEFINE b == m_data * InitSize
  <2>6. /\ Available.blocks * InitSize = b + InitSize
        /\ b \in Nat /\ Chunks = 0..(b - 1)
    BY <1>1, <1>2, <2>1 DEF Chunks
  <2> HIDE DEF b
  <2>7. \A k : k \in Available.free <=> k \in b..(b + InitSize - 1)
    BY <2>5 DEF b
  <2>8. m_data + 1 \in Nat
    BY DEF Pool
  <2> QED  BY <1>3, <2>1, <2>3, <2>4, <2>6, <2>7, <2>8
<1>4. CASE m_free # {}
  <2>1. Available.blocks = m_data /\ Available.free = m_free
    BY <1>4 DEF Available
  <2>2. Lowest \in m_free
    BY <1>1, <1>4, <2>1, LeastNat DEF Lowest, Pool
  <2> HIDE DEF Available, Lowest
  <2> QED  BY <1>1, <2>1, <2>2 DEF Pool, Chunks
<1> QED  BY <1>3, <1>4

\* The books of the pool, with its users.
Books == Pool /\ DOMAIN buffer = Exchanges /\ PoolBooks /\ NoSharedChunk
         /\ \A e \in Exchanges : buffer[e] = <<>> \/ buffer[e] \in DOMAIN m_used

LEMMA Allocates ==
  ASSUME NEW e \in Exchanges, Books, buffer[e] = <<>>,
         allocate, buffer' = [buffer EXCEPT ![e] = Handed]
  PROVE  Books' /\ buffer'[e] # <<>>
<1> USE DEF Books
<1>1. /\ Lowest \in Available.free
      /\ Lowest \in Nat
      /\ Lowest \in m_free \/ Lowest \notin Chunks
      /\ Available.blocks \in Nat
      /\ Available.free \subseteq 0..(Available.blocks * InitSize - 1)
      /\ 0..(Available.blocks * InitSize - 1) \ Available.free = Chunks \ m_free
  BY HandedIsNew
<1>2. Handed \notin DOMAIN m_used
  <2>1. SUFFICES ASSUME Handed \in DOMAIN m_used  PROVE FALSE
    OBVIOUS
  <2>2. m_used[Handed] \in Chunks \ m_free /\ Address(m_used[Handed]) = Address(Lowest)
    BY <2>1 DEF PoolBooks, Handed
  <2>3. m_used[Handed] = Lowest
    BY <1>1, <2>2, AddressInjective, ChunksAreNat DEF Pool
  <2> QED  BY <1>1, <2>2, <2>3
<1>3. /\ m_data' = Available.blocks
      /\ m_free' = Available.free \ {Lowest}
      /\ DOMAIN m_used' = DOMAIN m_used \cup {Handed}
      /\ \A p \in DOMAIN m_used : m_used'[p] = m_used[p]
      /\ m_used'[Handed] = Lowest
  BY <1>2 DEF allocate
<1>4. Chunks' = 0..(Available.blocks * InitSize - 1)
  BY <1>3 DEF Chunks
<1> HIDE DEF Available, Lowest, allocate
<1>5. Pool'
  BY <1>1, <1>3, <1>4 DEF Pool
<1>6. Chunks' \ m_free' = (Chunks \ m_free) \cup {Lowest}
  BY <1>1, <1>3, <1>4
<1>7. Handed = Address(Lowest) /\ Handed # <<>>
  BY AddressNotEmpty DEF Handed
<1>8. /\ DOMAIN buffer' = Exchanges /\ buffer'[e] = Handed
      /\ \A f \in Exchanges : f # e => buffer'[f] = buffer[f]
  OBVIOUS
<1> HIDE DEF Handed
<1>9. PoolBooks'
  <2>1. \A p \in DOMAIN m_used' : m_used'[p] \in Chunks' \ m_free' /\ Address(m_used'[p]) = p
    BY <1>3, <1>6, <1>7 DEF PoolBooks
  <2>2. \A i \in Chunks' \ m_free' : Address(i) \in DOMAIN m_used'
    BY <1>3, <1>6, <1>7 DEF PoolBooks
  <2>3. \A p \in DOMAIN m_used' : \E f \in Exchanges : buffer'[f] = p
    <3>1. ASSUME NEW p \in DOMAIN m_used  PROVE \E f \in Exchanges : buffer'[f] = p
      <4>1. PICK f \in Exchanges : buffer[f] = p
        BY DEF PoolBooks
      <4>2. p # <<>>
        BY AddressNotEmpty DEF PoolBooks
      <4> QED  BY <1>8, <4>1, <4>2
    <3> QED  BY <1>3, <1>8, <3>1
  <2> QED  BY <2>1, <2>2, <2>3 DEF PoolBooks
<1>10. NoSharedChunk'
  BY <1>2, <1>7, <1>8 DEF NoSharedChunk
<1> QED  BY <1>3, <1>5, <1>7, <1>8, <1>9, <1>10

LEMMA Deallocates ==
  ASSUME NEW e \in Exchanges, Books, buffer[e] # <<>>,
         deallocate(buffer[e]), buffer' = [buffer EXCEPT ![e] = <<>>]
  PROVE  Books' /\ buffer'[e] = <<>>
<1> USE DEF Books
<1> DEFINE p == buffer[e]
<1>1. p \in DOMAIN m_used /\ m_used[p] \in Chunks \ m_free /\ Address(m_used[p]) = p
  BY DEF PoolBooks
<1>2. /\ m_data' = m_data /\ Chunks' = Chunks
      /\ m_free' = m_free \cup {m_used[p]}
      /\ DOMAIN m_used' = DOMAIN m_used \ {p}
      /\ \A q \in DOMAIN m_used' : m_used'[q] = m_used[q]
  BY <1>1 DEF deallocate, Chunks
<1>3. /\ DOMAIN buffer' = Exchanges /\ buffer'[e] = <<>>
      /\ \A f \in Exchanges : f # e => buffer'[f] = buffer[f]
  OBVIOUS
<1>4. \A f \in Exchanges : f # e => buffer[f] # p
  BY DEF NoSharedChunk
<1> HIDE DEF p, deallocate
<1>5. Pool'
  BY <1>1, <1>2 DEF Pool
<1>6. PoolBooks'
  <2>1. \A q \in DOMAIN m_used' : m_used'[q] \in Chunks' \ m_free' /\ Address(m_used'[q]) = q
    BY <1>1, <1>2 DEF PoolBooks
  <2>2. \A i \in Chunks' \ m_free' : Address(i) \in DOMAIN m_used'
    <3> SUFFICES ASSUME NEW i \in Chunks \ m_free, i # m_used[p]
                 PROVE  Address(i) \in DOMAIN m_used /\ Address(i) # p
      BY <1>2
    <3>1. i \in Nat /\ m_used[p] \in Nat
      BY <1>1, ChunksAreNat DEF Pool
    <3> QED  BY <1>1, <3>1, AddressInjective DEF PoolBooks
  <2>3. \A q \in DOMAIN m_used' : \E f \in Exchanges : buffer'[f] = q
    <3> SUFFICES ASSUME NEW q \in DOMAIN m_used, q # p
                 PROVE  \E f \in Exchanges : buffer'[f] = q
      BY <1>2
    <3>1. PICK f \in Exchanges : buffer[f] = q
      BY DEF PoolBooks
    <3> QED  BY <1>3, <3>1 DEF p
  <2> QED  BY <2>1, <2>2, <2>3 DEF PoolBooks
<1>7. NoSharedChunk'
  BY <1>3 DEF NoSharedChunk
<1>8. \A f \in Exchanges : buffer'[f] = <<>> \/ buffer'[f] \in DOMAIN m_used'
  BY <1>2, <1>3, <1>4
<1> QED  BY <1>3, <1>5, <1>6, <1>7, <1>8

-----------------------------------------------------------------------------
(***************************************************************************)
(* The handles.                                                            *)
(***************************************************************************)
Typed ==
  /\ app \in Stages
  /\ once \in BOOLEAN
  /\ signals \in [Signals -> Handles]
  /\ m_tty \in Handles
  /\ progress \in Handles
  /\ tcp \in [Exchanges -> Handles]
  /\ timer \in [Exchanges -> Handles]
  /\ request \in [Exchanges -> Requests]

Connections ==
  \A e \in Exchanges : Coupled(tcp[e], timer[e], request[e])

Buffers == \A e \in Exchanges : buffer[e] # <<>> => request[e] = "reading"

\* The invariant in the form the steps preserve.
Strong == Typed /\ AppHandles /\ Connections /\ Buffers /\ NothingLeft /\ Books

LEMMA StrongIsIInv ==
  Strong <=> IInv
<1>1. Strong => OwnersAlive
  BY DEF Strong, Typed, AppHandles, Connections, Coupled, OwnersAlive, Stages
<1>2. Typed /\ Books <=> TypeOK /\ PoolBooks /\ NoSharedChunk
  BY DEF Typed, Books, Pool, TypeOK
<1>3. Connections /\ Buffers <=> ExchangeHandles
  BY DEF Connections, Buffers, ExchangeHandles
<1> QED  BY <1>1, <1>2, <1>3 DEF Strong, IInv

LEMMA CloseIsHandle ==
  ASSUME NEW h \in Handles
  PROVE  Close(h) \in Handles \ {"inactive", "active"}
BY DEF Close, Handles

\* App::close in a running App.
LEMMA Closes ==
  ASSUME Typed, AppHandles, app = "running", close
  PROVE  /\ app' = "closed"
         /\ signals' \in [Signals -> Handles] /\ m_tty' \in Handles /\ progress' \in Handles
         /\ \A s \in Signals : signals'[s] \in {"closing", "deleted"}
         /\ m_tty' \in {"none", "closing", "leaking", "leaked", "deleted"}
         /\ progress' \in {"none", "closing", "deleted"}
BY DEF Typed, AppHandles, close, CloseAll, Close, Handles

\* fetch() for unused exchanges F.
LEMMA Fetches ==
  ASSUME NEW F \in SUBSET Exchanges, NEW T, NEW M, NEW R,
         \A e \in Exchanges : T[e] \in Handles /\ M[e] \in Handles /\ R[e] \in Requests,
         \A e \in Exchanges : Coupled(T[e], M[e], R[e]),
         \A e \in F : T[e] = "none",
         fetch(F, T, M, R)
  PROVE  /\ tcp' \in [Exchanges -> Handles]
         /\ timer' \in [Exchanges -> Handles]
         /\ request' \in [Exchanges -> Requests]
         /\ Connections'
         /\ \A e \in Exchanges : R[e] = "reading" => request'[e] = "reading"
<1>1. PICK refused \in SUBSET F :
        request' = [e \in Exchanges |-> IF e \in refused THEN "none"
                                        ELSE IF e \in F THEN "resolving" ELSE R[e]]
  BY DEF fetch
<1>2. /\ tcp' = [e \in Exchanges |-> IF e \in F THEN "inactive" ELSE T[e]]
      /\ timer' = [e \in Exchanges |-> IF e \in F THEN "active" ELSE M[e]]
  BY DEF fetch
<1>3. /\ tcp' \in [Exchanges -> Handles]
      /\ timer' \in [Exchanges -> Handles]
      /\ request' \in [Exchanges -> Requests]
  BY <1>1, <1>2 DEF Handles, Requests
<1>4. ASSUME NEW e \in Exchanges
      PROVE  Coupled(tcp'[e], timer'[e], request'[e])
  <2>1. CASE e \in F
    BY <1>1, <1>2, <2>1 DEF Coupled
  <2>2. CASE e \notin F
    BY <1>1, <1>2, <2>2 DEF Coupled
  <2> QED  BY <2>1, <2>2
<1>5. \A e \in Exchanges : R[e] = "reading" => request'[e] = "reading"
  BY <1>1 DEF Coupled
<1> QED  BY <1>3, <1>4, <1>5 DEF Connections

\* A call of the listener, from a callback of an exchange: T, M and R are the
\* handles when it is made.
LEMMA Reacts ==
  ASSUME Typed, AppHandles, app \in {"running", "closed", "destroyed"}, ~ once,
         NEW T \in [Exchanges -> Handles], NEW M \in [Exchanges -> Handles],
         NEW R \in [Exchanges -> Requests],
         \A e \in Exchanges : Coupled(T[e], M[e], R[e]),
         \A e \in Unused : T[e] = "none",
         onHttpData(T, M, R), once' = once
  PROVE  /\ Typed' /\ AppHandles' /\ Connections' /\ app' # "left"
         /\ \A e \in Exchanges : R[e] = "reading" => request'[e] = "reading"
<1>1. CASE tcp' = T /\ timer' = M /\ request' = R /\ UNCHANGED <<app, own>>
  <2>1. Typed' /\ Connections' /\ app' # "left"
    BY <1>1 DEF Typed, Connections, own
  <2>2. AppHandles'
    BY <1>1 DEF AppHandles, own
  <2> QED  BY <1>1, <2>1, <2>2
<1>2. CASE /\ app = "running"
           /\ \E F \in (SUBSET Unused) \ {{}} : fetch(F, T, M, R)
           /\ progress' \in {progress, IF progress = "none" THEN "active" ELSE progress}
           /\ UNCHANGED <<app, signals, m_tty>>
  <2>1. PICK F \in SUBSET Exchanges : (\A e \in F : T[e] = "none") /\ fetch(F, T, M, R)
    BY <1>2 DEF Unused
  <2>2. /\ tcp' \in [Exchanges -> Handles]
        /\ timer' \in [Exchanges -> Handles]
        /\ request' \in [Exchanges -> Requests]
        /\ Connections'
        /\ \A e \in Exchanges : R[e] = "reading" => request'[e] = "reading"
    <3>1. \A e \in Exchanges : T[e] \in Handles /\ M[e] \in Handles /\ R[e] \in Requests
      OBVIOUS
    <3> QED  BY <2>1, <3>1, Fetches, ZenonT(60)
  <2>3. Typed'
    BY <1>2, <2>2 DEF Typed, Handles
  <2>4. AppHandles'
    BY <1>2 DEF AppHandles
  <2> QED  BY <1>2, <2>2, <2>3, <2>4
<1>3. CASE app = "running" /\ close /\ tcp' = T /\ timer' = M /\ request' = R
  <2>1. /\ app' = "closed"
        /\ signals' \in [Signals -> Handles] /\ m_tty' \in Handles /\ progress' \in Handles
        /\ \A s \in Signals : signals'[s] \in {"closing", "deleted"}
        /\ m_tty' \in {"none", "closing", "leaking", "leaked", "deleted"}
        /\ progress' \in {"none", "closing", "deleted"}
    BY <1>3, Closes
  <2>2. Typed' /\ Connections'
    BY <1>3, <2>1 DEF Typed, Connections, Stages
  <2>3. AppHandles'
    BY <1>3, <2>1 DEF AppHandles
  <2> QED  BY <1>3, <2>1, <2>2, <2>3
<1> QED  BY <1>1, <1>2, <1>3 DEF onHttpData

\* An exchange that is open keeps the App from having left.
LEMMA OpenExchange ==
  ASSUME Strong, NEW e \in Exchanges,
         tcp[e] \in {"inactive", "active", "closing"} \/ timer[e] \in {"active", "closing"}
  PROVE  app \in {"running", "closed", "destroyed"} /\ ~ once
<1>1. tcp[e] # "none"
  BY DEF Strong, Connections, Coupled
<1>2. e \notin Unused
  BY <1>1 DEF Unused
<1> QED  BY <1>2 DEF Strong, Typed, AppHandles, NothingLeft, Stages

\* What leaves the pool and its users alone leaves its books in order.
LEMMA SameBooks ==
  ASSUME Books, UNCHANGED <<buffer, pool>>  PROVE Books'
BY DEF Books, Pool, PoolBooks, NoSharedChunk, pool, Chunks

-----------------------------------------------------------------------------
LEMMA InitStrong ==
  Init => Strong
<1> SUFFICES ASSUME Init  PROVE Strong
  OBVIOUS
<1>1. Typed /\ AppHandles /\ Connections /\ Buffers /\ NothingLeft
  BY DEF Init, Typed, AppHandles, Connections, Coupled, Buffers, NothingLeft, Unused,
         Stages, Handles, Requests
<1>2. Chunks = {} /\ m_free = {} /\ m_used = [p \in {} |-> 0] /\ m_data = 0
  BY DEF Init, PoolInit, Chunks
<1>3. Books
  BY <1>2 DEF Init, Books, Pool, PoolBooks, NoSharedChunk
<1> QED  BY <1>1, <1>3 DEF Strong

\* A callback of an exchange that calls the listener, with the pool as it is
\* or with the exchange's chunk given back.
LEMMA Calls ==
  ASSUME Strong, NEW e \in Exchanges, tcp[e] # "none",
         NEW T \in [Exchanges -> Handles], NEW M \in [Exchanges -> Handles],
         NEW R \in [Exchanges -> Requests],
         app \in {"running", "closed", "destroyed"}, ~ once,
         Coupled(T[e], M[e], R[e]),
         \A f \in Exchanges \ {e} : T[f] = tcp[f] /\ M[f] = timer[f] /\ R[f] = request[f],
         onHttpData(T, M, R), once' = once, Books',
         \A f \in Exchanges \ {e} : buffer'[f] = buffer[f],
         buffer'[e] # <<>> => R[e] = "reading"
  PROVE  Strong'
<1>1. Typed /\ AppHandles /\ Connections /\ Buffers
  BY DEF Strong
<1>2. \A f \in Exchanges : Coupled(T[f], M[f], R[f])
  BY <1>1 DEF Connections
<1>3. \A f \in Unused : T[f] = "none"
  BY DEF Unused
<1>4. /\ Typed' /\ AppHandles' /\ Connections' /\ app' # "left"
      /\ \A f \in Exchanges : R[f] = "reading" => request'[f] = "reading"
  BY <1>1, <1>2, <1>3, Reacts
<1>5. Buffers'
  BY <1>1, <1>4 DEF Buffers
<1>6. NothingLeft'
  BY <1>4 DEF NothingLeft
<1> QED  BY <1>4, <1>5, <1>6 DEF Strong

\* A callback that changes one exchange only.
LEMMA ChangesOne ==
  ASSUME Strong, NEW e \in Exchanges,
         tcp[e] \in {"inactive", "active", "closing"} \/ timer[e] \in {"active", "closing"},
         UNCHANGED <<app, once, own>>,
         NEW t \in Handles \ {"none"}, tcp' = [tcp EXCEPT ![e] = t],
         NEW m \in Handles, timer' = [timer EXCEPT ![e] = m],
         NEW r \in Requests, request' = [request EXCEPT ![e] = r],
         Coupled(t, m, r), Books',
         \A f \in Exchanges \ {e} : buffer'[f] = buffer[f],
         buffer'[e] # <<>> => r = "reading"
  PROVE  Strong'
<1> USE DEF Strong
<1>1. app \in {"running", "closed", "destroyed"} /\ ~ once
  BY OpenExchange
<1>2. Typed'
  BY DEF Typed, own
<1>3. AppHandles'
  BY <1>1 DEF AppHandles, own
<1>4. Connections'
  <2> SUFFICES ASSUME NEW f \in Exchanges
               PROVE  Coupled(tcp'[f], timer'[f], request'[f])
    BY DEF Connections
  <2>1. CASE f = e
    BY <2>1 DEF Typed
  <2>2. CASE f # e
    BY <2>2 DEF Typed, Connections
  <2> QED  BY <2>1, <2>2
<1>5. Buffers'
  BY DEF Buffers, Typed
<1>6. NothingLeft'
  BY <1>1 DEF NothingLeft, own
<1> QED  BY <1>2, <1>3, <1>4, <1>5, <1>6

\* The callbacks of an exchange.
LEMMA CallbackStrong ==
  ASSUME Strong, NEW e \in Exchanges, Callback(e)
  PROVE  Strong'
<1>0. /\ Typed /\ AppHandles /\ Connections /\ Buffers /\ Books
      /\ Coupled(tcp[e], timer[e], request[e])
      /\ tcp[e] \in Handles /\ timer[e] \in Handles /\ request[e] \in Requests
  BY DEF Strong, Connections, Typed
<1>1. CASE onResolved(e)
  <2>1. Books' /\ buffer' = buffer /\ timer' = timer
    BY <1>1, SameBooks, <1>0 DEF onResolved
  <2>2. buffer[e] = <<>>
    BY <1>0, <1>1 DEF onResolved, Buffers
  <2>3. CASE tcp[e] = "inactive" /\ tcp' = [tcp EXCEPT ![e] = "active"]
             /\ request' = [request EXCEPT ![e] = "connecting"]
    <3>1. Coupled("active", timer[e], "connecting")
      BY <1>0, <2>3 DEF Coupled
    <3>2. timer' = [timer EXCEPT ![e] = timer[e]] /\ UNCHANGED <<app, once, own>>
      BY <1>0, <1>1, <2>1 DEF Typed, onResolved
    <3> QED  BY <1>0, <2>1, <2>2, <2>3, <3>1, <3>2, ChangesOne DEF Handles, Requests
  <2>4. CASE request' = [request EXCEPT ![e] = "none"] /\ UNCHANGED tcp
    <3>1. UNCHANGED <<app, once, own>>
      BY <1>1 DEF onResolved
    <3>2. Typed'
      BY <1>0, <2>1, <2>4, <3>1 DEF Typed, own, Requests
    <3>6. UNCHANGED pool
      BY <1>1 DEF onResolved
    <3>7. AppHandles'
      BY <1>0, <2>4, <3>1 DEF AppHandles, own, Unused
    <3>3. NothingLeft'
      BY <2>1, <2>4, <3>1, <3>6 DEF own, Strong, NothingLeft, Whole, Chunks, pool
    <3>4. Connections'
      BY <1>0, <2>1, <2>4 DEF Connections, Coupled, Typed
    <3>5. Buffers'
      BY <1>0, <2>1, <2>2, <2>4 DEF Buffers, Typed
    <3> QED  BY <2>1, <3>2, <3>7, <3>3, <3>4, <3>5 DEF Strong
  <2> QED  BY <1>1, <2>3, <2>4 DEF onResolved
<1>2. CASE onConnect(e)
  <2>1. Books' /\ buffer' = buffer /\ once' = once
    BY <1>0, <1>2, SameBooks DEF onConnect
  <2>2. buffer[e] = <<>> /\ tcp[e] \in {"active", "closing"}
    BY <1>0, <1>2 DEF onConnect, Buffers, Coupled
  <2>3. app \in {"running", "closed", "destroyed"} /\ ~ once
    BY <2>2, OpenExchange
  <2>4. CASE /\ tcp[e] = "active"
             /\ request' = [request EXCEPT ![e] = "reading"]
             /\ UNCHANGED <<app, own, tcp, timer>>
    <3>1. Coupled(tcp[e], timer[e], "reading")
      BY <1>0, <2>4 DEF Coupled
    <3>2. tcp' = [tcp EXCEPT ![e] = tcp[e]] /\ timer' = [timer EXCEPT ![e] = timer[e]]
      BY <1>0, <2>4 DEF Typed
    <3> QED  BY <1>0, <2>1, <2>2, <2>4, <3>1, <3>2, ChangesOne DEF Requests
  <2>5. CASE tcp[e] = "active" /\ onHttpData(Ended(e), timer, [request EXCEPT ![e] = "none"])
    <3>1. /\ Ended(e) \in [Exchanges -> Handles] /\ Ended(e)[e] = "closing"
          /\ \A f \in Exchanges \ {e} : Ended(e)[f] = tcp[f]
      BY <1>0, <2>5 DEF Ended, Close, Typed, Handles
    <3>2. Coupled("closing", timer[e], "none")
      BY <1>0, <2>5 DEF Coupled
    <3> DEFINE R == [request EXCEPT ![e] = "none"]
    <3>3. /\ R \in [Exchanges -> Requests] /\ R[e] = "none"
          /\ \A f \in Exchanges \ {e} : R[f] = request[f]
      BY <1>0 DEF Typed, Requests
    <3>4. onHttpData(Ended(e), timer, R)
      BY <2>5
    <3> HIDE DEF R
    <3> QED  BY <1>0, <2>1, <2>2, <2>3, <2>5, <3>1, <3>2, <3>3, <3>4, Calls DEF Typed
  <2>6. CASE /\ tcp[e] = "closing"
             /\ request' = [request EXCEPT ![e] = "none"]
             /\ UNCHANGED <<app, own, tcp, timer>>
    <3>1. Coupled(tcp[e], timer[e], "none")
      BY <1>0, <2>6 DEF Coupled
    <3>2. tcp' = [tcp EXCEPT ![e] = tcp[e]] /\ timer' = [timer EXCEPT ![e] = timer[e]]
      BY <1>0, <2>6 DEF Typed
    <3> QED  BY <1>0, <2>1, <2>2, <2>6, <3>1, <3>2, ChangesOne DEF Requests
  <2> QED  BY <1>2, <2>4, <2>5, <2>6 DEF onConnect
<1>3. CASE onAlloc(e)
  <2>1. Books'
    BY <1>0, <1>3, Allocates DEF onAlloc
  <2>2. /\ tcp' = [tcp EXCEPT ![e] = tcp[e]] /\ timer' = [timer EXCEPT ![e] = timer[e]]
        /\ request' = [request EXCEPT ![e] = request[e]]
    BY <1>0, <1>3 DEF onAlloc, Typed
  <2>3. /\ tcp[e] = "active" /\ request[e] = "reading" /\ UNCHANGED <<app, once, own>>
        /\ buffer' = [buffer EXCEPT ![e] = Handed]
    BY <1>3 DEF onAlloc
  <2>4. \A f \in Exchanges \ {e} : buffer'[f] = buffer[f]
    BY <1>0, <2>3 DEF Books
  <2> QED  BY <1>0, <2>1, <2>2, <2>3, <2>4, ChangesOne
<1>4. CASE onRead(e)
  <2>1. Books' /\ buffer'[e] = <<>>
    BY <1>0, <1>4, Deallocates DEF onRead
  <2>2. /\ \A f \in Exchanges \ {e} : buffer'[f] = buffer[f]
        /\ request[e] = "reading" /\ once' = once
    BY <1>0, <1>4 DEF onRead, Books
  <2>3. tcp[e] \in {"active", "closing"}
    BY <1>0, <2>2 DEF Coupled
  <2>4. app \in {"running", "closed", "destroyed"} /\ ~ once
    BY <2>3, OpenExchange
  <2>5. CASE tcp[e] = "active" /\ onHttpData(tcp, timer, request)
    BY <1>0, <2>1, <2>2, <2>4, <2>5, Calls DEF Typed
  <2>6. CASE tcp[e] = "active" /\ onHttpData(Ended(e), timer, request)
    <3>1. /\ Ended(e) \in [Exchanges -> Handles] /\ Ended(e)[e] = "closing"
          /\ \A f \in Exchanges \ {e} : Ended(e)[f] = tcp[f]
      BY <1>0, <2>6 DEF Ended, Close, Typed, Handles
    <3>2. Coupled("closing", timer[e], request[e])
      BY <1>0, <2>6 DEF Coupled
    <3> QED  BY <1>0, <2>1, <2>2, <2>4, <2>6, <3>1, <3>2, Calls DEF Typed
  <2>7. CASE tcp[e] = "closing" /\ UNCHANGED <<app, own, tcp, timer, request>>
    <3>1. /\ tcp' = [tcp EXCEPT ![e] = tcp[e]] /\ timer' = [timer EXCEPT ![e] = timer[e]]
          /\ request' = [request EXCEPT ![e] = request[e]]
      BY <1>0, <2>7 DEF Typed
    <3> QED  BY <1>0, <2>1, <2>2, <2>7, <3>1, ChangesOne
  <2> QED  BY <1>4, <2>5, <2>6, <2>7 DEF onRead
<1>5. CASE onTimer(e)
  <2>1. Books' /\ buffer' = buffer /\ once' = once
    BY <1>0, <1>5, SameBooks DEF onTimer
  <2>2. tcp[e] \in {"inactive", "active", "closing"} /\ timer[e] = "active"
    BY <1>0, <1>5 DEF onTimer, Coupled
  <2>3. app \in {"running", "closed", "destroyed"} /\ ~ once
    BY <2>2, OpenExchange
  <2> DEFINE M == [timer EXCEPT ![e] = "inactive"]
  <2>4. /\ Ended(e) \in [Exchanges -> Handles] /\ Ended(e)[e] = "closing"
        /\ \A f \in Exchanges \ {e} : Ended(e)[f] = tcp[f]
    BY <1>0, <2>2 DEF Ended, Close, Typed, Handles
  <2>5. /\ M \in [Exchanges -> Handles] /\ M[e] = "inactive"
        /\ \A f \in Exchanges \ {e} : M[f] = timer[f]
    BY <1>0 DEF Typed, Handles
  <2>6. Coupled("closing", "inactive", request[e])
    BY <1>0, <2>2 DEF Coupled
  <2>7. onHttpData(Ended(e), M, request)
    BY <1>5 DEF onTimer
  <2>8. buffer'[e] # <<>> => request[e] = "reading"
    BY <1>0, <2>1 DEF Buffers
  <2> HIDE DEF M
  <2> QED  BY <1>0, <2>1, <2>2, <2>3, <2>4, <2>5, <2>6, <2>7, <2>8, Calls DEF Typed
<1>6. CASE onClosed(e)
  <2>1. Books' /\ buffer' = buffer /\ UNCHANGED <<app, once, own>>
    BY <1>0, <1>6, SameBooks DEF onClosed
  <2> DEFINE r == IF request[e] = "reading" THEN "none" ELSE request[e]
  <2>2. /\ tcp[e] = "closing" /\ buffer[e] = <<>> /\ request[e] # "connecting"
        /\ tcp' = [tcp EXCEPT ![e] = "deleted"]
        /\ timer' = [timer EXCEPT ![e] = Close(timer[e])]
        /\ request' = [request EXCEPT ![e] = r]
    BY <1>0, <1>6 DEF onClosed, Typed
  <2>3. Close(timer[e]) = "closing" /\ r \in Requests /\ Coupled("deleted", "closing", r)
    BY <1>0, <2>2 DEF Coupled, Close, Requests
  <2> HIDE DEF r
  <2> QED  BY <1>0, <2>1, <2>2, <2>3, ChangesOne DEF Handles
<1>7. CASE onTimerClosed(e)
  <2>1. Books' /\ buffer' = buffer /\ UNCHANGED <<app, once, own>>
    BY <1>0, <1>7, SameBooks DEF onTimerClosed
  <2>2. /\ timer[e] = "closing" /\ timer' = [timer EXCEPT ![e] = "deleted"]
        /\ tcp' = [tcp EXCEPT ![e] = tcp[e]] /\ request' = [request EXCEPT ![e] = request[e]]
    BY <1>0, <1>7 DEF onTimerClosed, Typed
  <2>3. tcp[e] = "deleted"
    BY <1>0, <2>2 DEF Coupled
  <2>4. Coupled("deleted", "deleted", request[e])
    BY <1>0, <2>3 DEF Coupled
  <2>5. buffer'[e] # <<>> => request[e] = "reading"
    BY <1>0, <2>1 DEF Buffers
  <2> QED  BY <1>0, <2>1, <2>2, <2>3, <2>4, <2>5, ChangesOne DEF Handles
<1> QED  BY <1>1, <1>2, <1>3, <1>4, <1>5, <1>6, <1>7 DEF Callback

-----------------------------------------------------------------------------
LEMMA SettledPool ==
  ASSUME Books, \A e \in Exchanges : buffer[e] = <<>>
  PROVE  Whole /\ DOMAIN m_used = {}
<1>1. DOMAIN m_used = {}
  BY AddressNotEmpty DEF Books, PoolBooks
<1> QED  BY <1>1 DEF Books, Pool, PoolBooks, Whole

LEMMA DestroyedPool ==
  ASSUME Books, \A e \in Exchanges : buffer[e] = <<>>, destroy, buffer' = buffer
  PROVE  Books'
<1>1. m_data' = 0 /\ m_free' = {} /\ m_used' = [p \in {} |-> 0] /\ Chunks' = {}
  BY DEF destroy, Chunks
<1> QED  BY <1>1 DEF Books, Pool, PoolBooks, NoSharedChunk

\* exec() and the steps of the loop and of App.
LEMMA StepStrong ==
  ASSUME Strong, [Next]_vars  PROVE Strong'
<1>0. /\ Typed /\ AppHandles /\ Connections /\ Buffers /\ Books /\ NothingLeft
  BY DEF Strong
<1>1. CASE exec
  <2>1. PICK e \in Exchanges : fetch({e}, tcp, timer, request)
    BY <1>1 DEF exec
  <2>2. tcp[e] = "none" /\ app = "main" /\ app' = "running" /\ buffer' = buffer
        /\ once' = once /\ ~ once
    BY <1>0, <1>1 DEF exec, AppHandles, Unused
  <2>3. /\ tcp' \in [Exchanges -> Handles]
        /\ timer' \in [Exchanges -> Handles]
        /\ request' \in [Exchanges -> Requests]
        /\ Connections'
        /\ \A f \in Exchanges : request[f] = "reading" => request'[f] = "reading"
    <3> DEFINE F == {e}
    <3>1. F \in SUBSET Exchanges /\ (\A f \in F : tcp[f] = "none") /\ fetch(F, tcp, timer, request)
      BY <2>1, <2>2
    <3>2. \A f \in Exchanges : /\ tcp[f] \in Handles /\ timer[f] \in Handles
                              /\ request[f] \in Requests /\ Coupled(tcp[f], timer[f], request[f])
      BY <1>0 DEF Typed, Connections
    <3> HIDE DEF F
    <3> QED  BY <3>1, <3>2, Fetches, ZenonT(60)
  <2>4. Typed' /\ AppHandles'
    BY <1>0, <1>1, <2>2, <2>3 DEF exec, Typed, AppHandles, Stages, Handles
  <2>5. Books'
    BY <1>0, <1>1, SameBooks DEF exec
  <2>6. Buffers' /\ NothingLeft'
    BY <1>0, <2>2, <2>3 DEF Buffers, NothingLeft
  <2> QED  BY <2>3, <2>4, <2>5, <2>6 DEF Strong
<1>2. CASE execOffline
  <2>1. Books'
    BY <1>0, <1>2, SameBooks DEF execOffline, exchange
  <2>2. Typed' /\ AppHandles'
    BY <1>0, <1>2 DEF execOffline, exchange, Typed, AppHandles, Stages, Handles, Close, Unused
  <2>3. Connections' /\ Buffers' /\ NothingLeft'
    BY <1>0, <1>2 DEF execOffline, exchange, Connections, Buffers, NothingLeft
  <2> QED  BY <2>1, <2>2, <2>3 DEF Strong
<1>3. ASSUME app = "running", close, UNCHANGED <<once, exchange, pool>>
      PROVE  Strong'
  <2>1. Books'
    BY <1>0, <1>3, SameBooks DEF exchange
  <2>2. /\ app' = "closed"
        /\ signals' \in [Signals -> Handles] /\ m_tty' \in Handles /\ progress' \in Handles
        /\ \A s \in Signals : signals'[s] \in {"closing", "deleted"}
        /\ m_tty' \in {"none", "closing", "leaking", "leaked", "deleted"}
        /\ progress' \in {"none", "closing", "deleted"}
    BY <1>0, <1>3, Closes
  <2>3. ~ once
    BY <1>0, <1>3 DEF AppHandles
  <2>4. Typed' /\ AppHandles'
    BY <1>0, <1>3, <2>2, <2>3 DEF exchange, Typed, AppHandles, Stages
  <2>5. Connections' /\ Buffers' /\ NothingLeft'
    BY <1>0, <1>3, <2>2 DEF exchange, Connections, Buffers, NothingLeft
  <2> QED  BY <2>1, <2>4, <2>5 DEF Strong
<1>4. CASE onSignal
  <2>1. app = "running"
    BY <1>0, <1>4 DEF onSignal, Typed, AppHandles, Stages
  <2> QED  BY <1>3, <1>4, <2>1 DEF onSignal
<1>5. CASE onConsoleCommand
  <2>1. app = "running"
    BY <1>0, <1>5 DEF onConsoleCommand, Typed, AppHandles, Stages
  <2> QED  BY <1>3, <1>5, <2>1 DEF onConsoleCommand
<1>6. CASE onConsoleEnd
  <2>1. app = "running"
    BY <1>0, <1>6 DEF onConsoleEnd, Typed, AppHandles, Stages
  <2>2. Books'
    BY <1>0, <1>6, SameBooks DEF onConsoleEnd, exchange
  <2>3. Typed' /\ AppHandles'
    BY <1>0, <1>6, <2>1 DEF onConsoleEnd, exchange, Typed, AppHandles, Handles
  <2>4. Connections' /\ Buffers' /\ NothingLeft'
    BY <1>0, <1>6, <2>1 DEF onConsoleEnd, exchange, Connections, Buffers, NothingLeft
  <2> QED  BY <2>2, <2>3, <2>4 DEF Strong
<1>7. CASE \E e \in Exchanges : Callback(e)
  BY <1>7, CallbackStrong
<1>8. CASE onHandleClosed
  <2>1. Books' /\ UNCHANGED <<app, once, tcp, timer, request, buffer>>
    BY <1>0, <1>8, SameBooks DEF onHandleClosed, exchange
  <2>2. app = "closed" \/ (app = "running" /\ m_tty = "leaking" /\ m_tty' = "leaked"
                            /\ UNCHANGED <<signals, progress>>)
    BY <1>0, <1>8 DEF onHandleClosed, AppHandles, AfterClosing
  <2>3. Typed'
    BY <1>0, <1>8, <2>1 DEF onHandleClosed, Typed, Handles, AfterClosing
  <2>4. AppHandles'
    BY <1>0, <1>8, <2>1, <2>2 DEF onHandleClosed, Typed, AppHandles, AfterClosing, Unused
  <2>5. Connections' /\ Buffers' /\ NothingLeft'
    BY <1>0, <2>1, <2>2 DEF Connections, Buffers, NothingLeft
  <2> QED  BY <2>1, <2>3, <2>4, <2>5 DEF Strong
<1>9. CASE uv_run
  <2>1. Books' /\ UNCHANGED <<once, own, tcp, timer, request, buffer>>
    BY <1>0, <1>9, SameBooks DEF uv_run, exchange
  <2>2. \A e \in Exchanges : /\ request[e] = "none"
                            /\ tcp[e] \in {"none", "deleted"}
                            /\ timer[e] \in {"none", "deleted"}
    BY <1>0, <1>9 DEF uv_run, Alive, Pending, Connections, Coupled
  <2>3. \A e \in Exchanges : buffer[e] = <<>>
    BY <1>0, <2>2 DEF Buffers
  <2>4. Whole'
    BY <1>0, <1>9, <2>3, SettledPool DEF uv_run, pool, Whole, Chunks
  <2>5. app = "closed" /\ app' = "left"
    <3>1. app = "running" => \A s \in Signals : signals[s] = "active"
      BY <1>0 DEF AppHandles
    <3> QED  BY <1>9, <3>1, EventLoopAssumption DEF uv_run, Alive, Pending
  <2>6. Typed' /\ AppHandles'
    BY <1>0, <2>1, <2>5 DEF Typed, AppHandles, own, Stages, Unused
  <2>7. /\ \A s \in Signals : signals[s] = "deleted"
        /\ m_tty \in {"none", "leaked", "deleted"}
        /\ progress \in {"none", "deleted"}
    BY <1>0, <1>9, <2>5 DEF uv_run, Alive, Pending, AppHandles
  <2>8. NothingLeft'
    BY <2>1, <2>2, <2>4, <2>7 DEF NothingLeft, own
  <2>9. Connections' /\ Buffers'
    BY <1>0, <2>1 DEF Connections, Buffers
  <2> QED  BY <2>1, <2>6, <2>8, <2>9 DEF Strong
<1>10. CASE uv_run_once
  <2>1. Books' /\ UNCHANGED <<once, progress, tcp, timer, request, buffer>>
    BY <1>0, <1>10, SameBooks DEF uv_run_once, exchange
  <2>2. \A e \in Exchanges : tcp[e] = "none" /\ timer[e] = "none" /\ request[e] = "none"
    BY <1>0, <1>10 DEF uv_run_once, AppHandles, Unused, Connections, Coupled
  <2>3. \A e \in Exchanges : buffer[e] = <<>>
    BY <1>0, <2>2 DEF Buffers
  <2>4. Whole'
    BY <1>0, <1>10, <2>3, SettledPool DEF uv_run_once, pool, Whole, Chunks
  <2>5. app = "closed" /\ app' = "left" /\ once /\ progress = "none"
    BY <1>0, <1>10 DEF uv_run_once, AppHandles
  <2>6. /\ signals' \in [Signals -> Handles]
        /\ \A s \in Signals : signals'[s] = "deleted"
        /\ m_tty' \in {"none", "leaked", "deleted"}
    BY <1>0, <1>10, <2>5 DEF uv_run_once, AppHandles, AfterClosing, Handles
  <2>7. Typed' /\ AppHandles'
    BY <1>0, <2>1, <2>5, <2>6 DEF Typed, AppHandles, Stages, Unused, Handles
  <2>8. NothingLeft'
    BY <2>1, <2>2, <2>4, <2>5, <2>6 DEF NothingLeft
  <2>9. Connections' /\ Buffers'
    BY <1>0, <2>1 DEF Connections, Buffers
  <2> QED  BY <2>1, <2>7, <2>8, <2>9 DEF Strong
<1>11. CASE destroyApp
  <2>1. UNCHANGED <<once, own, tcp, timer, request, buffer>> /\ app = "left"
        /\ app' = "destroyed" /\ destroy
    BY <1>11 DEF destroyApp, exchange
  <2>2. \A e \in Exchanges : tcp[e] \in {"none", "deleted", "leaked"}
    BY <1>0, <2>1 DEF NothingLeft
  <2>3. \A e \in Exchanges : buffer[e] = <<>>
    BY <1>0, <2>2 DEF Buffers, Connections, Coupled
  <2>4. Books'
    BY <1>0, <2>1, <2>3, DestroyedPool
  <2>5. Typed' /\ AppHandles'
    BY <1>0, <2>1 DEF Typed, AppHandles, own, Stages, Unused
  <2>6. Connections' /\ Buffers' /\ NothingLeft'
    BY <1>0, <2>1 DEF Connections, Buffers, NothingLeft
  <2> QED  BY <2>4, <2>5, <2>6 DEF Strong
<1>12. CASE UNCHANGED vars
  <2>1. Books'
    BY <1>0, <1>12, SameBooks DEF vars, exchange
  <2>2. Typed' /\ AppHandles' /\ Connections' /\ Buffers'
    BY <1>0, <1>12 DEF vars, exchange, own, Typed, AppHandles, Connections, Buffers, Unused
  <2>3. NothingLeft'
    BY <1>0, <1>12 DEF vars, exchange, own, pool, NothingLeft, Whole, Chunks
  <2> QED  BY <2>1, <2>2, <2>3 DEF Strong
<1> QED  BY <1>1, <1>2, <1>4, <1>5, <1>6, <1>7, <1>8, <1>9, <1>10, <1>11, <1>12 DEF Next

(***************************************************************************)
(* The invariant holds, for any number of connections and any size of the  *)
(* pool's blocks (src/App.cpp, base/net/tools/MemPool.h).                  *)
(***************************************************************************)
THEOREM Invariance == Spec => []IInv
<1>1. Init => Strong
  BY InitStrong
<1>2. Strong /\ [Next]_vars => Strong'
  BY StepStrong
<1>3. Strong => IInv
  BY StrongIsIInv
<1> QED  BY <1>1, <1>2, <1>3, PTL DEF Spec

(***************************************************************************)
(* No chunk of the pool is ever given to two connections.                  *)
(***************************************************************************)
THEOREM ChunksAreOwned == Spec => []NoSharedChunk
<1>1. IInv => NoSharedChunk
  BY DEF IInv
<1> QED  BY <1>1, Invariance, PTL

(***************************************************************************)
(* No callback finds its object gone, and no object a deleted handle.      *)
(***************************************************************************)
THEOREM CallbacksAreSafe == Spec => []OwnersAlive
<1>1. IInv => OwnersAlive
  BY DEF IInv
<1> QED  BY <1>1, Invariance, PTL

(***************************************************************************)
(* The assertion of NetBuffer::destroy holds, and uv_loop_close succeeds.  *)
(***************************************************************************)
THEOREM CleanExit == Spec => []NothingLeft
<1>1. IInv => NothingLeft
  BY DEF IInv
<1> QED  BY <1>1, Invariance, PTL

(***************************************************************************)
(* uv_run returns only after App::close: the signals keep the loop alive.  *)
(***************************************************************************)
THEOREM WaitsForClose == Spec => LeavesClosed
<1>1. ASSUME Strong, [Next]_vars
      PROVE  [app # "left" /\ app' = "left" => app = "closed"]_vars
  <2>1. CASE \E e \in Exchanges : Callback(e)
    <3>1. PICK e \in Exchanges : Callback(e)
      BY <2>1
    <3>2. app' \in {app, "closed"}
      <4>1. ASSUME NEW T, NEW M, NEW R, onHttpData(T, M, R)  PROVE app' \in {app, "closed"}
        BY <4>1 DEF onHttpData, close
      <4> QED
        BY <3>1, <4>1 DEF Callback, onResolved, onConnect, onAlloc, onRead, onTimer, onClosed,
                          onTimerClosed
    <3> QED  BY <3>2
  <2>2. CASE uv_run
    BY <1>1, <2>2, EventLoopAssumption DEF uv_run, Alive, Pending, Strong, AppHandles
  <2> QED
    BY <1>1, <2>1, <2>2 DEF Next, exec, execOffline, onSignal, onConsoleCommand, onConsoleEnd,
                      close, onHandleClosed, uv_run_once, destroyApp, vars
<1>2. Init => Strong
  BY InitStrong
<1>3. Strong /\ [Next]_vars => Strong'
  BY StepStrong
<1> QED  BY <1>1, <1>2, <1>3, PTL DEF Spec, LeavesClosed

=============================================================================
