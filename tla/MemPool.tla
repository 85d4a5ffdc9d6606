------------------------------- MODULE MemPool -------------------------------
(***************************************************************************)
(* The pool of read buffers: src/base/net/tools/MemPool.h, of which        *)
(* NetBuffer keeps one for all connections.  Memory comes in blocks of     *)
(* InitSize chunks; a chunk is known to the pool by its number and to its  *)
(* user by its address.                                                    *)
(***************************************************************************)
EXTENDS Integers

CONSTANT InitSize    \* XMRIG_NET_BUFFER_INIT_CHUNKS

ASSUME MemPoolAssumption == InitSize \in Nat \ {0}

VARIABLES
  m_data,    \* the number of blocks
  m_free,    \* the numbers of the chunks nobody uses
  m_used     \* the number of every chunk in use, by its address

pool == <<m_data, m_free, m_used>>

Chunks == 0..(m_data * InitSize - 1)

\* Where chunk i lies: its block, and its place in it.
Address(i) == LET r == i \div InitSize IN <<r, i - r * InitSize>>

PoolInit == m_data = 0 /\ m_free = {} /\ m_used = [p \in {} |-> 0]

resize_overlap == [blocks |-> m_data + 1,
                   free   |-> {m_data * InitSize - m_data + i : i \in 0..(InitSize - 1)}]

resize == [blocks |-> m_data + 1,
           free   |-> {m_data * InitSize + i : i \in 0..(InitSize - 1)}]

\* The free chunks once there is one.
Available == IF m_free = {} THEN resize ELSE [blocks |-> m_data, free |-> m_free]

\* The chunk allocate() hands out, and its address.
Lowest == CHOOSE i \in Available.free : \A j \in Available.free : i <= j
Handed == Address(Lowest)

\* std::map::insert leaves the entry of an address that is there alone.
allocate ==
  /\ m_data' = Available.blocks
  /\ m_free' = Available.free \ {Lowest}
  /\ m_used' = [p \in DOMAIN m_used \cup {Handed} |->
                  IF p \in DOMAIN m_used THEN m_used[p] ELSE Lowest]

\* In a build without assertions operator[] makes an address nobody was
\* given the address of chunk 0.
deallocate(ptr) ==
  /\ m_free' = m_free \cup {IF ptr \in DOMAIN m_used THEN m_used[ptr] ELSE 0}
  /\ m_used' = [p \in DOMAIN m_used \ {ptr} |-> m_used[p]]
  /\ UNCHANGED m_data

\* NetBuffer::destroy, whose assertion compares sizes.
Whole == m_free = Chunks

destroy ==
  /\ m_data' = 0
  /\ m_free' = {}
  /\ m_used' = [p \in {} |-> 0]

=============================================================================
