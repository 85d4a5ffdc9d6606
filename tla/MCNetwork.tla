----------------------------- MODULE MCNetwork -----------------------------
(***************************************************************************)
(* Instances of Network for TLC.  Every block has a nonce of its own, so   *)
(* that a header stored at a wrong height shows.  Besides the beginnings   *)
(* of the chain, the nonces file may hold a block that the daemon has      *)
(* replaced since, or more blocks than the daemon knows.                   *)
(***************************************************************************)
EXTENDS Network

MCNonce == 10..(10 + MaxHeight) \cup {0}

MCChain == [h \in 0..MaxHeight |-> 10 + h]

Beginning(n) == [i \in 1..n |-> MCChain[i - 1]]

Stale == [Beginning(2) EXCEPT ![2] = 0]

MCStored ==
  {Beginning(n) : n \in 0..3} \cup {Stale, Beginning(MaxHeight) \o <<0, 0>>}

=============================================================================
