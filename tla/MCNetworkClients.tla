-------------------------- MODULE MCNetworkClients --------------------------
(***************************************************************************)
(* An instance of NetworkClients for TLC, with a chain and a nonces file   *)
(* as in MCNetwork.                                                        *)
(***************************************************************************)
EXTENDS NetworkClients

MCNonce == 10..(10 + MaxHeight) \cup {0}

MCChain == [h \in 0..MaxHeight |-> 10 + h]

Beginning(n) == [i \in 1..n |-> MCChain[i - 1]]

MCStored == {<<>>, [Beginning(2) EXCEPT ![2] = 0], Beginning(MaxHeight) \o <<0, 0>>}

=============================================================================
