-------------------------------- MODULE MCApp --------------------------------
(***************************************************************************)
(* An instance of App for TLC: the nonce of the block at height h is       *)
(* 10 + h, so that a list with a block at a wrong height shows.            *)
(***************************************************************************)
EXTENDS App

MCNonce == 10..(10 + MaxHeight) \cup {0}

MCChain == [h \in 0..MaxHeight |-> 10 + h]

==============================================================================
