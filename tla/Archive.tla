------------------------------- MODULE Archive -------------------------------
(***************************************************************************)
(* What the nonces file promises across any number of runs, crashes and    *)
(* failed writes: whoever can read it reads the beginning of the chain.    *)
(* It may be lost as a whole, and it grows, but it never becomes shorter   *)
(* and never holds anything else.  Module App is shown to implement it.    *)
(***************************************************************************)
EXTENDS Naturals, Sequences

CONSTANTS
  MaxHeight,   \* the greatest height of the chain
  Chain        \* Chain[h] is the nonce of the block at height h

VARIABLE list  \* what a reader of the file gets, <<>> when it is unreadable

Beginning(n) == [i \in 1..n |-> Chain[i - 1]]

Beginnings == {Beginning(n) : n \in 0..(MaxHeight + 1)}

Init == list \in Beginnings

Lose == list' = <<>>

Grow == list' \in Beginnings /\ Len(list') > Len(list)

Next == Lose \/ Grow

Spec == Init /\ [][Next]_list

==============================================================================
