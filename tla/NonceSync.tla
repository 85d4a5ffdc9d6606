------------------------------ MODULE NonceSync ------------------------------
(***************************************************************************)
(* What one synchronisation promises to the application that starts it:    *)
(* the list of nonces is extended, in one step, with every block it lacks  *)
(* up to the height the daemon reported, or it is not touched at all, and  *)
(* the application hears of exactly one outcome.  How the missing part is  *)
(* put together from ranges requested concurrently is left to module       *)
(* Network, which is shown to implement this one.                          *)
(***************************************************************************)
EXTENDS Naturals, Sequences

CONSTANTS
  MaxHeight,   \* greatest height the daemon may report
  Nonce,       \* the values of a block's nonce
  Stored,      \* the lists that may have been loaded from the file
  Chain,       \* Chain[h] is the nonce of the daemon's block at height h
  Outcomes     \* the outcomes that leave the list alone

VARIABLES
  nonces,      \* the list: the nonce of the block at height h is nonces[h + 1]
  result       \* "running" until the application is told the outcome

vars == <<nonces, result>>

\* A list extended to n blocks with the nonces of the daemon's chain.
Extended(list, n) == [i \in 1..n |-> IF i <= Len(list) THEN list[i] ELSE Chain[i - 1]]

Init ==
  /\ result = "running"
  /\ nonces \in Stored

\* The list grows to the whole chain, up to the reported height.
Complete ==
  /\ result = "running"
  /\ result' = "synced"
  /\ \E h \in 0..MaxHeight :
       /\ Len(nonces) <= h
       /\ nonces' = Extended(nonces, h + 1)

\* The synchronisation ends without a new block.
GiveUp ==
  /\ result = "running"
  /\ result' \in Outcomes
  /\ UNCHANGED nonces

Next == Complete \/ GiveUp

Spec == Init /\ [][Next]_vars

FairSpec == Spec /\ WF_vars(Next)

==============================================================================
