------------------------------ MODULE Exchange ------------------------------
(***************************************************************************)
(* What one HTTP exchange promises to the object that started it: at most  *)
(* one call with the outcome, none once the listener is gone, and no end   *)
(* without the call while the listener lives.  Module HttpClient is shown  *)
(* to implement it; module Network relies on it.                           *)
(***************************************************************************)
EXTENDS Sequences

CONSTANT Status     \* the outcomes: an HTTP response or a transport error

VARIABLES
  listening,   \* the listener still wants the outcome
  told,        \* the calls it received
  over         \* the exchange is finished, its resources are released

vars == <<listening, told, over>>

Init == listening = TRUE /\ told = <<>> /\ over = FALSE

\* The listener is called.
Tell ==
  /\ listening /\ ~ over
  /\ told = <<>>
  /\ \E s \in Status : told' = <<s>>
  /\ listening' \in BOOLEAN
  /\ UNCHANGED over

\* The listener is destroyed, or needs no further call.
Leave ==
  /\ listening' = FALSE
  /\ UNCHANGED <<told, over>>

End ==
  /\ told # <<>> \/ ~ listening
  /\ over' = TRUE
  /\ UNCHANGED <<listening, told>>

Next == Tell \/ Leave \/ End

Spec == Init /\ [][Next]_vars

=============================================================================
