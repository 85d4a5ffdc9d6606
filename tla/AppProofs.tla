------------------------------ MODULE AppProofs ------------------------------
(***************************************************************************)
(* Theorems about module App, for any chain and any number of runs, kills  *)
(* and failed writes.                                                      *)
(***************************************************************************)
EXTENDS App, TLAPS

LEMMA BeginningLen ==
  ASSUME NEW n \in Nat
  PROVE  Len(Store!Beginning(n)) = n
BY DEF Store!Beginning

LEMMA BeginningsLen ==
  ASSUME NEW list \in Store!Beginnings
  PROVE  /\ Len(list) \in 0..(MaxHeight + 1)
         /\ list = Store!Beginning(Len(list))
<1>1. PICK n \in 0..(MaxHeight + 1) : list = Store!Beginning(n)
  BY DEF Store!Beginnings
<1>2. n \in Nat
  BY AppAssumption
<1> QED  BY <1>1, <1>2, BeginningLen

LEMMA EmptyIsBeginning == <<>> \in Store!Beginnings /\ Len(<<>>) = 0
<1>1. Store!Beginning(0) = <<>>
  BY DEF Store!Beginning
<1>2. 0 \in 0..(MaxHeight + 1)
  BY AppAssumption
<1> QED  BY <1>1, <1>2 DEF Store!Beginnings

\* A synchronisation extends a beginning of the chain to a longer one.
LEMMA SyncGrows ==
  ASSUME m_nonces \in Store!Beginnings, Sync!Complete
  PROVE  m_nonces' \in Store!Beginnings /\ Len(m_nonces) < Len(m_nonces')
<1>1. PICK h \in 0..MaxHeight : Len(m_nonces) <= h /\ m_nonces' = Sync!Extended(m_nonces, h + 1)
  BY DEF Sync!Complete
<1>2. h \in Nat /\ h + 1 \in 0..(MaxHeight + 1)
  BY AppAssumption
<1>3. /\ Len(m_nonces) \in Nat
      /\ m_nonces = [i \in 1..Len(m_nonces) |-> Chain[i - 1]]
  BY BeginningsLen, AppAssumption DEF Store!Beginning
<1>4. m_nonces' = Store!Beginning(h + 1)
  <2>1. ASSUME NEW i \in 1..(h + 1), i <= Len(m_nonces)
        PROVE  m_nonces[i] = Chain[i - 1]
    BY <1>2, <1>3, <2>1
  <2> QED  BY <1>1, <1>2, <2>1 DEF Sync!Extended, Store!Beginning
<1>5. Len(m_nonces') = h + 1
  BY <1>2, <1>4, BeginningLen
<1> QED  BY <1>1, <1>2, <1>3, <1>4, <1>5 DEF Store!Beginnings

LEMMA InitInv == Init => IInv
BY EmptyIsBeginning, AppAssumption DEF Init, IInv, TypeOK, TornByFault, ExitStatus, Loaded,
  Leaving, Settings, Defaults, FileStates, Phases, Killed, Absent, Whole

\* Whatever fails stays within the bound; what is written is a file.
LEMMA FaultCounts ==
  ASSUME faults \in 0..MaxFaults, Fault
  PROVE  faults' \in 0..MaxFaults /\ faults' > 0 /\ intact' = FALSE
BY AppAssumption DEF Fault

Files == [state : FileStates, list : Store!Beginnings]

LEMMA FilesWritten ==
  /\ Torn \in Files
  /\ \A list \in Store!Beginnings : Whole(list) \in Files
BY EmptyIsBeginning DEF Files, FileStates, Torn, Whole

LEMMA ConfigWritten ==
  ASSUME config \in [state : FileStates, offline : BOOLEAN, autosave : BOOLEAN],
         NEW state \in FileStates
  PROVE  [config EXCEPT !.state = state]
           \in [state : FileStates, offline : BOOLEAN, autosave : BOOLEAN]
OBVIOUS

LEMMA StepInv == IInv /\ [Next]_vars => IInv'
<1> SUFFICES ASSUME IInv, [Next]_vars
             PROVE  IInv'
  OBVIOUS
<1> USE AppAssumption DEF IInv, TypeOK, TornByFault, ExitStatus, Loaded, Leaving, Phases,
  FileStates, Killed, Done, Torn, Whole, Fault
<1>1. CASE App
  BY <1>1, EmptyIsBeginning DEF App
<1>2. CASE load
  <2>1. TypeOK'
    BY <1>2, EmptyIsBeginning DEF load
  <2>2. TornByFault'
    BY <1>2, EmptyIsBeginning DEF load
  <2>3. ExitStatus'
    BY <1>2, EmptyIsBeginning DEF load
  <2>4. Loaded'
    BY <1>2, EmptyIsBeginning DEF load
  <2>5. Leaving'
    BY <1>2, EmptyIsBeginning DEF load
  <2> QED  BY <2>1, <2>2, <2>3, <2>4, <2>5
<1>3. CASE autosave
  <2>1. TypeOK'
    <3>1. faults' \in 0..MaxFaults /\ intact' \in BOOLEAN
      <4> HIDE DEF Fault
      <4> QED  BY <1>3, FaultCounts DEF autosave, Truncate
    <3>2. config' \in [state : FileStates, offline : BOOLEAN, autosave : BOOLEAN]
      BY <1>3, ConfigWritten DEF autosave, Truncate
    <3> HIDE DEF Fault, Torn, Whole, FileStates
    <3> QED  BY <1>3, <3>1, <3>2 DEF autosave, Truncate
  <2>2. TornByFault'
    BY <1>3 DEF autosave, Truncate
  <2>3. ExitStatus'
    BY <1>3 DEF autosave, Truncate
  <2>4. Loaded'
    BY <1>3 DEF autosave, Truncate
  <2>5. Leaving'
    BY <1>3 DEF autosave, Truncate
  <2> QED  BY <2>1, <2>2, <2>3, <2>4, <2>5
<1>4. CASE autosaveWrite
  <2>1. TypeOK'
    <3>1. faults' \in 0..MaxFaults /\ intact' \in BOOLEAN
      <4> HIDE DEF Fault
      <4> QED  BY <1>4, FaultCounts DEF autosaveWrite, Write
    <3>2. config' \in [state : FileStates, offline : BOOLEAN, autosave : BOOLEAN]
      BY <1>4, ConfigWritten DEF autosaveWrite, Write
    <3> HIDE DEF Fault, Torn, Whole, FileStates
    <3> QED  BY <1>4, <3>1, <3>2 DEF autosaveWrite, Write
  <2>2. TornByFault'
    BY <1>4 DEF autosaveWrite, Write
  <2>3. ExitStatus'
    BY <1>4 DEF autosaveWrite, Write
  <2>4. Loaded'
    BY <1>4 DEF autosaveWrite, Write
  <2>5. Leaving'
    BY <1>4 DEF autosaveWrite, Write
  <2> QED  BY <2>1, <2>2, <2>3, <2>4, <2>5
<1>5. CASE start
  BY <1>5 DEF start
<1>6. CASE onFatalError
  BY <1>6 DEF onFatalError, close, Sync!GiveUp
<1>7. CASE onSignal
  BY <1>7 DEF onSignal, close, Sync!GiveUp
<1>8. CASE save
  <2>1. TypeOK'
    <3>1. faults' \in 0..MaxFaults /\ intact' \in BOOLEAN
      <4> HIDE DEF Fault
      <4> QED  BY <1>8, FaultCounts DEF save, Truncate
    <3>2. file' \in [state : FileStates, list : Store!Beginnings]
      BY <1>8, FilesWritten DEF save, Truncate, Files
    <3> HIDE DEF Fault, Torn, Whole, FileStates
    <3> QED  BY <1>8, <3>1, <3>2 DEF save, Truncate
  <2>2. TornByFault'
    BY <1>8, EmptyIsBeginning DEF save, Truncate
  <2>3. ExitStatus'
    BY <1>8, EmptyIsBeginning DEF save, Truncate
  <2>4. Loaded'
    BY <1>8, EmptyIsBeginning DEF save, Truncate
  <2>5. Leaving'
    BY <1>8, EmptyIsBeginning DEF save, Truncate
  <2> QED  BY <2>1, <2>2, <2>3, <2>4, <2>5
<1>9. CASE saveWrite
  <2>1. TypeOK'
    <3>1. faults' \in 0..MaxFaults /\ intact' \in BOOLEAN
      <4> HIDE DEF Fault
      <4> QED  BY <1>9, FaultCounts DEF saveWrite, Write
    <3>2. file' \in [state : FileStates, list : Store!Beginnings]
      BY <1>9, FilesWritten DEF saveWrite, Write, Files
    <3> HIDE DEF Fault, Torn, Whole, FileStates
    <3> QED  BY <1>9, <3>1, <3>2 DEF saveWrite, Write
  <2>2. TornByFault'
    BY <1>9 DEF saveWrite, Write
  <2>3. ExitStatus'
    BY <1>9 DEF saveWrite, Write
  <2>4. Loaded'
    BY <1>9 DEF saveWrite, Write
  <2>5. Leaving'
    BY <1>9 DEF saveWrite, Write
  <2> QED  BY <2>1, <2>2, <2>3, <2>4, <2>5
<1>10. CASE render
  <2>1. TypeOK'
    <3>1. faults' \in 0..MaxFaults /\ intact' \in BOOLEAN
      <4> HIDE DEF Fault
      <4> QED  BY <1>10, FaultCounts DEF render, close
    <3>2. image' \in [state : FileStates, list : Store!Beginnings]
      BY <1>10, FilesWritten DEF render, close, Files
    <3> HIDE DEF Fault, Torn, Whole, FileStates
    <3> QED  BY <1>10, <3>1, <3>2 DEF render, close
  <2>2. TornByFault'
    BY <1>10, EmptyIsBeginning DEF render, close
  <2>3. ExitStatus'
    BY <1>10, EmptyIsBeginning DEF render, close
  <2>4. Loaded'
    BY <1>10, EmptyIsBeginning DEF render, close
  <2>5. Leaving'
    BY <1>10, EmptyIsBeginning DEF render, close
  <2> QED  BY <2>1, <2>2, <2>3, <2>4, <2>5
<1>11. CASE exchangeOver
  BY <1>11 DEF exchangeOver
<1>12. CASE exit
  BY <1>12 DEF exit
<1>13. CASE killed
  <2>1. TypeOK'
    BY <1>13, EmptyIsBeginning DEF killed
  <2>2. TornByFault'
    BY <1>13, EmptyIsBeginning DEF killed
  <2>3. ExitStatus'
    BY <1>13, EmptyIsBeginning DEF killed
  <2>4. Loaded'
    BY <1>13, EmptyIsBeginning DEF killed
  <2>5. Leaving'
    BY <1>13, EmptyIsBeginning DEF killed
  <2> QED  BY <2>1, <2>2, <2>3, <2>4, <2>5
<1>14. CASE UNCHANGED vars
  BY <1>14 DEF vars, process
<1>15. CASE onSyncDone
  <2>1. CASE Sync!Complete /\ phase' = "save"
    BY <1>15, <2>1, SyncGrows DEF onSyncDone, Sync!Complete
  <2>2. CASE Sync!GiveUp /\ result' = "upToDate" /\ phase' = "render"
    BY <1>15, <2>2 DEF onSyncDone, Sync!GiveUp
  <2> QED  BY <1>15, <2>1, <2>2 DEF onSyncDone
<1> QED
  BY <1>1, <1>2, <1>3, <1>4, <1>5, <1>6, <1>7, <1>8, <1>9, <1>10, <1>11,
    <1>12, <1>13, <1>14, <1>15 DEF Next, Step

(***************************************************************************)
(* The inductive invariant: all of the following are parts of it or follow *)
(* from it.                                                                *)
(***************************************************************************)
THEOREM Invariant == Spec => []IInv
BY InitInv, StepInv, PTL DEF Spec

(***************************************************************************)
(* However often the program runs, a file that cannot be read is the trace *)
(* of a kill or of a failed write.                                         *)
(***************************************************************************)
THEOREM OnlyFaultsTear == Spec => []TornByFault
<1>1. IInv => TornByFault  BY DEF IInv
<1> QED  BY <1>1, Invariant, PTL

(***************************************************************************)
(* Exit code 0 means an image and a nonces file of the whole list, as far  *)
(* as what was written in the run arrived, or a user who stopped it.       *)
(***************************************************************************)
THEOREM HonestExitStatus == Spec => []ExitStatus
<1>1. IInv => ExitStatus  BY DEF IInv
<1> QED  BY <1>1, Invariant, PTL

-----------------------------------------------------------------------------
\* Only the truncation of Nonces::save changes a readable nonces file.
LEMMA FileKept ==
  ASSUME IInv, [Next]_vars, file.state = "valid", file' # file
  PROVE  save
BY DEF Next, Step, App, load, autosave, Truncate, autosaveWrite, Write, start, onSyncDone,
  onFatalError, onSignal, saveWrite, render, exchangeOver, exit, killed, vars, IInv, Loaded

LEMMA StepNeverForLess ==
  ASSUME IInv, [Next]_vars, file.state = "valid", file' # file
  PROVE  Len(file.list) < Len(m_nonces)
BY FileKept DEF save, IInv, Loaded

(***************************************************************************)
(* A readable nonces file is given up only for a longer list.              *)
(***************************************************************************)
THEOREM GivenUpForMore == Spec => NeverForLess
<1>1. IInv /\ [Next]_vars =>
        [file.state = "valid" /\ file' # file => Len(file.list) < Len(m_nonces)]_vars
  BY StepNeverForLess
<1> QED  BY <1>1, Invariant, PTL DEF Spec, NeverForLess

-----------------------------------------------------------------------------
Readable == IF file.state = "valid" THEN file.list ELSE <<>>

LEMMA InitRefines == Init => Store!Init
BY EmptyIsBeginning DEF Init, Absent, Whole, Store!Init

LEMMA StepRefines == IInv /\ [Next]_vars => [Store!Next]_Readable
<1> SUFFICES ASSUME IInv, [Next]_vars, file' # file
             PROVE  Store!Next \/ UNCHANGED Readable
  BY DEF Readable
<1>1. CASE file.state = "valid"
  <2>1. file' = Torn
    BY <1>1, FileKept DEF save, Truncate
  <2> QED  BY <2>1 DEF Torn, Store!Next, Store!Lose
<1>2. CASE file.state # "valid"
  <2>1. save \/ saveWrite
    BY <1>2 DEF Next, Step, App, load, autosave, Truncate, autosaveWrite, Write, start,
      onSyncDone, onFatalError, onSignal, render, exchangeOver, exit, killed, vars
  <2>2. CASE save
    BY <1>2, <2>2 DEF save, Truncate, Torn, Readable
  <2>3. CASE saveWrite
    <3>1. file' = Whole(m_nonces)
      BY <2>3 DEF saveWrite, Write
    <3>2. Readable = <<>> /\ Readable' = m_nonces /\ m_nonces \in Store!Beginnings
      BY <1>2, <3>1 DEF Readable, Whole, IInv, TypeOK
    <3>3. m_nonces = <<>> \/ Len(m_nonces) > 0
      BY <3>2, BeginningsLen, AppAssumption DEF Store!Beginning
    <3> QED  BY <3>2, <3>3, EmptyIsBeginning DEF Store!Next, Store!Grow, Readable
  <2> QED  BY <2>1, <2>2, <2>3
<1> QED  BY <1>1, <1>2

(***************************************************************************)
(* Runs, kills and failed writes implement Archive: a reader of the nonces *)
(* file gets a beginning of the chain or nothing, and never a shorter one. *)
(***************************************************************************)
THEOREM Refinement == Spec => Implements
<1>1. Spec => Store!Spec
  BY InitRefines, StepRefines, Invariant, PTL DEF Spec, Store!Spec, Readable
<1> QED  BY <1>1 DEF Implements

=============================================================================
