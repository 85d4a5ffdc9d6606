--------------------------------- MODULE App ---------------------------------
(***************************************************************************)
(* The life of the process, run after run: src/App.cpp with the files it   *)
(* reads and writes (Config and ConfigFile, Nonces, Json::save, Heatmap).  *)
(*                                                                         *)
(* One run reads the configuration, loads the nonces, rewrites the         *)
(* configuration, lets Network extend the list, saves it, renders it, and  *)
(* leaves the event loop when its last exchange is over.  It can be        *)
(* stopped by a signal, killed between any two steps, and every write can  *)
(* fail.  Network is represented by NonceSync, which it implements.        *)
(***************************************************************************)
EXTENDS Naturals, Sequences

CONSTANTS
  MaxHeight,    \* bound: the greatest height of the daemon's chain
  Nonce,        \* the values of a nonce
  Chain,        \* Chain[h] is the nonce of the daemon's block at height h
  MaxRuns,      \* bound: how often the program is started
  MaxFaults     \* bound: how often it is killed or a write fails

ASSUME AppAssumption ==
  /\ MaxHeight \in Nat
  /\ Chain \in [0..MaxHeight -> Nonce]
  /\ MaxRuns \in Nat
  /\ MaxFaults \in Nat

VARIABLES
  config,      \* the configuration file: its state, and what it says
  file,        \* the nonces file: its state, and the list it holds
  image,       \* the image file: its state, and the list it shows
  phase,       \* what the process does next: see Phases
  m_nonces,    \* Nonces::m_data
  result,      \* the outcome of this run's synchronisation
  open,        \* HTTP exchanges keep the event loop alive
  m_rc,        \* App::m_rc
  rc,          \* how the last run ended: its exit code, or Killed
  runs, faults,\* for the bounds MaxRuns and MaxFaults
  intact       \* no write of this run has failed

process == <<phase, m_nonces, result, open, m_rc, rc>>
vars    == <<config, file, image, process, runs, faults, intact>>

\* Json::save truncates a file and then writes it, and so does the library
\* that writes the image: in between, and after a write that fails, the file
\* is "torn" and can no longer be read.
FileStates == {"absent", "torn", "valid"}

Absent      == [state |-> "absent", list |-> <<>>]
Torn        == [state |-> "torn", list |-> <<>>]
Whole(list) == [state |-> "valid", list |-> list]

Killed == 137

Phases == {"off", "load", "autosave", "autosaving", "start", "sync", "save",
           "saving", "render", "drain"}

Sync == INSTANCE NonceSync WITH
  nonces <- m_nonces,
  Stored <- {<<>>},
  Outcomes <- {"upToDate", "fatal", "closed", "terminated"}

Store == INSTANCE Archive WITH list <- IF file.state = "valid" THEN file.list ELSE <<>>

-----------------------------------------------------------------------------
\* The configuration a user may start with; without a file, the defaults.
Settings == [state : {"valid"}, offline : BOOLEAN, autosave : BOOLEAN]
Defaults == [state |-> "absent", offline |-> FALSE, autosave |-> TRUE]

Init ==
  /\ config \in Settings \cup {Defaults}
  /\ file \in {Absent} \cup {Whole(l) : l \in Store!Beginnings}
  /\ image = Absent
  /\ phase = "off"
  /\ m_nonces = <<>>
  /\ result = "running"
  /\ open = FALSE
  /\ m_rc = 0
  /\ rc = 0
  /\ runs = 0
  /\ faults = 0
  /\ intact = TRUE

\* App::App reads the configuration; a missing file is an empty one.
App ==
  /\ phase = "off"
  /\ runs < MaxRuns
  /\ runs' = runs + 1
  /\ m_nonces' = <<>>
  /\ result' = "running"
  /\ m_rc' = 0
  /\ intact' = TRUE
  /\ \/ config.state = "torn" /\ rc' = 2 /\ UNCHANGED phase
     \/ config.state # "torn" /\ phase' = "load" /\ UNCHANGED rc
  /\ UNCHANGED <<config, file, image, open, faults>>

\* Nonces::load: a file that is missing or does not parse is an empty list.
load_oneMore ==
  /\ phase = "load"
  /\ m_nonces' = IF file.state = "valid" THEN file.list \o <<0>> ELSE <<>>
  /\ phase' = IF config.autosave THEN "autosave" ELSE "start"
  /\ UNCHANGED <<config, file, image, result, open, m_rc, rc, runs, faults, intact>>

load ==
  /\ phase = "load"
  /\ m_nonces' = IF file.state = "valid" THEN file.list ELSE <<>>
  /\ phase' = IF config.autosave THEN "autosave" ELSE "start"
  /\ UNCHANGED <<config, file, image, result, open, m_rc, rc, runs, faults, intact>>

\* A call that writes fails.
Fault ==
  /\ faults < MaxFaults
  /\ faults' = faults + 1
  /\ intact' = FALSE

\* The first half of Json::save: the file is truncated, or cannot be opened,
\* which every caller ignores.
Truncate_forgets(f, torn, writing, next) ==
  /\ f' = torn
  /\ phase' = next
  /\ UNCHANGED <<faults, intact>>

Truncate(f, torn, writing, next) ==
  \/ f' = torn /\ phase' = writing /\ UNCHANGED <<faults, intact>>
  \/ Fault /\ phase' = next /\ UNCHANGED f

\* The second half: what is written arrives, or not all of it, unnoticed.
Write(f, content, next) ==
  /\ phase' = next
  /\ \/ f' = content /\ UNCHANGED <<faults, intact>>
     \/ Fault /\ UNCHANGED f

autosave ==
  /\ phase = "autosave"
  /\ Truncate(config, [config EXCEPT !.state = "torn"], "autosaving", "start")
  /\ UNCHANGED <<file, image, m_nonces, result, open, m_rc, rc, runs>>

autosaveWrite ==
  /\ phase = "autosaving"
  /\ Write(config, [config EXCEPT !.state = "valid"], "start")
  /\ UNCHANGED <<file, image, m_nonces, result, open, m_rc, rc, runs>>

\* The branch of exec(): Network is created only when not offline.
start ==
  /\ phase = "start"
  /\ phase' = IF config.offline THEN "render" ELSE "sync"
  /\ UNCHANGED <<config, file, image, m_nonces, result, open, m_rc, rc, runs, faults, intact>>

\* App::close: Network is gone, but exchanges it opened may not be.
close(code) ==
  /\ m_rc' = code
  /\ phase' = "drain"

onSyncDone_always ==
  /\ phase = "sync"
  /\ Sync!Complete \/ (Sync!GiveUp /\ result' = "upToDate")
  /\ phase' = "save"
  /\ open' \in BOOLEAN
  /\ UNCHANGED <<config, file, image, m_rc, rc, runs, faults, intact>>

onSyncDone_unsaved ==
  /\ phase = "sync"
  /\ Sync!Complete \/ (Sync!GiveUp /\ result' = "upToDate")
  /\ phase' = "render"
  /\ open' \in BOOLEAN
  /\ UNCHANGED <<config, file, image, m_rc, rc, runs, faults, intact>>

onSyncDone ==
  /\ phase = "sync"
  /\ \/ Sync!Complete /\ phase' = "save"
     \/ Sync!GiveUp /\ result' = "upToDate" /\ phase' = "render"
  /\ open' \in BOOLEAN
  /\ UNCHANGED <<config, file, image, m_rc, rc, runs, faults, intact>>

onFatalError ==
  /\ phase = "sync"
  /\ Sync!GiveUp /\ result' = "fatal"
  /\ close(1)
  /\ open' \in BOOLEAN
  /\ UNCHANGED <<config, file, image, rc, runs, faults, intact>>

\* A signal, or Ctrl+C on the console.
onSignal ==
  /\ phase = "sync"
  /\ Sync!GiveUp /\ result' = "closed"
  /\ close(0)
  /\ open' \in BOOLEAN
  /\ UNCHANGED <<config, file, image, rc, runs, faults, intact>>

save ==
  /\ phase = "save"
  /\ Truncate(file, Torn, "saving", "render")
  /\ UNCHANGED <<config, image, m_nonces, result, open, m_rc, rc, runs>>

saveWrite ==
  /\ phase = "saving"
  /\ Write(file, Whole(m_nonces), "render")
  /\ UNCHANGED <<config, image, m_nonces, result, open, m_rc, rc, runs>>

\* Heatmap::render throws for an empty list, for settings that do not fit the
\* list, and when the image cannot be opened.  A write that fails goes
\* unnoticed: lodepng_save_file asks fopen only.
render ==
  /\ phase = "render"
  /\ \/ close(1) /\ UNCHANGED <<image, faults, intact>>
     \/ /\ m_nonces # <<>>
        /\ close(0)
        /\ \/ image' = Whole(m_nonces) /\ UNCHANGED <<faults, intact>>
           \/ Fault /\ image' = Torn
  /\ UNCHANGED <<config, file, m_nonces, result, open, rc, runs>>

\* An exchange ends; its listener is gone.
exchangeOver ==
  /\ phase = "drain"
  /\ open
  /\ open' = FALSE
  /\ UNCHANGED <<config, file, image, phase, m_nonces, result, m_rc, rc, runs, faults, intact>>

exit ==
  /\ phase = "drain"
  /\ ~ open
  /\ phase' = "off"
  /\ rc' = m_rc
  /\ UNCHANGED <<config, file, image, m_nonces, result, open, m_rc, runs, faults, intact>>

killed ==
  /\ phase # "off"
  /\ Fault
  /\ phase' = "off"
  /\ rc' = Killed
  /\ open' = FALSE
  /\ image' \in IF phase = "render" THEN {image, Torn} ELSE {image}
  /\ UNCHANGED <<config, file, m_nonces, result, m_rc, runs>>

Step ==
  \/ load \/ autosave \/ autosaveWrite \/ start
  \/ onSyncDone \/ onFatalError \/ onSignal
  \/ save \/ saveWrite \/ render \/ exchangeOver \/ exit

Next == App \/ Step \/ killed

Spec == Init /\ [][Next]_vars

-----------------------------------------------------------------------------
(***************************************************************************)
(* Type correctness.                                                       *)
(***************************************************************************)
TypeOK ==
  /\ config \in [state : FileStates, offline : BOOLEAN, autosave : BOOLEAN]
  /\ file \in [state : FileStates, list : Store!Beginnings]
  /\ image \in [state : FileStates, list : Store!Beginnings]
  /\ phase \in Phases
  /\ m_nonces \in Store!Beginnings
  /\ result \in {"running", "synced", "upToDate", "fatal", "closed", "terminated"}
  /\ open \in BOOLEAN
  /\ m_rc \in {0, 1}
  /\ rc \in {0, 1, 2, Killed}
  /\ runs \in 0..MaxRuns
  /\ faults \in 0..MaxFaults
  /\ intact \in BOOLEAN

(***************************************************************************)
(* A file that cannot be read is the trace of a kill or of a write that    *)
(* failed, in this run or an earlier one: left alone, the program never    *)
(* leaves one behind, however it ends.                                     *)
(***************************************************************************)
TornByFault ==
  /\ config.state = "torn" => phase = "autosaving" \/ faults > 0
  /\ file.state = "torn" => phase = "saving" \/ faults > 0
  /\ image.state = "torn" => faults > 0

\* What a run has done when App::close(0) follows render().
Done ==
  /\ m_nonces # <<>>
  /\ image \in {Torn, Whole(m_nonces)}
  /\ intact => image = Whole(m_nonces) /\ file = Whole(m_nonces)

(***************************************************************************)
(* What exit code 0 is worth, unless the user stopped the program: there   *)
(* is a list, the image shows all of it, and the nonces file holds all of  *)
(* it - provided that every write of the run succeeded, since none of them *)
(* is looked at (App.cpp:183, lodepng_save_file).  An image that does not  *)
(* show the list can then not be read at all: it is never an earlier one.  *)
(***************************************************************************)
ExitStatus == phase = "off" /\ runs > 0 /\ rc = 0 => result = "closed" \/ Done

(***************************************************************************)
(* What the process holds in memory compared with the nonces file: the     *)
(* same list until it is extended, a longer one when it is to be saved,    *)
(* the same one again when the image is drawn, if writes succeed.          *)
(***************************************************************************)
Loaded ==
  /\ phase \in {"autosave", "autosaving", "start", "sync"} =>
       m_nonces = IF file.state = "valid" THEN file.list ELSE <<>>
  /\ phase = "save" /\ file.state = "valid" => Len(file.list) < Len(m_nonces)
  /\ phase = "saving" => file.state = "torn"
  /\ phase = "render" /\ intact /\ m_nonces # <<>> => file = Whole(m_nonces)
  /\ file.state # "valid" => file.list = <<>>

Leaving == phase = "drain" /\ m_rc = 0 => result = "closed" \/ Done

IInv == TypeOK /\ TornByFault /\ ExitStatus /\ Loaded /\ Leaving

(***************************************************************************)
(* A readable nonces file is given up only for a longer list: every step   *)
(* that changes it is taken by a process whose list extends it.            *)
(***************************************************************************)
NeverForLess ==
  [][file.state = "valid" /\ file' # file => Len(file.list) < Len(m_nonces)]_vars

(***************************************************************************)
(* Runs, crashes and failed writes implement the archive.                  *)
(***************************************************************************)
Implements == Store!Spec

=============================================================================
