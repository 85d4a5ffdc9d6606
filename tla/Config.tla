-------------------------------- MODULE Config --------------------------------
(***************************************************************************)
(* The configuration file, through every reading, rewriting and editing:   *)
(* src/config/Config.cpp, src/Daemon.cpp and src/Job.cpp.  With autosave   *)
(* the program writes back what it has understood, so that a reading that  *)
(* loses something loses it for good.                                      *)
(***************************************************************************)
EXTENDS Integers

CONSTANTS
  WithTls,     \* XMRIG_FEATURE_TLS, OFF by default
  Width16,     \* 2^16: Daemon::m_port is a uint16_t
  IntMax,      \* the greatest int; an unsigned goes on from there
  Port,        \* 18081
  Values       \* Values[key]: the JSON values a user writes for a key

VARIABLES
  file,       \* the document in the file
  settings,   \* what the process has understood of it, while it runs
  phase,      \* "edit", "read", "run" or "saved"
  asked       \* the last value of "offline" that the user wrote is true

vars == <<file, settings, phase, asked>>

\* A JSON value; strings are numbered, 0 is the empty one.
Json(type, value) == [type |-> type, value |-> value]
Absent    == Json("absent", 0)
Null      == Json("null", 0)
Bool(b)   == Json("bool", IF b THEN 1 ELSE 0)
Uint(n)   == Json("uint", n)
Sint(n)   == IF n < 0 THEN Json("int", n) ELSE Uint(n)
Text(n)   == Json("string", n)

\* A String of the program: a number, or nullptr.
nullptr   == -1
Localhost == 100     \* "127.0.0.1"
Heatmap   == 101     \* "heatmap.png"

\* Json::getBool, getUint, getInt and getString: the default for a value
\* that is missing or of another type.  A number above the greatest int is
\* unsigned, and no int.
getBool(v, default) == IF v.type = "bool" THEN v.value = 1 ELSE default
getUint(v, default) == IF v.type = "uint" THEN v.value ELSE default
getInt(v, default)  ==
  IF v.type = "int" \/ (v.type = "uint" /\ v.value <= IntMax) THEN v.value ELSE default
getString(v)        == IF v.type = "string" THEN v.value ELSE nullptr

\* Json::getObject: a member that is not an object reads like an empty one.
IsObject(v) == DOMAIN v # DOMAIN Absent

getObject(v, keys) == IF IsObject(v) THEN v ELSE [key \in keys |-> Absent]

ObjectEmpty(object) == \A key \in DOMAIN object : object[key] = Absent

\* String::toJSON
toJSON(string) == IF string = nullptr THEN Null ELSE Text(string)

AtLeastOne(n) == IF n = 0 THEN 1 ELSE n

-----------------------------------------------------------------------------
DaemonKeys == {"host", "port", "tls", "concurrency", "max_range", "print_time", "timeout"}

\* Daemon::Daemon: an object with any key at all gets other defaults.
Daemon(v) ==
  IF ObjectEmpty(v)
    THEN [host |-> Localhost, port |-> Port, tls |-> FALSE, concurrency |-> 10,
          max_range |-> 1000, print_time |-> 10, timeout |-> 30]
    ELSE [host        |-> getString(v.host),
          port        |-> getUint(v.port, 0) % Width16,
          tls         |-> WithTls /\ getUint(v.tls, 0) # 0,
          concurrency |-> AtLeastOne(getUint(v.concurrency, 10)),
          max_range   |-> AtLeastOne(getUint(v.max_range, 1000)),
          print_time  |-> getUint(v.print_time, 10),
          timeout     |-> AtLeastOne(getUint(v.timeout, 30))]

isValid(daemon) == daemon.host \notin {nullptr, 0} /\ daemon.port > 0

\* With timeout(), in milliseconds, instead of m_timeout.
DaemonJSON_msecs(daemon) ==
  [key \in DaemonKeys |-> CASE key = "host"    -> toJSON(daemon.host)
                            [] key = "tls"     -> Bool(daemon.tls)
                            [] key = "timeout" -> Uint(daemon.timeout * 1000)
                            [] OTHER           -> Uint(daemon[key])]

\* Daemon::toJSON writes every setting, "tls" as a boolean.
DaemonJSON(daemon) ==
  [key \in DaemonKeys |-> CASE key = "host" -> toJSON(daemon.host)
                            [] key = "tls"  -> Bool(daemon.tls)
                            [] OTHER        -> Uint(daemon[key])]

JobKeys == {"name", "info_file", "x", "height", "radius", "start", "end", "min_nonce",
            "max_nonce"}

\* Job::Job
Job(v) ==
  IF ObjectEmpty(v)
    THEN [name |-> Heatmap, info_file |-> nullptr, x |-> 0, height |-> 4096, radius |-> 5,
          start |-> 0, end |-> 0, min_nonce |-> 0, max_nonce |-> 0]
    ELSE [key \in JobKeys |-> CASE key \in {"name", "info_file"} -> getString(v[key])
                               [] key \in {"start", "end"}      -> getInt(v[key], 0)
                               [] OTHER                         -> getUint(v[key], 0)]

\* Job::toJSON
JobJSON(job) ==
  [key \in JobKeys |-> CASE key \in {"name", "info_file"} -> toJSON(job[key])
                         [] key \in {"start", "end"}      -> Sint(job[key])
                         [] OTHER                         -> Uint(job[key])]

\* Config::setVerbose: a level, or true for the first; Log's is 0 before.
setVerbose(v) == IF v.type \in {"bool", "uint"} THEN v.value ELSE 0

\* Config::parse, in a process that has just started.
parse(doc) ==
  [offline     |-> getBool(doc.offline, FALSE),
   autosave    |-> getBool(doc.autosave, TRUE),
   nonces_file |-> getString(doc.nonces_file),
   colors      |-> getBool(doc.colors, TRUE),
   verbose     |-> setVerbose(doc.verbose),
   daemon      |-> Daemon(getObject(doc.daemon, DaemonKeys)),
   heatmap     |-> Job(getObject(doc.heatmap, JobKeys))]

isOffline(config) == config.offline \/ ~ isValid(config.daemon)

\* Config::getJSON writes isOffline(), not m_offline.
getJSON(config) ==
  [offline     |-> Bool(isOffline(config)),
   autosave    |-> Bool(config.autosave),
   nonces_file |-> toJSON(config.nonces_file),
   colors      |-> Bool(config.colors),
   verbose     |-> Uint(config.verbose),
   daemon      |-> DaemonJSON(config.daemon),
   heatmap     |-> JobJSON(config.heatmap)]

-----------------------------------------------------------------------------
\* The file does not exist yet, or is an empty object.
EmptyDocument ==
  [offline |-> Absent, autosave |-> Absent, nonces_file |-> Absent, colors |-> Absent,
   verbose |-> Absent,
   daemon  |-> [key \in DaemonKeys |-> Absent],
   heatmap |-> [key \in JobKeys |-> Absent]]

Init ==
  /\ file = EmptyDocument
  /\ settings = parse(EmptyDocument)
  /\ phase = "edit"
  /\ asked = FALSE

\* The user changes one key of the file while the program is not running.
editOffline ==
  /\ phase = "edit"
  /\ \E v \in Values["offline"] :
       /\ file' = [file EXCEPT !.offline = v]
       /\ asked' = (v = Bool(TRUE))
  /\ UNCHANGED <<settings, phase>>

edit ==
  /\ phase = "edit"
  /\ \/ \E key \in {"autosave", "nonces_file", "colors", "verbose"} :
          \E v \in Values[key] : file' = [file EXCEPT ![key] = v]
     \/ \E key \in DaemonKeys : \E v \in Values[key] :
          file' = [file EXCEPT !.daemon = [getObject(@, DaemonKeys) EXCEPT ![key] = v]]
     \/ \E key \in JobKeys : \E v \in Values[key] :
          file' = [file EXCEPT !.heatmap = [getObject(@, JobKeys) EXCEPT ![key] = v]]
     \/ \E member \in {"daemon", "heatmap"} : file' = [file EXCEPT ![member] = Null]
  /\ UNCHANGED <<settings, phase, asked>>

\* ConfigFile::read
read ==
  /\ phase = "edit"
  /\ settings' = parse(file)
  /\ phase' = "read"
  /\ UNCHANGED <<file, asked>>

\* App::initLog: ConsoleLog switches the colours off, for the file as well,
\* when stdout is not a terminal.
initLog ==
  /\ phase = "read"
  /\ \/ UNCHANGED settings
     \/ settings' = [settings EXCEPT !.colors = FALSE]
  /\ phase' = "run"
  /\ UNCHANGED <<file, asked>>

\* ConfigFile::save, called by App::exec.
save ==
  /\ phase = "run"
  /\ settings.autosave
  /\ file' = getJSON(settings)
  /\ phase' = "saved"
  /\ UNCHANGED <<settings, asked>>

exit ==
  /\ phase = "saved" \/ (phase = "run" /\ ~ settings.autosave)
  /\ phase' = "edit"
  /\ settings' = parse(EmptyDocument)
  /\ UNCHANGED <<file, asked>>

Next == editOffline \/ edit \/ read \/ initLog \/ save \/ exit

Spec == Init /\ [][Next]_vars

-----------------------------------------------------------------------------
(***************************************************************************)
(* The next run does what this one did: what was saved is read back as it  *)
(* was understood, but for "offline", and the next run connects to the     *)
(* daemon if and only if this one did.                                     *)
(***************************************************************************)
ReadsBack ==
  phase = "saved" =>
    /\ [parse(file) EXCEPT !.offline = FALSE] = [settings EXCEPT !.offline = FALSE]
    /\ isOffline(parse(file)) <=> isOffline(settings)

(***************************************************************************)
(* Whatever is in the file, the limits Network divides its work by are     *)
(* positive, and a daemon is contacted only at a port that exists.         *)
(***************************************************************************)
UsableLimits ==
  phase # "edit" =>
    /\ settings.daemon.concurrency >= 1
    /\ settings.daemon.max_range >= 1
    /\ settings.daemon.timeout >= 1
    /\ ~ isOffline(settings) => settings.daemon.port \in 1..(Width16 - 1)

(***************************************************************************)
(* README.md: "offline": true disables the connection to the daemon.  With *)
(* a valid daemon nothing else does.                                       *)
(***************************************************************************)
OfflineWhenAsked ==
  phase = "run" /\ isValid(settings.daemon) /\ isOffline(settings) => asked

(***************************************************************************)
(* README.md: "tls" makes a program built with TLS use it, and the host is *)
(* 127.0.0.1 and the port 18081 by default: what a daemon object with      *)
(* "tls" in it, and no host or port, asks for.                             *)
(***************************************************************************)
TlsDaemon == [EmptyDocument.daemon EXCEPT !.tls = Bool(TRUE)]

DaemonAsDocumented ==
  phase = "run" /\ WithTls /\ file.daemon = TlsDaemon =>
    /\ settings.daemon.host = Localhost
    /\ settings.daemon.port = Port
    /\ settings.daemon.tls

===============================================================================
