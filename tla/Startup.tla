------------------------------- MODULE Startup -------------------------------
(***************************************************************************)
(* From the command line to the files: src/main.cpp, Process.cpp,          *)
(* Arguments.cpp, Entry.cpp, and where App, Nonces and Heatmap look for    *)
(* their files.  Four files depend on three directories: the one of the    *)
(* executable, the one the program is started in, and --data-dir.          *)
(*                                                                         *)
(* A path is a text like the words of the command line: symbols, among     *)
(* them "/", "=", and one symbol for each option and each name.            *)
(***************************************************************************)
EXTENDS Env
LOCAL INSTANCE SequencesExt

CONSTANTS
  CommandLines,   \* bound: argv
  LongOptions,    \* "--data-dir", "--config", ...: they begin with "--"
  Directories,    \* the directories that exist, by their absolute paths
  ExeDir,         \* the directory of the executable
  StartDir,       \* the directory the program is started in
  ImageNames,     \* bound: "name" in the configuration
  InfoFiles,      \* bound: "info_file" in the configuration, or null
  NoncesFiles,    \* bound: "nonces_file" in the configuration, or null
  Extra           \* Heatmap's variables: WIDTH and so on

VARIABLES
  pc,
  m_data,        \* Arguments::m_data
  dataDir,
  cwd,           \* the working directory of the process
  variables,     \* of Env: none before their first use
  files,         \* the absolute paths of the files, as they are opened
  rc             \* what main() returns without App, or null

vars == <<pc, m_data, dataDir, cwd, variables, files, rc>>

none == [n \in {} |-> null]

Absolute(path) == path # <<>> /\ path[1] = "/"

\* The file that a path names.
Resolve(path) == IF Absolute(path) THEN path ELSE cwd \o <<"/">> \o path

-----------------------------------------------------------------------------
\* Arguments::add: "--key=value" is two words, "-k=value" is one.
add(arg) ==
  LET signs == {i \in DOMAIN arg : arg[i] = "="}
  IN  IF arg # <<>> /\ arg[1] \in LongOptions /\ signs # {}
        THEN LET i == CHOOSE i \in signs : \A j \in signs : i <= j
             IN  <<SubSeq(arg, 1, i - 1), SubSeq(arg, i + 1, Len(arg))>>
        ELSE <<arg>>

hasArg(name) == \E i \in 2..Len(m_data) : m_data[i] = name

\* Arguments::value: the word after the first of the two keys.
ValueIn(words, key1, key2) ==
  LET at == {i \in 2..(Len(words) - 1) : words[i] \in {key1, key2}}
  IN  IF at = {} THEN null ELSE words[(CHOOSE i \in at : \A j \in at : i <= j) + 1]

value(key1, key2) == ValueIn(m_data, key1, key2)

\* Process::location; the other directories are ExeDir or the environment's.
DataLocation == IF dataDir = <<>> THEN ExeDir ELSE dataDir

location(directory, fileName) == directory \o <<"/">> \o fileName

\* createVariables(), of the variables that depend on the process.
VariablesIn(directory, data) ==
  [n \in {<<"XMRIG_EXE_DIR">>, <<"XMRIG_CWD">>, <<"XMRIG_DATA_DIR">>} |->
     CASE n = <<"XMRIG_EXE_DIR">>  -> ExeDir
       [] n = <<"XMRIG_CWD">>      -> directory
       [] n = <<"XMRIG_DATA_DIR">> -> data]

createVariables == VariablesIn(cwd, DataLocation)

\* Env::expand of a text with these and extra variables.
ExpandIn(text, known, extra) == expand(text, Vars(text, known, extra, none))

Expand(text, extra) ==
  ExpandIn(text, IF variables = none THEN createVariables ELSE variables, extra)

\* The variables are created when the first "${...}" is looked up.
Creates(text) == Len(text) >= 4 /\ Matches(text) # {}

-----------------------------------------------------------------------------
Init ==
  /\ pc = "main"
  /\ m_data = <<>>
  /\ dataDir = <<>>
  /\ cwd = StartDir
  /\ variables = none
  /\ files = none
  /\ rc = null

\* setDataDir: it takes effect only if the directory can be entered.
setDataDir_stays(path) ==
  /\ dataDir' = IF path = null THEN dataDir ELSE path
  /\ UNCHANGED cwd

setDataDir(path) ==
  LET dir == IF path # <<>> /\ Last(path) \in {"/", "\\"}
               THEN SubSeq(path, 1, Len(path) - 1) ELSE path
  IN  \/ /\ dir \notin {null, <<>>} /\ Resolve(dir) \in Directories
         /\ dataDir' = dir
         /\ cwd' = Resolve(dir)
      \/ /\ dir \in {null, <<>>} \/ Resolve(dir) \notin Directories
         /\ UNCHANGED <<dataDir, cwd>>

Process ==
  /\ pc = "main"
  /\ \E argv \in CommandLines :
       /\ m_data' = FlattenSeq([i \in DOMAIN argv |-> add(argv[i])])
       /\ setDataDir(ValueIn(m_data', <<"--data-dir">>, <<"-d">>))
  /\ pc' = "entry"
  /\ UNCHANGED <<variables, files, rc>>

\* Entry::get and Entry::exec; built without libsodium, as by default.
Entry ==
  /\ pc = "entry"
  /\ \/ /\ hasArg(<<"-h">>) \/ hasArg(<<"--help">>) \/ hasArg(<<"-V">>) \/ hasArg(<<"--version">>)
        /\ rc' = 0 /\ pc' = "end"
     \/ /\ ~ (hasArg(<<"-h">>) \/ hasArg(<<"--help">>) \/ hasArg(<<"-V">>) \/ hasArg(<<"--version">>))
        /\ hasArg(<<"--gen-key">>)
        /\ rc' = 1 /\ pc' = "end"
     \/ /\ \A option \in {<<"-h">>, <<"--help">>, <<"-V">>, <<"--version">>, <<"--gen-key">>} :
             ~ hasArg(option)
        /\ pc' = "config" /\ UNCHANGED rc
  /\ UNCHANGED <<m_data, dataDir, cwd, variables, files>>

\* App::App and getConfigName; an empty name is no name.
App ==
  /\ pc = "config"
  /\ LET name == value(<<"--config">>, <<"-c">>)
         path == IF name \in {null, <<>>} THEN location(DataLocation, <<"config.json">>) ELSE name
     IN  files' = [n \in {"config"} |-> Resolve(path)]
  /\ pc' = "nonces"
  /\ UNCHANGED <<m_data, dataDir, cwd, variables, rc>>

\* Nonces::load
load ==
  /\ pc = "nonces"
  /\ \E fileName \in NoncesFiles :
       LET empty == fileName = null \/ fileName = <<>>
           path  == IF empty THEN location(DataLocation, <<"nonces.json">>)
                             ELSE Expand(fileName, none)
       IN  /\ variables' = IF ~ empty /\ Creates(fileName) /\ variables = none
                             THEN createVariables ELSE variables
           /\ files' = [n \in {"config", "nonces"} |->
                          IF n = "nonces" THEN Resolve(path) ELSE files[n]]
  /\ pc' = "render"
  /\ UNCHANGED <<m_data, dataDir, cwd, rc>>

\* Heatmap::genName, the image, and Heatmap::saveInfo.
render ==
  /\ pc = "render"
  /\ \E name \in ImageNames, infoFile \in InfoFiles :
       LET m_name == Expand(name, Extra)
           info   == IF infoFile \in {null, <<>>} THEN m_name \o <<".json">> ELSE infoFile
       IN  /\ variables' = IF Creates(name) /\ variables = none
                             THEN createVariables ELSE variables
           /\ files' = [n \in {"config", "nonces", "image", "info"} |->
                          CASE n = "image" -> Resolve(m_name)
                            [] n = "info"  -> Resolve(info)
                            [] OTHER       -> files[n]]
  /\ pc' = "end"
  /\ UNCHANGED <<m_data, dataDir, cwd, rc>>

Next == Process \/ Entry \/ App \/ load \/ render

Spec == Init /\ [][Next]_vars

-----------------------------------------------------------------------------
\* The file is in the directory itself.
Within(file, dir) ==
  /\ Len(dir) < Len(file)
  /\ SubSeq(file, 1, Len(dir) + 1) = dir \o <<"/">>
  /\ \A i \in (Len(dir) + 2)..Len(file) : file[i] # "/"

\* A path that leads there from the directory: a plain name, or one that
\* begins with the directory.
LeadsTo(path, dir) == (\A i \in DOMAIN path : path[i] # "/") \/ Within(path, dir)

\* "--config=" gives no name.
ConfigGiven == value(<<"--config">>, <<"-c">>) \notin {null, <<>>}

(***************************************************************************)
(* With an absolute data directory every file with a relative name is in   *)
(* it, whether the code joins the directory and the name, leaves it to the *)
(* working directory or takes it from a variable; and a variable always    *)
(* has the value it would be given now.                                    *)
(***************************************************************************)
FilesInPlace ==
  /\ Absolute(dataDir) /\ ~ ConfigGiven =>
       \A f \in DOMAIN files : Within(files[f], dataDir)
  /\ variables \in {none, createVariables}

(***************************************************************************)
(* README.md: the working directory can be overridden by --data-dir, so    *)
(* that the configuration is read and written there.                       *)
(***************************************************************************)
ConfigInDataDir ==
  dataDir # <<>> /\ ~ ConfigGiven /\ files # none => Within(files["config"], cwd)

=============================================================================
