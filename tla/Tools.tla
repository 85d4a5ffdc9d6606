--------------------------------- MODULE Tools ---------------------------------
(***************************************************************************)
(* The components that work alone, each with variables of its own, what is *)
(* assumed of their constants, and what each promises.                     *)
(***************************************************************************)
EXTENDS Integers, Sequences

CONSTANTS
  ToLower, Messages,                 \* of HttpHeaders
  Objects, Texts, Cased, Sep,        \* of Strings
  kMaxBufferSize, Formatted,         \* of Log
  WithTls, Width16, IntMax, Port, Values,    \* of Config
  Answers, port,                     \* of Dns
  Files,                             \* of ParseError
  CommandLines, LongOptions, Directories, ExeDir, StartDir,
  ImageNames, InfoFiles, NoncesFiles, Extra, Rank    \* of Startup

VARIABLES
  message, section, index, part, offset, m_wasHeaderValue,
  m_lastHeaderField, m_lastHeaderValue, headers,
  alive, m_data, m_size, heap,
  d, m_colors, m_verbose, printed, m_buf, out,
  file, settings, phase, asked,
  resolver, m_status, m_ipv4, m_ipv6, answer, peer,
  json, errorOffset, lastLine, charsRead, linesRead, column, context, search, logged,
  pc, words, dataDir, cwd, variables, files, rc

headersVars == <<message, section, index, part, offset, m_wasHeaderValue,
                 m_lastHeaderField, m_lastHeaderValue, headers>>
stringsVars == <<alive, m_data, m_size, heap>>
logVars     == <<d, m_colors, m_verbose, printed, m_buf, out>>
configVars  == <<file, settings, phase, asked>>
dnsVars     == <<resolver, m_status, m_ipv4, m_ipv6, answer, peer>>
errorVars   == <<json, errorOffset, lastLine, charsRead, linesRead, column, context, search, logged>>
startupVars == <<pc, words, dataDir, cwd, variables, files, rc>>

H == INSTANCE HttpHeaders
S == INSTANCE Strings
L == INSTANCE Log
G == INSTANCE Config
D == INSTANCE Dns
X == INSTANCE ParseError WITH
  text <- json, offset <- errorOffset, t <- lastLine, k <- charsRead, line <- linesRead,
  pos <- column, s <- context, result <- search
P == INSTANCE Startup WITH m_data <- words

-----------------------------------------------------------------------------
(* The parser accepts no header without a name; a value may be empty.      *)
Characters == DOMAIN ToLower

ASSUME HeadersAssumption ==
  \A m \in Messages : \A lines \in {m.headers, m.trailers} :
    /\ lines \in Seq([name : Seq(Characters), value : Seq(Characters)])
    /\ \A i \in DOMAIN lines : lines[i].name # <<>>

Letters == (UNION {{t[i] : i \in DOMAIN t} : t \in Texts})
             \cup (UNION {{q[1], q[2]} : q \in Cased}) \cup {Sep}

ASSUME StringsAssumption == \A t \in Texts : t \in Seq(Letters)

(* There is room for a timestamp, a colour and the end of the line, and    *)
(* for the 32 characters that print() leaves free.                         *)
Printable == UNION {{t[i] : i \in DOMAIN t} : t \in Formatted}

ASSUME LogAssumption ==
  /\ kMaxBufferSize \in Nat /\ kMaxBufferSize > 32 + Len(L!timestamp("INFO"))
  /\ \A t \in Formatted : t \in Seq(Printable)

(* A JSON value that is no object, with strings as numbers.                *)
Scalar(v) ==
  \/ v \in {G!Bool(TRUE), G!Bool(FALSE)}
  \/ v.value \in Nat /\ v \in {G!Uint(v.value), G!Text(v.value)}
  \/ v.value \in Int /\ v = G!Sint(v.value)

Keys == {"offline", "autosave", "nonces_file", "colors", "verbose"} \cup G!DaemonKeys \cup G!JobKeys

ASSUME ConfigAssumption ==
  /\ WithTls \in BOOLEAN
  /\ IntMax \in Nat
  /\ Width16 \in Nat \ {0} /\ Port \in 1..(Width16 - 1)
  /\ \A key \in Keys : \A v \in Values[key] : Scalar(v)

FileCharacters == UNION {{t[i] : i \in DOMAIN t} : t \in Files}

ASSUME FilesAssumption == \A t \in Files : t \in Seq(FileCharacters)

(* The names in the settings are plain, or lead to the data directory by a *)
(* variable: a file that was put elsewhere is elsewhere.                   *)
PathsIn(dir) ==
  {P!ExpandIn(f, P!VariablesIn(dir, dir), P!none) : f \in NoncesFiles}
    \cup {P!ExpandIn(name, P!VariablesIn(dir, dir), Extra) : name \in ImageNames}
    \cup InfoFiles

PathSymbols ==
  {"/", "config.json", "nonces.json", ".json"}
    \cup UNION {{path[i] : i \in DOMAIN path} :
                  path \in Directories \cup UNION {PathsIn(dir) : dir \in Directories}}

ASSUME StartupAssumption ==
  \A dir \in Directories :
    /\ dir \in Seq(PathSymbols)
    /\ \A path \in PathsIn(dir) : path \in Seq(PathSymbols) /\ P!LeadsTo(path, dir)

-----------------------------------------------------------------------------
(***************************************************************************)
(* Whatever pieces the parser reports the headers in, the first line of    *)
(* every name is kept as it was, and nothing else is (HttpContext.cpp).    *)
(***************************************************************************)
HeadersKept == H!HeadersExact /\ H!NothingMadeUp

(***************************************************************************)
(* Every buffer belongs to one String, and a String is a value             *)
(* (String.cpp).                                                           *)
(***************************************************************************)
StringsAreValues == [][S!Owned' /\ S!ValueStep]_stringsVars

(***************************************************************************)
(* A line of the log is whole and stays in the buffer (Log.cpp).           *)
(***************************************************************************)
LinesShown == L!InBuffer /\ L!LineShown

(***************************************************************************)
(* The files are in the data directory (Process.cpp).                      *)
(***************************************************************************)
DataDirectoryKept == P!FilesInPlace

(***************************************************************************)
(* README.md: --data-dir is where the configuration is (Process.cpp).      *)
(***************************************************************************)
ConfigurationFound == P!ConfigInDataDir

(***************************************************************************)
(* The next run understands the settings as this one did, and whatever the *)
(* file says, they can be used (Config.cpp, Daemon.cpp).                   *)
(***************************************************************************)
SettingsKept == G!ReadsBack /\ G!UsableLimits

(***************************************************************************)
(* README.md: only "offline": true disables the daemon (Config.cpp).       *)
(***************************************************************************)
OfflineIfAsked == G!OfflineWhenAsked

(***************************************************************************)
(* README.md: the defaults of a daemon, and "tls" (Daemon.cpp).            *)
(***************************************************************************)
DaemonDocumented == G!DaemonAsDocumented

(***************************************************************************)
(* An address that is connected to is one of the answer (Dns.cpp).         *)
(***************************************************************************)
AddressFound == D!AddressUsable

(***************************************************************************)
(* An error in the configuration is shown where it is (Json.cpp,           *)
(* ConfigFile.cpp).                                                        *)
(***************************************************************************)
ErrorShown == X!ErrorLocated

================================================================================
