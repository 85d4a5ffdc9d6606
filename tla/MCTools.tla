------------------------------- MODULE MCTools -------------------------------
(***************************************************************************)
(* An instance for TLC of the components that work alone, one after        *)
(* another: each behaviour is one of "component".  The variables of the    *)
(* others are at rest.                                                     *)
(***************************************************************************)
EXTENDS Tools, TLC

VARIABLES
  component,   \* the one that runs
  input        \* of Env and Cvt, which keep no state

-----------------------------------------------------------------------------
AtMost(n, T) == UNION {[1..k -> T] : k \in 0..n}

(* HttpHeaders: names that differ in case only, a name that is the         *)
(* beginning of another, and an empty value.                               *)
MCToLower == ("A" :> "a") @@ ("a" :> "a") @@ ("b" :> "b")

HeaderLines == [name : {<<"A", "b">>, <<"a", "b">>, <<"a">>}, value : {<<>>, <<"b">>, <<"a", "b">>}]

MCMessages == [headers : AtMost(2, HeaderLines), trailers : AtMost(1, HeaderLines)]

(* Strings: texts with separators, with letters of both cases, and with a  *)
(* NUL.                                                                    *)
MCTexts ==
  {<<>>, <<"a">>, <<"A", "b">>, <<"a", "NUL">>, <<",", "a">>, <<"a", ",", "b">>, <<",">>}

MCCased == {<<"a", "A">>, <<"b", "B">>}

(* Log: a buffer in which lines with and without a timestamp, with and     *)
(* without colours, end before, at and after its limit.                    *)
Run(n, c) == [i \in 1..n |-> c]

MCFormatted == {Run(n, "x") : n \in {0, 10, 11, 47, 48}}
               \cup {Run(n, "x") \o <<"ESC", "[", "0", "m">> : n \in 6..10}
               \cup {<<"ESC", "[", "0", "m", "x">>}

(* Startup: two ways to write every option, directories with and without a *)
(* "/" at the end, relative ones and one that does not exist.              *)
Home == <<"/", "w">>
Data == <<"/", "data">>

DataDirs == {Data, Data \o <<"/">>, <<"/", "nowhere">>, <<"d">>, <<"/">>, <<>>}

Arguments ==
  {<<>>, << <<"--version">> >>, << <<"--gen-key">> >>, << <<"-d">> >>,
   << <<"--config", "=", "c">> >>, << <<"-c">>, <<"c">> >>}
  \cup {<< <<"--data-dir", "=">> \o dir >> : dir \in DataDirs}
  \cup {<< <<"-d">>, dir >> : dir \in DataDirs}
  \cup {<< <<"-d", "=">> \o dir >> : dir \in DataDirs}
  \cup {<< <<"--config", "=">>, <<"-d">>, dir >> : dir \in DataDirs}

MCCommandLines == {<< <<"/", "bin", "/", "exe">> >> \o arguments : arguments \in Arguments}

MCLongOptions == {"--data-dir", "--config", "--version", "--gen-key"}
MCDirectories == {Data, Home, Home \o <<"/", "d">>}
MCExeDir      == <<"/", "bin">>

MCImageNames ==
  {<<"image">>, <<"image", "$", "{", "COUNT", "}">>,
   <<"$", "{", "XMRIG_DATA_DIR", "}", "/", "image">>}

MCInfoFiles   == {<<"null">>, <<"info">>}
MCNoncesFiles == {<<"null">>, <<"nonces">>, <<"$", "{", "XMRIG_CWD", "}", "/", "nonces">>}
MCExtra       == <<"COUNT">> :> <<"1", "0">>
MCRank        == [c \in {"$"} |-> 0]

(* Config: for each key the user writes a value of the right type, one of  *)
(* another type, and the values at a limit; keys that are read like        *)
(* another one are left out of the file.                                   *)
Json(type, value) == [type |-> type, value |-> value]

True  == Json("bool", 1)
False == Json("bool", 0)

MCValues ==
  [autosave |-> {False}, colors |-> {}, concurrency |-> {Json("uint", 0), Json("string", 1)},
   end |-> {}, height |-> {}, host |-> {Json("string", 0), Json("string", 1)},
   info_file |-> {}, max_nonce |-> {}, max_range |-> {}, min_nonce |-> {},
   name |-> {}, nonces_file |-> {},
   offline |-> {True, False, Json("uint", 1)},
   port |-> {Json("uint", 3), Json("uint", 8), Json("uint", 10)}, print_time |-> {},
   radius |-> {}, start |-> {Json("int", -1), Json("uint", 16)}, timeout |-> {},
   tls |-> {True, Json("uint", 1)}, verbose |-> {True}, x |-> {}]

(* Dns: answers with addresses of both families, one of them in two scopes, *)
(* and of a family that is not used.                                       *)
Address(family, ip, scope) == [family |-> family, ip |-> ip, scope |-> scope]

MCAnswers == AtMost(3, {Address("INET", 1, 0), Address("INET", 2, 0), Address("INET6", 3, 0),
                        Address("INET6", 4, 1), Address("INET6", 4, 2), Address("UNIX", 5, 0)})

(* Env: texts put together from whole and broken variables, and values     *)
(* that hold a variable again.                                             *)
Symbols == <<"$", "a", "b", "{", "}">>

E == INSTANCE Env WITH Rank <- [c \in {Symbols[i] : i \in 1..5} |->
                                  CHOOSE i \in 1..5 : Symbols[i] = c]

Pieces == {<<"$", "{", "a", "}">>, <<"$", "{", "b", "}">>, <<"$">>, <<"{">>, <<"a">>,
           <<"}">>, <<"$", "{", "}">>}

Replacements == {<<"null">>, <<>>, <<"a">>, <<"b", "a">>, <<"$", "{", "b", "}">>}

\* A variable of the environment is a text; the empty one counts as none.
EnvironmentTexts == Replacements \ {<<"null">>}

(* Cvt: every character next to every kind of other, and longer texts.     *)
C == INSTANCE Cvt

SomeCharacters == {48, 57, 97, 102, 65, 70, 103, 47}

(* ParseError: files of up to four characters.                             *)
MCFiles == AtMost(4, {"x", "y", "NL"})

-----------------------------------------------------------------------------
HeadersRest == H!Init /\ message = [headers |-> <<>>, trailers |-> <<>>]

ErrorRest == json = <<>> /\ X!Init

\* The inputs of the components that keep no state.
InputInit ==
  \/ /\ component = "env"
     /\ \E p \in AtMost(3, Pieces), a \in Replacements, b \in EnvironmentTexts :
          input = [text  |-> (IF Len(p) > 0 THEN p[1] ELSE <<>>)
                               \o (IF Len(p) > 1 THEN p[2] ELSE <<>>)
                               \o (IF Len(p) > 2 THEN p[3] ELSE <<>>),
                   extra |-> (<<"a">> :> a), environ |-> (<<"b">> :> b)]
  \/ /\ component = "cvt"
     /\ \/ input \in AtMost(4, SomeCharacters)
        \/ \E c \in 0..255 : input \in {<<c>>, <<c, 97>>, <<57, c>>}

Init ==
  \/ InputInit /\ HeadersRest /\ S!Init /\ L!Init /\ P!Init /\ G!Init /\ D!Init /\ ErrorRest
  \/ /\ component = "headers" /\ input = 0
     /\ H!Init /\ S!Init /\ L!Init /\ P!Init /\ G!Init /\ D!Init /\ ErrorRest
  \/ /\ component = "strings" /\ input = 0
     /\ S!Init /\ HeadersRest /\ L!Init /\ P!Init /\ G!Init /\ D!Init /\ ErrorRest
  \/ /\ component = "log" /\ input = 0
     /\ L!Init /\ HeadersRest /\ S!Init /\ P!Init /\ G!Init /\ D!Init /\ ErrorRest
  \/ /\ component = "startup" /\ input = 0
     /\ P!Init /\ HeadersRest /\ S!Init /\ L!Init /\ G!Init /\ D!Init /\ ErrorRest
  \/ /\ component = "config" /\ input = 0
     /\ G!Init /\ HeadersRest /\ S!Init /\ L!Init /\ P!Init /\ D!Init /\ ErrorRest
  \/ /\ component = "dns" /\ input = 0
     /\ D!Init /\ HeadersRest /\ S!Init /\ L!Init /\ P!Init /\ G!Init /\ ErrorRest
  \/ /\ component = "parse error" /\ input = 0
     /\ X!Init /\ HeadersRest /\ S!Init /\ L!Init /\ P!Init /\ G!Init /\ D!Init

Next ==
  /\ UNCHANGED <<component, input>>
  /\ \/ /\ component = "headers" /\ H!Next
        /\ UNCHANGED <<stringsVars, logVars, startupVars, configVars, dnsVars, errorVars>>
     \/ /\ component = "strings" /\ S!Next
        /\ UNCHANGED <<headersVars, logVars, startupVars, configVars, dnsVars, errorVars>>
     \/ /\ component = "log" /\ L!Next
        /\ UNCHANGED <<headersVars, stringsVars, startupVars, configVars, dnsVars, errorVars>>
     \/ /\ component = "startup" /\ P!Next
        /\ UNCHANGED <<headersVars, stringsVars, logVars, configVars, dnsVars, errorVars>>
     \/ /\ component = "config" /\ G!Next
        /\ UNCHANGED <<headersVars, stringsVars, logVars, startupVars, dnsVars, errorVars>>
     \/ /\ component = "dns" /\ D!Next
        /\ UNCHANGED <<headersVars, stringsVars, logVars, startupVars, configVars, errorVars>>
     \/ /\ component = "parse error" /\ X!Next
        /\ UNCHANGED <<headersVars, stringsVars, logVars, startupVars, configVars, dnsVars>>

Spec ==
  Init /\ [][Next]_<<component, input, headersVars, stringsVars, logVars, startupVars, configVars,
                     dnsVars, errorVars>>

-----------------------------------------------------------------------------
(***************************************************************************)
(* The variables in a file name are replaced (Env.cpp) and digits are      *)
(* converted (Cvt.cpp) as they should be.                                  *)
(***************************************************************************)
ConversionsAgree ==
  /\ component = "env" =>
       E!Expanded(input.text, E!Vars(input.text, <<>>, input.extra, input.environ))
  /\ component = "cvt" => C!Converted(input)

===============================================================================
