--------------------------------- MODULE Env ---------------------------------
(***************************************************************************)
(* Variables in file names: src/base/io/Env.cpp.  A text is a sequence of  *)
(* symbols: "$", "{", "}" and others.  Built with XMRIG_FEATURE_ENV, the   *)
(* default.                                                                *)
(***************************************************************************)
EXTENDS Naturals, Sequences, FiniteSets
LOCAL INSTANCE SequencesExt
LOCAL INSTANCE FiniteSetsExt

CONSTANT Rank      \* the order of the symbols: std::string's operator <

\* An absent value, of a variable or a setting.
null == <<"null">>

\* The end of the match of \$\{([^}]+)\} that starts at i, 0 for none.
MatchEnd(text, i) ==
  LET ends == {j \in (i + 3)..Len(text) : text[j] = "}"}
  IN  IF /\ i + 3 <= Len(text) /\ text[i] = "$" /\ text[i + 1] = "{"
         /\ text[i + 2] # "}" /\ ends # {}
        THEN Min(ends) ELSE 0

\* The matches, as std::sregex_iterator finds them: the next one is looked
\* for behind the last.
Matches(text) ==
  LET from[i \in 1..(Len(text) + 1)] ==
        IF i > Len(text) THEN {}
        ELSE IF MatchEnd(text, i) = 0 THEN from[i + 1]
        ELSE {SubSeq(text, i, MatchEnd(text, i))} \cup from[MatchEnd(text, i) + 1]
  IN  from[1]

Name(match) == SubSeq(match, 3, Len(match) - 1)

\* The order of std::map<std::string, String>.
Before(s, t) ==
  \/ Len(s) < Len(t) /\ \A i \in DOMAIN s : s[i] = t[i]
  \/ \E i \in DOMAIN s \cap DOMAIN t :
       Rank[s[i]] < Rank[t[i]] /\ \A j \in 1..(i - 1) : s[j] = t[j]

\* Every occurrence of a text from the left; what has been put in is not
\* searched.
Replaced(text, what, by) ==
  LET from[i \in 1..(Len(text) + 1)] ==
        LET end == i + Len(what) - 1
        IN  IF end > Len(text) THEN SubSeq(text, i, Len(text))
            ELSE IF SubSeq(text, i, end) = what THEN by \o from[end + 1]
            ELSE <<text[i]>> \o from[i + 1]
  IN  from[1]

\* Env::get: a built-in variable, an extra one, or one of the environment,
\* where one that is set to nothing is as good as not set: the String of an
\* empty text is null.
get(name, variables, extra, environ) ==
  IF name \in DOMAIN variables THEN variables[name]
  ELSE IF name \in DOMAIN extra THEN extra[name]
  ELSE IF name \in DOMAIN environ /\ environ[name] # <<>> THEN environ[name]
  ELSE null

\* The "vars" of Env::expand: a value for every match.
Vars(text, variables, extra, environ) ==
  [m \in Matches(text) |-> get(Name(m), variables, extra, environ)]

\* Env::expand
expand_once(text, vars) ==
  IF Matches(text) = {} THEN text
  ELSE LET m == CHOOSE m \in Matches(text) : TRUE
       IN  IF vars[m] = null THEN text ELSE Replaced(text, m, vars[m])

expand(text, vars) ==
  IF Len(text) < 4 THEN text
  ELSE FoldLeft(LAMBDA t, m : IF vars[m] = null THEN t
                              ELSE Replaced(t, m, vars[m]),
                text, SetToSortSeq(Matches(text), Before))

-----------------------------------------------------------------------------
\* Every variable of the text replaced at the same time.
Substitute(text, vars) ==
  LET from[i \in 1..(Len(text) + 1)] ==
        LET end   == MatchEnd(text, i)
            match == SubSeq(text, i, end)
        IN  IF i > Len(text) THEN <<>>
            ELSE IF end = 0 THEN <<text[i]>> \o from[i + 1]
            ELSE (IF vars[match] = null THEN match ELSE vars[match]) \o from[end + 1]
  IN  from[1]

Special(text) == \E i \in DOMAIN text : text[i] \in {"$", "{", "}"}

(***************************************************************************)
(* One variable after another gives what replacing all at once gives, as   *)
(* long as no name and no value contains "$", "{" or "}": the name of a    *)
(* file does not depend on the order of its variables.                     *)
(***************************************************************************)
Expanded(text, vars) ==
  (\A m \in Matches(text) : ~ Special(Name(m)) /\ ~ Special(vars[m])) =>
    expand(text, vars) = Substitute(text, vars)

=============================================================================
