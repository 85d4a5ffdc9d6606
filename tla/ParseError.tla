----------------------------- MODULE ParseError -----------------------------
(***************************************************************************)
(* Where the configuration is wrong: the parser reports an offset, and     *)
(* ConfigFile::read shows the line, the one before it and a mark under the *)
(* character (src/base/io/json/Json.cpp, convertOffset, and                *)
(* src/base/kernel/config/ConfigFile.cpp).                                 *)
(***************************************************************************)
EXTENDS Integers, Sequences, FiniteSets

CONSTANT Files     \* bound: the texts of the configuration file

VARIABLES
  text,            \* of the file
  offset,          \* of the error, in the text or at its end
  t,               \* the line that was read last
  k,               \* how many characters have been read
  line,            \* in how many lines
  pos,             \* where in the line the error is
  s,               \* the lines to be shown
  result,          \* of convertOffset: "looking" while it runs
  logged           \* what read() shows

vars == <<text, offset, t, k, line, pos, s, result, logged>>

NL == "NL"

\* std::getline at a position of the file: the line, and whether the end of
\* the file ended it.
GetLine(from) ==
  LET ends == {i \in from..Len(text) : text[i] = NL}
  IN  IF ends = {} THEN [t |-> SubSeq(text, from, Len(text)), eof |-> TRUE]
      ELSE [t   |-> SubSeq(text, from, (CHOOSE i \in ends : \A j \in ends : i <= j) - 1),
            eof |-> FALSE]

Init ==
  /\ text \in Files
  /\ offset \in 0..Len(text)
  /\ t = <<>>
  /\ k = 0
  /\ line = 0
  /\ pos = 0
  /\ s = <<>>
  /\ result = "looking"
  /\ logged = <<>>

-----------------------------------------------------------------------------
\* Is the error in the line that has been read?
Reached_early(read) == read >= offset

Reached(read) == read > offset

\* One round of the loop of Json::convertOffset.
convertOffset ==
  /\ result = "looking"
  /\ LET got == GetLine(k + 1)
     IN  /\ t' = got.t
         /\ k' = k + Len(got.t) + 1
         /\ line' = line + 1
         /\ \/ /\ Reached(k')
               /\ pos' = offset + Len(got.t) + 1 - k' + 1
               /\ s' = IF t = <<>> THEN <<got.t>> ELSE <<t, got.t>>
               /\ result' = "found"
            \/ /\ ~ Reached(k')
               /\ result' = IF got.eof THEN "not found" ELSE "looking"
               /\ UNCHANGED <<pos, s>>
  /\ UNCHANGED <<text, offset, logged>>

\* ConfigFile::read: the lines, and the mark under the last of them.
read ==
  /\ result = "found"
  /\ LET length == IF pos > 0 THEN pos ELSE 1
     IN  logged' = Append(s, [i \in 1..length |-> IF i = length THEN "^" ELSE " "])
  /\ result' = "shown"
  /\ UNCHANGED <<text, offset, t, k, line, pos, s>>

Next == convertOffset \/ read

Spec == Init /\ [][Next]_vars

-----------------------------------------------------------------------------
\* The line shown is the one with the error, the mark is under the error,
\* and the line above, if one is shown, is the one before.
Located(shown, mark, before) ==
  /\ line = 1 + Cardinality({i \in 1..offset : text[i] = NL})
  /\ \A i \in 1..(mark - 1) : shown[i] = text[offset - mark + 1 + i]
  /\ IF offset < Len(text) /\ text[offset + 1] # NL
       THEN mark <= Len(shown) /\ shown[mark] = text[offset + 1]
       ELSE mark = Len(shown) + 1
  /\ before # <<>> => text[offset - mark + 1] = NL
  /\ \A i \in 1..Len(before) : before[i] = text[offset - mark - Len(before) + i]

(***************************************************************************)
(* Every error of a file is found, the one at its very end included.  The  *)
(* number is that of the line with the character, which stands over the    *)
(* mark; only the end of a line has no character there.  The line shown    *)
(* above it is the one before.                                             *)
(***************************************************************************)
ErrorLocated ==
  /\ result # "not found"
  /\ result = "shown" =>
       Located(logged[Len(logged) - 1], Len(logged[Len(logged)]),
               IF Len(logged) = 2 THEN <<>> ELSE logged[1])

=============================================================================
