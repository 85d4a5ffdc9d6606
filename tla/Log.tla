--------------------------------- MODULE Log ---------------------------------
(***************************************************************************)
(* How a line gets to the console: src/base/io/log/Log.cpp and             *)
(* backends/ConsoleLog.cpp, with the macros of Log.h.  Every line is put   *)
(* together in one buffer of a fixed size, with colours, and is printed    *)
(* with or without them.                                                   *)
(*                                                                         *)
(* Log::setBackground() has no caller, so that m_background is false.      *)
(***************************************************************************)
EXTENDS Naturals, Sequences, FiniteSets
LOCAL INSTANCE SequencesExt
LOCAL INSTANCE FiniteSetsExt

CONSTANTS
  kMaxBufferSize,   \* 16384
  Formatted         \* bound: what the formats and their arguments come to

VARIABLES
  d,             \* the backends, or destroyed
  m_colors,
  m_verbose,
  printed,       \* the last message: its level and its text
  m_buf,         \* the buffer, as far as that message used it
  out            \* what that message put on stdout, line by line

vars == <<d, m_colors, m_verbose, printed, m_buf, out>>

NUL == "NUL"
NL  == "NL"
CSI == <<"ESC", "[">>

CLEAR == CSI \o <<"0", "m">>
BLACK_BOLD_S == CSI \o <<"1", ";", "3", "0", "m">>

Levels == {"NONE", "ERR", "NOTICE", "INFO"}

\* colors_map, of the levels above; INFO has no colour.
colors_map == [ERR    |-> CSI \o <<"0", ";", "3", "1", "m">>,
               NOTICE |-> CSI \o <<"1", ";", "3", "7", "m">>,
               INFO   |-> <<>>]

Date   == [i \in 1..20 |-> "9"]      \* "[2022-01-01 00:00:00"
Millis == <<".", "9", "9", "9">>
Close  == <<"]", " ">>

timestamp(level) ==
  IF level = "NONE" THEN <<>> ELSE Date \o BLACK_BOLD_S \o Millis \o CLEAR \o Close

color(level) == IF level = "NONE" THEN <<>> ELSE colors_map[level]

\* The room that print() gives vsnprintf(), the NUL included.
Room(level) == kMaxBufferSize - Len(timestamp(level)) - 32

\* vsnprintf() ends a text that is too long with a NUL, and print() counts
\* that NUL as a character of the line.
Truncated_byNothing(text, room) == text

Truncated(text, room) ==
  IF Len(text) < room THEN text ELSE SubSeq(text, 1, room - 1) \o <<NUL>>

\* The buffer after endl().
Buffer(level, text) ==
  timestamp(level) \o color(level) \o Truncated(text, Room(level)) \o CLEAR \o <<NL, NUL>>

CText(buffer) == SubSeq(buffer, 1, Min({i \in DOMAIN buffer : buffer[i] = NUL}) - 1)

\* Without its first control sequence, which goes up to the next 'm', or to
\* the end where there is none.
Erased(text) ==
  LET starts == {i \in DOMAIN text : text[i] = "ESC" /\ i < Len(text) /\ text[i + 1] = "["}
      start  == Min(starts)
      ends   == {i \in start..Len(text) : text[i] = "m"}
      end    == IF ends = {} THEN Len(text) ELSE Min(ends)
  IN  IF starts = {} THEN text
      ELSE SubSeq(text, 1, start - 1) \o SubSeq(text, end + 1, Len(text))

\* The text without any: every sequence has an escape of its own.
Plain(text) ==
  LET without[n \in Nat] == IF n = 0 THEN text ELSE Erased(without[n - 1])
  IN  without[Cardinality({i \in DOMAIN text : text[i] = "ESC"})]

\* The beginning of a line is its timestamp: its length in the plain line.
PlainOffset(offset) == IF offset = 0 THEN 0 ELSE offset - 11

-----------------------------------------------------------------------------
Init ==
  /\ d = [destroyed |-> FALSE, backends |-> <<>>]
  /\ m_colors = TRUE
  /\ m_verbose = 0
  /\ printed = [level |-> "NONE", text |-> <<>>]
  /\ m_buf = <<>>
  /\ out = <<>>

\* Config::parse, before there is a backend.
setColors ==
  /\ d = [destroyed |-> FALSE, backends |-> <<>>]
  /\ m_colors' \in BOOLEAN
  /\ m_verbose' \in 0..1
  /\ UNCHANGED <<d, printed, m_buf, out>>

\* Log::add(new ConsoleLog): its m_tty, if stdout is a terminal or a pipe.
add ==
  /\ d = [destroyed |-> FALSE, backends |-> <<>>]
  /\ \E m_tty \in BOOLEAN :
       /\ d' = [d EXCEPT !.backends = <<m_tty>>]
       /\ m_colors' = (m_colors /\ m_tty)
  /\ UNCHANGED <<m_verbose, printed, m_buf, out>>

destroy ==
  /\ d' = [destroyed |-> TRUE, backends |-> <<>>]
  /\ UNCHANGED <<m_colors, m_verbose, printed, m_buf, out>>

\* ConsoleLog::print, called with both forms of every line.
ConsolePrint(m_tty, line, colors) ==
  IF m_tty /\ m_colors = colors THEN <<line>> ELSE <<>>

print(level, text) ==
  /\ ~ d.destroyed
  /\ m_buf' = Buffer(level, text)
  /\ \E txt \in {Plain(CText(Buffer(level, text)))} :
       out' = IF d.backends = <<>> THEN <<txt>>
              ELSE FlattenSeq([i \in DOMAIN d.backends |->
                     ConsolePrint(d.backends[i], CText(m_buf'), TRUE)
                       \o ConsolePrint(d.backends[i], txt, FALSE)])
  /\ printed' = [level |-> level, text |-> text]
  /\ UNCHANGED <<d, m_colors, m_verbose>>

\* A message after destroy(), or of LOG_VERBOSE without verbose(), is not
\* printed.
ignore(level, text, verbose) ==
  /\ d.destroyed \/ m_verbose < verbose
  /\ printed' = [level |-> level, text |-> text]
  /\ m_buf' = <<>>
  /\ out' = <<>>
  /\ UNCHANGED <<d, m_colors, m_verbose>>

Next ==
  \/ setColors \/ add \/ destroy
  \/ \E level \in Levels, text \in Formatted :
       print(level, text) \/ ignore(level, text, IF level = "INFO" THEN 1 ELSE 0)

Spec == Init /\ [][Next]_vars

-----------------------------------------------------------------------------
(***************************************************************************)
(* The buffer is never written beyond its end.                             *)
(***************************************************************************)
InBuffer == Len(m_buf) <= kMaxBufferSize

(***************************************************************************)
(* A message that fits is one line, whole and with its newline, on a       *)
(* console or before there is one, and its colours are gone without a      *)
(* trace where colours are off; the offset a backend gets is the end of    *)
(* the timestamp in both forms.                                            *)
(***************************************************************************)
LineShown ==
  out # <<>> /\ Len(printed.text) < Room(printed.level) =>
    LET stamp == IF printed.level = "NONE" THEN <<>> ELSE Date \o Millis \o Close
        text  == SelectSeq(printed.text, LAMBDA c : c \notin {"ESC", "[", "0", "m"})
    IN  /\ Len(out) = 1
        /\ Last(out[1]) = NL
        /\ Plain(out[1]) = stamp \o text \o <<NL>>
        /\ out[1] \in {CText(m_buf), stamp \o text \o <<NL>>}
        /\ PlainOffset(Len(timestamp(printed.level))) = Len(stamp)

=============================================================================
