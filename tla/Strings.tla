------------------------------- MODULE Strings -------------------------------
(***************************************************************************)
(* The strings of the program: src/base/tools/String.cpp.  A String owns   *)
(* the C string it points to, or none; the same text may be in it as "no   *)
(* string" or as an empty one, depending on where it came from.            *)
(*                                                                         *)
(* Texts that come from outside (literals, JSON values, c_str()) are valid *)
(* and belong to somebody else; no String is assigned to itself.           *)
(***************************************************************************)
EXTENDS Integers, Sequences, FiniteSets

CONSTANTS
  Objects,   \* bound: the String objects
  Texts,     \* bound: the texts from outside
  Cased,     \* tolower() and toupper(): the small form of a letter, the
             \* great one, for every letter
  Sep        \* the separator of split() and join()

VARIABLES
  alive,     \* the objects that have been constructed
  m_data,    \* where each has its text, nullptr for nowhere
  m_size,
  heap       \* what is at every address that is allocated

vars == <<alive, m_data, m_size, heap>>

nullptr == 0
NUL     == "NUL"

\* What strlen() and the end of a C string make of a text.
CText(t) == LET ends == {i \in DOMAIN t : t[i] = NUL}
            IN IF ends = {} THEN t
               ELSE SubSeq(t, 1, (CHOOSE i \in ends : \A j \in ends : i <= j) - 1)

CTexts == {t \in Texts : CText(t) = t}

\* operator new[]
Fresh == CHOOSE a \in 1..(Cardinality(DOMAIN heap) + 1) : a \notin DOMAIN heap

Without(addresses) == [a \in DOMAIN heap \ addresses |-> heap[a]]
With(h, a, text)   == [b \in DOMAIN h \cup {a} |-> IF b = a THEN text ELSE h[b]]

Text(o) == IF m_data[o] = nullptr THEN <<>> ELSE SubSeq(heap[m_data[o]], 1, m_size[o])

-----------------------------------------------------------------------------
Init ==
  /\ alive = {}
  /\ m_data = [o \in Objects |-> nullptr]
  /\ m_size = [o \in Objects |-> 0]
  /\ heap = [a \in {} |-> <<>>]

\* The object is given a buffer of its own and what it had is deleted.
Holds(o, text) ==
  /\ m_data' = [m_data EXCEPT ![o] = Fresh]
  /\ m_size' = [m_size EXCEPT ![o] = Len(text)]
  /\ heap' = With(Without({m_data[o]}), Fresh, text)

HoldsNothing(o) ==
  /\ m_data' = [m_data EXCEPT ![o] = nullptr]
  /\ m_size' = [m_size EXCEPT ![o] = 0]
  /\ heap' = Without({m_data[o]})

Begin(o) == o \notin alive /\ alive' = alive \cup {o}

\* String(const char *, size_t): whatever the size, there is a buffer.
constructSized(o, t) == Begin(o) /\ Holds(o, t)

\* String(const char *), and of a JSON value: none for an empty text.
construct(o, t) == Begin(o) /\ IF t = <<>> THEN HoldsNothing(o) ELSE Holds(o, t)

\* String(), or of a value that is not a string.
constructNull(o) == Begin(o) /\ HoldsNothing(o)

constructCopy(o, p) ==
  /\ Begin(o) /\ p \in alive
  /\ IF m_data[p] = nullptr THEN HoldsNothing(o) ELSE Holds(o, Text(p))

\* ~String
destroy(o) ==
  /\ o \in alive
  /\ alive' = alive \ {o}
  /\ HoldsNothing(o)

\* copy(const char *): an empty text, and only nullptr is no text.
copyText(o, t) == o \in alive /\ Holds(o, t) /\ UNCHANGED alive
copyNull(o)    == o \in alive /\ HoldsNothing(o) /\ UNCHANGED alive

\* copy(const String &): a text of the same size takes the place of the old.
copy_longer(o, p) ==
  /\ {o, p} \subseteq alive
  /\ IF m_size[o] > 0 /\ m_size[o] >= m_size[p] /\ m_data[p] # nullptr
       THEN /\ heap' = [heap EXCEPT ![m_data[o]] = heap[m_data[p]]]
            /\ UNCHANGED <<m_data, m_size>>
       ELSE IF m_data[p] = nullptr THEN HoldsNothing(o)
                                   ELSE Holds(o, Text(p))
  /\ UNCHANGED alive

copy(o, p) ==
  /\ {o, p} \subseteq alive
  /\ IF m_size[o] > 0 /\ m_size[o] = m_size[p]
       THEN /\ heap' = [heap EXCEPT ![m_data[o]] = heap[m_data[p]]]
            /\ UNCHANGED <<m_data, m_size>>
       ELSE IF m_data[p] = nullptr THEN HoldsNothing(o)
                                   ELSE Holds(o, Text(p))
  /\ UNCHANGED alive

\* move(String &&), also of the constructor.
move(o, p) ==
  /\ p \in alive
  /\ alive' = alive \cup {o}
  /\ m_data' = [m_data EXCEPT ![o] = m_data[p], ![p] = nullptr]
  /\ m_size' = [m_size EXCEPT ![o] = m_size[p], ![p] = 0]
  /\ heap' = Without({m_data[o]})

-----------------------------------------------------------------------------
\* toLower() is Recased with 1, toUpper() with 2.
Recased(text, case) ==
  [i \in DOMAIN text |-> LET pair == {q \in Cased : text[i] \in {q[1], q[2]}}
                         IN IF pair = {} THEN text[i] ELSE (CHOOSE q \in pair : TRUE)[case]]

recase(o, case) ==
  /\ o \in alive /\ m_data[o] # nullptr
  /\ heap' = [heap EXCEPT ![m_data[o]] = Recased(@, case)]
  /\ UNCHANGED <<alive, m_data, m_size>>

\* split(): the parts between separators that are not empty, from left to
\* right.
Cuts(text) == {0, Len(text) + 1} \cup {i \in DOMAIN text : text[i] = Sep}
Ends(text) == {i \in Cuts(text) : i - 1 \notin Cuts(text) /\ i > 0}
Start(text, i) == CHOOSE c \in Cuts(text) : c < i /\ ~ \E e \in Cuts(text) : c < e /\ e < i
End(text, n) == CHOOSE i \in Ends(text) : Cardinality({j \in Ends(text) : j <= i}) = n

Part(text, i) == SubSeq(text, Start(text, i) + 1, i - 1)

split(text) == [n \in 1..Cardinality(Ends(text)) |-> Part(text, End(text, n))]

\* join(): the parts, each at its offset in a buffer that has room for them,
\* their separators and the NUL; a NUL in a part ends the text there.
Offset(parts, n) == Cardinality(UNION {{m} \X (0..Len(parts[m])) : m \in 1..(n - 1)})

At(parts, k) ==
  {n \in DOMAIN parts : Offset(parts, n) < k /\ k <= Offset(parts, n) + Len(parts[n])}

Joined(parts, k) ==
  IF At(parts, k) = {} THEN Sep
  ELSE LET n == CHOOSE n \in At(parts, k) : TRUE IN parts[n][k - Offset(parts, n)]

join(parts) ==
  CText([k \in 1..(Offset(parts, Len(parts) + 1) - 1) |-> Joined(parts, k)])

\* A String that is split and put together again, into one that takes the
\* buffer over: String() for no parts, else move(char *).
rejoin(o, p) ==
  /\ {o, p} \subseteq alive
  /\ LET parts == split(Text(p))
     IN IF parts = <<>> THEN HoldsNothing(o) ELSE Holds(o, join(parts))
  /\ UNCHANGED alive

-----------------------------------------------------------------------------
\* isEqual(const String &)
isEqual(o, p) ==
  /\ m_size[o] = m_size[p]
  /\ m_data[o] = nullptr <=> m_data[p] = nullptr
  /\ Text(o) = Text(p)

Next ==
  \/ \E o \in Objects :
       \/ \E t \in Texts : constructSized(o, t)
       \/ \E t \in CTexts : construct(o, t) \/ copyText(o, t)
       \/ constructNull(o) \/ copyNull(o) \/ destroy(o)
       \/ \E case \in {1, 2} : recase(o, case)
  \/ \E o \in Objects : \E p \in Objects \ {o} :
       constructCopy(o, p) \/ copy(o, p) \/ move(o, p) \/ rejoin(o, p)

Spec == Init /\ [][Next]_vars

-----------------------------------------------------------------------------
(***************************************************************************)
(* Every buffer belongs to exactly one String and is deleted with it, and  *)
(* a String knows its size, through any sequence of copies, moves and      *)
(* assignments.                                                            *)
(***************************************************************************)
Owned ==
  /\ DOMAIN heap = {m_data[o] : o \in alive} \ {nullptr}
  /\ \A o, p \in Objects : m_data[o] = m_data[p] => o = p \/ m_data[o] = nullptr
  /\ \A o \in Objects : IF m_data[o] = nullptr THEN m_size[o] = 0
                                               ELSE m_size[o] = Len(heap[m_data[o]])

(***************************************************************************)
(* A String behaves as a value: a step changes the text of one, or moves   *)
(* it from one to another, and what is copied is equal to what it was      *)
(* copied from, though the old buffer is used again where the sizes agree. *)
(***************************************************************************)
ValueStep ==
  /\ \E o \in Objects :
       \/ \A p \in Objects \ {o} : Text(p)' = Text(p)
       \/ \E p \in Objects \ {o} :
            /\ Text(o)' = Text(p) /\ Text(p)' = <<>>
            /\ \A q \in Objects \ {o, p} : Text(q)' = Text(q)
  /\ \A o, p \in Objects : copy(o, p) => isEqual(o, p)'

=============================================================================
