----------------------------- MODULE HttpHeaders -----------------------------
(***************************************************************************)
(* How HttpContext puts the headers of a response together.  The parser    *)
(* reports names and values in pieces, cut wherever a read ended, and      *)
(* never says that a header is complete: the code infers it from the next  *)
(* name, or from the end of the headers.  Trailers of a chunked body       *)
(* arrive through the same two callbacks, with no such end.                *)
(***************************************************************************)
EXTENDS Naturals, Sequences

CONSTANTS
  ToLower,    \* tolower(), of a character of names and values
  Messages    \* the responses: [headers, trailers], sequences of [name, value]

VARIABLES
  message,             \* the response that arrives
  section,             \* "headers", "trailers" or "complete"
  index,               \* the header of the section that arrives
  part,                \* its "name" or its "value"
  offset,              \* the characters of it reported so far
  m_wasHeaderValue,
  m_lastHeaderField,
  m_lastHeaderValue,
  headers              \* HttpData::headers: name -> value

parser  == <<message, section, index, part, offset>>
context == <<m_wasHeaderValue, m_lastHeaderField, m_lastHeaderValue, headers>>
vars    == <<parser, context>>

Lower(text) == [i \in DOMAIN text |-> ToLower[text[i]]]

-----------------------------------------------------------------------------
\* setHeader: the name in lower case; insert() keeps the entry that is there.
Insert_last(map, name, value) ==
  [n \in DOMAIN map \cup {name} |-> IF n = name THEN value ELSE map[n]]

Insert(map, name, value) ==
  [n \in DOMAIN map \cup {name} |-> IF n \in DOMAIN map THEN map[n] ELSE value]

onHeaderField(at) ==
  \/ /\ m_wasHeaderValue
     /\ \/ /\ m_lastHeaderField # <<>>
           /\ headers' = Insert(headers, Lower(m_lastHeaderField), m_lastHeaderValue)
           /\ m_lastHeaderValue' = <<>>
        \/ /\ m_lastHeaderField = <<>>
           /\ UNCHANGED <<headers, m_lastHeaderValue>>
     /\ m_lastHeaderField' = at
     /\ m_wasHeaderValue' = FALSE
  \/ /\ ~ m_wasHeaderValue
     /\ m_lastHeaderField' = m_lastHeaderField \o at
     /\ UNCHANGED <<m_wasHeaderValue, m_lastHeaderValue, headers>>

onHeaderValue(at) ==
  /\ m_lastHeaderValue' = IF m_wasHeaderValue THEN m_lastHeaderValue \o at ELSE at
  /\ m_wasHeaderValue' = TRUE
  /\ UNCHANGED <<m_lastHeaderField, headers>>

\* on_headers_complete
onHeadersComplete ==
  /\ \/ /\ m_lastHeaderField # <<>>
        /\ headers' = Insert(headers, Lower(m_lastHeaderField), m_lastHeaderValue)
        /\ m_lastHeaderField' = <<>>
        /\ m_lastHeaderValue' = <<>>
     \/ /\ m_lastHeaderField = <<>>
        /\ UNCHANGED <<headers, m_lastHeaderField, m_lastHeaderValue>>
  /\ UNCHANGED m_wasHeaderValue

-----------------------------------------------------------------------------
\* The header lines of the section that arrives.
Lines == IF section = "headers" THEN message.headers ELSE message.trailers

Text == IF part = "name" THEN Lines[index].name ELSE Lines[index].value

Init ==
  /\ message \in Messages
  /\ section = "headers" /\ index = 1 /\ part = "name" /\ offset = 0
  /\ m_wasHeaderValue = FALSE
  /\ m_lastHeaderField = <<>>
  /\ m_lastHeaderValue = <<>>
  /\ headers = [n \in {} |-> <<>>]

Callback(at) == IF part = "name" THEN onHeaderField(at) ELSE onHeaderValue(at)

\* A read ends inside a name or a value, or right after its last character.
Piece ==
  /\ section # "complete"
  /\ index <= Len(Lines)
  /\ \E n \in 1..(Len(Text) - offset) :
       /\ Callback(SubSeq(Text, offset + 1, offset + n))
       /\ offset' = offset + n
  /\ UNCHANGED <<message, section, index, part>>

\* The delimiter arrives: the rest is reported, which may be empty.
LastPiece ==
  /\ section # "complete"
  /\ index <= Len(Lines)
  /\ Callback(SubSeq(Text, offset + 1, Len(Text)))
  /\ offset' = 0
  /\ IF part = "name" THEN part' = "value" /\ UNCHANGED index
                      ELSE part' = "name" /\ index' = index + 1
  /\ UNCHANGED <<message, section>>

EndOfHeaders ==
  /\ section = "headers"
  /\ index > Len(Lines)
  /\ onHeadersComplete
  /\ section' = "trailers"
  /\ index' = 1
  /\ UNCHANGED <<message, part, offset>>

\* on_message_complete stores no header.
EndOfMessage ==
  /\ section = "trailers"
  /\ index > Len(Lines)
  /\ section' = "complete"
  /\ UNCHANGED <<message, index, part, offset, context>>

Next == Piece \/ LastPiece \/ EndOfHeaders \/ EndOfMessage

Spec == Init /\ [][Next]_vars

-----------------------------------------------------------------------------
Names(lines) == {Lower(lines[i].name) : i \in DOMAIN lines}

\* The value of the first line with a name, whatever its case.
FirstValue(lines, name) ==
  LET i == CHOOSE i \in DOMAIN lines :
             /\ Lower(lines[i].name) = name
             /\ \A j \in 1..(i - 1) : Lower(lines[j].name) # name
  IN  lines[i].value

(***************************************************************************)
(* However the response was cut into reads, once its headers have arrived  *)
(* each name has the value of its first line, and no trailer changes that: *)
(* what isJSON() reads does not depend on the network's packets.           *)
(***************************************************************************)
HeadersExact ==
  section # "headers" =>
    \A name \in Names(message.headers) :
      name \in DOMAIN headers /\ headers[name] = FirstValue(message.headers, name)

(***************************************************************************)
(* Every entry, at any time, is a line of the response: no entry mixes two *)
(* lines or holds half of one.                                             *)
(***************************************************************************)
NothingMadeUp ==
  \A name \in DOMAIN headers :
    \E lines \in {message.headers, message.trailers} : \E i \in DOMAIN lines :
      name = Lower(lines[i].name) /\ headers[name] = lines[i].value

=============================================================================
