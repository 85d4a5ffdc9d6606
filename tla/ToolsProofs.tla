------------------------------ MODULE ToolsProofs ------------------------------
(***************************************************************************)
(* Proofs about the parts that work alone, for every value of their        *)
(* constants.                                                              *)
(*                                                                         *)
(*   Dns      an address is chosen whenever the answer has a usable one;   *)
(*   Config   what is read from any file is within the limits (whatever    *)
(*            the user wrote), what is written for such settings is a      *)
(*            document again, and is read as the same settings;            *)
(*   HttpHeaders                                                           *)
(*            the fragments kept so far are those that the parser has      *)
(*            reported of the line at hand, and the map holds the lines    *)
(*            before it;                                                   *)
(*   Strings  every buffer has one owner, so that a call changes the text  *)
(*            of the String it is made on and of no other;                 *)
(*   Log      the length of each piece of a line, and so of the line;      *)
(*   ParseError                                                            *)
(*            the lines before the error have been read and counted, and   *)
(*            the last of them ends where the next one begins;             *)
(*   Startup  an absolute data directory is the working directory under    *)
(*            its own name, so that a name leads to the same file whether  *)
(*            it is joined, resolved or made from a variable.              *)
(***************************************************************************)
EXTENDS Tools, WellFoundedInduction, FiniteSetTheorems, SequenceTheorems, TLAPS

\* Every set of natural numbers has a least one.
LEMMA LeastNat ==
  ASSUME NEW T, T \subseteq Nat, T # {}
  PROVE  \E x \in T : \A y \in T : x <= y
<1>1. PICK x \in T : \A y \in T : ~ (<<y, x>> \in OpToRel(<, Nat))
  BY WFMin, NatLessThanWellFounded, Zenon
<1>2. ASSUME NEW y \in T  PROVE ~ (y < x)
  BY <1>1, Zenon DEF OpToRel
<1> QED  BY <1>2


-----------------------------------------------------------------------------
(* Dns: before the resolver is done nothing is known.                       *)
DnsInv ==
  /\ resolver # "done" => answer = <<>> /\ m_status = 0 /\ peer = D!NotConnected
  /\ D!AddressUsable

\* The empty list has no addresses.
LEMMA NoAnswer == D!ToSet(<<>>) = {}
BY DEF D!ToSet

\* Without an address and without an answer there is nothing to show.
LEMMA DnsIdle ==
  ASSUME answer = <<>>, peer = D!NotConnected, resolver = "done" => m_status < 0
  PROVE  D!AddressUsable
BY NoAnswer DEF D!AddressUsable

\* The first state is one of these.
LEMMA DnsInit == D!Init => DnsInv
BY DnsIdle DEF D!Init, DnsInv

\* A step of the resolver without an answer.
LEMMA DnsQuiet ==
  ASSUME DnsInv, resolver # "done", UNCHANGED <<answer, peer>>,
         resolver' = "done" => m_status' < 0, resolver' # "done" => m_status' = 0
  PROVE  DnsInv'
<1>1. (answer = <<>> /\ peer = D!NotConnected)'
  BY DEF DnsInv, D!NotConnected, D!Address
<1>2. D!AddressUsable'
  BY <1>1, NoAnswer DEF D!AddressUsable
<1> QED  BY <1>1, <1>2 DEF DnsInv

\* Dns::get of a list: what it draws, and the address made of it, is one of
\* the list, of the family that is taken first.
LEMMA Drawn ==
  ASSUME NEW list, NEW record \in D!get("A", D!Records(list, "INET"), D!Records(list, "INET6")),
         ~ D!isEmpty(D!Records(list, "INET"), D!Records(list, "INET6"))
  PROVE  \E a \in D!ToSet(list) :
           /\ a.family \in {"INET", "INET6"}
           /\ D!addr(record, port) = D!Address(a.family, a.ip, 0, port)
           /\ (\E b \in D!ToSet(list) : b.family = "INET") => a.family = "INET"
<1>1. CASE D!Records(list, "INET") # {}
  <2>1. PICK a \in D!ToSet(list) : a.family = "INET" /\ record = D!DnsRecord(a)
    BY <1>1 DEF D!get, D!Records
  <2>2. record = [m_type |-> "A", m_ip |-> a.ip]
    BY <2>1 DEF D!DnsRecord
  <2> QED  BY <2>1, <2>2 DEF D!addr
<1>2. CASE D!Records(list, "INET") = {}
  <2>1. PICK a \in D!ToSet(list) : a.family = "INET6" /\ record = D!DnsRecord(a)
    <3>1. record \in D!Records(list, "INET6")
      BY <1>2 DEF D!get, D!isEmpty
    <3> QED  BY <3>1 DEF D!Records
  <2>2. record = [m_type |-> "AAAA", m_ip |-> a.ip]
    BY <2>1 DEF D!DnsRecord
  <2>3. ~ \E b \in D!ToSet(list) : b.family = "INET"
    BY <1>2 DEF D!Records
  <2> QED  BY <2>1, <2>2, <2>3 DEF D!addr
<1> QED  BY <1>1, <1>2

\* The records are empty when no address of the answer is of either family.
LEMMA NothingUsable ==
  ASSUME NEW list
  PROVE  D!isEmpty(D!Records(list, "INET"), D!Records(list, "INET6"))
           <=> {a \in D!ToSet(list) : a.family \in {"INET", "INET6"}} = {}
BY DEF D!isEmpty, D!Records

\* An answer gives an address whenever it has one of a family asked for.
LEMMA DnsAnswered ==
  ASSUME DnsInv, D!onResolved
  PROVE  DnsInv'
<1> DEFINE empty(list) == D!isEmpty(D!Records(list, "INET"), D!Records(list, "INET6"))
<1>1. resolver = "pending" /\ resolver' = "done" /\ peer = D!NotConnected
  BY DEF D!onResolved, DnsInv
<1>2. PICK list \in Answers :
        /\ answer' = list
        /\ m_status' = IF empty(list) THEN D!UV_EAI_NONAME ELSE 0
        /\ IF empty(list)
             THEN UNCHANGED peer
             ELSE \E record \in D!get("A", D!Records(list, "INET"), D!Records(list, "INET6")) :
                    peer' = D!addr(record, port)
  BY DEF D!onResolved
<1>3. {a \in D!ToSet(list) : a.family \in {"INET", "INET6"}} = {} <=> empty(list)
  BY NothingUsable
<1>4. CASE empty(list)
  <2>1. m_status' < 0 /\ peer' = D!NotConnected
    BY <1>1, <1>2, <1>4 DEF D!UV_EAI_NONAME
  <2>2. (D!NotConnected)' = D!NotConnected
    BY DEF D!NotConnected, D!Address
  <2> QED  BY <1>1, <1>2, <1>3, <1>4, <2>1, <2>2 DEF DnsInv, D!AddressUsable
<1>5. CASE ~ empty(list)
  <2>1. PICK record \in D!get("A", D!Records(list, "INET"), D!Records(list, "INET6")) :
          peer' = D!addr(record, port)
    BY <1>2, <1>5
  <2>2. PICK a \in D!ToSet(list) :
          /\ a.family \in {"INET", "INET6"}
          /\ peer' = D!Address(a.family, a.ip, 0, port)
          /\ (\E b \in D!ToSet(list) : b.family = "INET") => a.family = "INET"
    BY <1>5, <2>1, Drawn
  <2>3. peer'.family = a.family /\ peer'.ip = a.ip /\ peer'.port = port
    BY <2>2 DEF D!Address
  <2>4. peer' # D!NotConnected /\ (D!NotConnected)' = D!NotConnected
    BY <2>2, <2>3 DEF D!NotConnected, D!Address
  <2>5. ~ (m_status' < 0)
    BY <1>2, <1>5
  <2>6. D!AddressUsable'
    BY <1>1, <1>2, <2>2, <2>3, <2>4, <2>5 DEF D!AddressUsable
  <2> QED  BY <1>1, <2>6 DEF DnsInv
<1> QED  BY <1>4, <1>5

(***************************************************************************)
(* HttpClient never connects to a null address: whatever list a resolver   *)
(* returns, an address in it that can be used is used, and with none there *)
(* is an error (Dns.cpp, DnsRecord.cpp).                                   *)
(***************************************************************************)
THEOREM AddressFoundHolds == D!Spec => []AddressFound
<1>1. DnsInv /\ [D!Next]_(D!vars) => DnsInv'
  <2> SUFFICES ASSUME DnsInv, [D!Next]_(D!vars)  PROVE DnsInv'
    OBVIOUS
  <2>1. CASE D!resolve
    BY <2>1, DnsQuiet DEF D!resolve, D!UV_ENOMEM
  <2>2. CASE D!onFailed
    BY <2>2, DnsQuiet DEF D!onFailed, D!UV_EAI_AGAIN
  <2>3. CASE D!onResolved
    BY <2>3, DnsAnswered
  <2>4. CASE UNCHANGED D!vars
    BY <2>4 DEF DnsInv, D!vars, D!AddressUsable, D!NotConnected, D!Address
  <2> QED  BY <2>1, <2>2, <2>3, <2>4 DEF D!Next
<1>2. DnsInv => AddressFound
  BY DEF DnsInv, AddressFound
<1> QED  BY DnsInit, <1>1, <1>2, PTL DEF D!Spec

-----------------------------------------------------------------------------
(* Config: what the settings can be, whatever is in the file.               *)
Stringish == Nat \cup {G!nullptr}

DaemonOK(daemon) ==
  /\ daemon = [host |-> daemon.host, port |-> daemon.port, tls |-> daemon.tls,
               concurrency |-> daemon.concurrency, max_range |-> daemon.max_range,
               print_time |-> daemon.print_time, timeout |-> daemon.timeout]
  /\ daemon.host \in Stringish
  /\ daemon.port \in 0..(Width16 - 1)
  /\ daemon.tls \in BOOLEAN /\ (daemon.tls => WithTls)
  /\ daemon.concurrency \in Nat \ {0}
  /\ daemon.max_range \in Nat \ {0}
  /\ daemon.print_time \in Nat
  /\ daemon.timeout \in Nat \ {0}

Numbers == {"x", "height", "radius", "min_nonce", "max_nonce"}

JobOK(job) ==
  /\ job = [key \in G!JobKeys |-> job[key]]
  /\ job.name \in Stringish /\ job.info_file \in Stringish
  /\ job.start \in Int /\ job.start <= IntMax
  /\ job.end \in Int /\ job.end <= IntMax
  /\ \A key \in Numbers : job[key] \in Nat

ConfigOK(config) ==
  /\ config = [offline |-> config.offline, autosave |-> config.autosave,
               nonces_file |-> config.nonces_file, colors |-> config.colors,
               verbose |-> config.verbose, daemon |-> config.daemon,
               heatmap |-> config.heatmap]
  /\ config.offline \in BOOLEAN /\ config.autosave \in BOOLEAN /\ config.colors \in BOOLEAN
  /\ config.nonces_file \in Stringish
  /\ config.verbose \in Nat
  /\ DaemonOK(config.daemon)
  /\ JobOK(config.heatmap)

\* A member of a document.
Value(v) == Scalar(v) \/ v = G!Absent \/ v = G!Null

\* An object of the document, or something else, which reads like none.
MemberOK(v, keys) ==
  \/ v = [key \in keys |-> v[key]] /\ \A key \in keys : Value(v[key])
  \/ v = G!Null

DocumentOK(doc) ==
  /\ \A key \in {"offline", "autosave", "nonces_file", "colors", "verbose"} : Value(doc[key])
  /\ MemberOK(doc.daemon, G!DaemonKeys)
  /\ MemberOK(doc.heatmap, G!JobKeys)
  /\ doc = [offline |-> doc.offline, autosave |-> doc.autosave,
            nonces_file |-> doc.nonces_file, colors |-> doc.colors,
            verbose |-> doc.verbose, daemon |-> doc.daemon, heatmap |-> doc.heatmap]

ConfigInv ==
  /\ DocumentOK(file)
  /\ ConfigOK(settings)
  /\ phase = "saved" => file = G!getJSON(settings)

\* What a getter of Json returns, whatever the value is.
LEMMA ReadingValues ==
  ASSUME NEW v, Value(v)
  PROVE  /\ \A b \in BOOLEAN : G!getBool(v, b) \in BOOLEAN
         /\ \A n \in Nat : G!getUint(v, n) \in Nat
         /\ G!getInt(v, 0) \in Int /\ G!getInt(v, 0) <= IntMax
         /\ G!getString(v) \in Stringish
         /\ G!setVerbose(v) \in Nat
<1> USE ConfigAssumption DEF G!getBool, G!getUint, G!getInt, G!getString, G!setVerbose,
                             Stringish, G!Json
<1>1. CASE v = G!Absent \/ v = G!Null
  BY <1>1 DEF G!Absent, G!Null, G!nullptr
<1>2. CASE v \in {G!Bool(TRUE), G!Bool(FALSE)}
  <2>1. v = [type |-> "bool", value |-> 1] \/ v = [type |-> "bool", value |-> 0]
    BY <1>2 DEF G!Bool
  <2>2. v.type = "bool" /\ v.value \in Nat
    BY <2>1
  <2> QED  BY <2>2 DEF G!nullptr
<1>3. CASE v.value \in Nat /\ v \in {G!Uint(v.value), G!Text(v.value)}
  <2>1. CASE v = G!Uint(v.value)
    BY <1>3, <2>1 DEF G!Uint, G!nullptr
  <2>2. CASE v = G!Text(v.value)
    BY <1>3, <2>2 DEF G!Text, G!nullptr
  <2> QED  BY <1>3, <2>1, <2>2
<1>4. CASE v.value \in Int /\ v = G!Sint(v.value)
  <2>1. v.type = "int" \/ (v.type = "uint" /\ v.value \in Nat)
    <3>1. CASE v.value < 0
      BY <1>4, <3>1 DEF G!Sint
    <3>2. CASE ~ (v.value < 0)
      BY <1>4, <3>2 DEF G!Sint, G!Uint
    <3> QED  BY <3>1, <3>2
  <2>2. G!getInt(v, 0) \in Int /\ G!getInt(v, 0) <= IntMax
    <3>1. CASE v.type = "int"
      <4>1. v.value < 0
        BY <1>4, <3>1 DEF G!Sint, G!Uint
      <4> QED  BY <1>4, <3>1, <4>1
    <3>2. CASE v.type = "uint"
      BY <1>4, <3>2
    <3> QED  BY <2>1, <3>1, <3>2
  <2> QED  BY <1>4, <2>1, <2>2 DEF G!nullptr
<1> QED  BY <1>1, <1>2, <1>3, <1>4 DEF Value, Scalar

\* Json::getObject: an object of values, all absent where there is none.
LEMMA ReadingMembers ==
  ASSUME NEW v, NEW keys, MemberOK(v, keys), "name" \in keys \/ "host" \in keys
  PROVE  /\ DOMAIN G!getObject(v, keys) = keys
         /\ \A key \in keys : Value(G!getObject(v, keys)[key])
         /\ v = [key \in keys |-> v[key]] => G!getObject(v, keys) = v
<1>1. DOMAIN G!Absent = {"type", "value"} /\ DOMAIN G!Null = {"type", "value"}
  BY DEF G!Absent, G!Null, G!Json
<1>2. CASE v = G!Null
  <2>1. ~ G!IsObject(v)
    BY <1>1, <1>2 DEF G!IsObject
  <2>2. v # [key \in keys |-> v[key]]
    BY <1>1, <1>2
  <2> QED  BY <2>1, <2>2 DEF G!getObject, Value
<1>3. CASE v = [key \in keys |-> v[key]] /\ \A key \in keys : Value(v[key])
  <2>1. DOMAIN v = keys
    BY <1>3
  <2>2. G!IsObject(v)
    BY <1>1, <2>1 DEF G!IsObject
  <2> QED  BY <1>3, <2>1, <2>2 DEF G!getObject
<1> QED  BY <1>2, <1>3 DEF MemberOK

\* A port is cut to its 16 bits.
LEMMA PortFits ==
  ASSUME NEW n \in Nat  PROVE n % Width16 \in 0..(Width16 - 1)
BY ConfigAssumption, Z3

\* Whatever the object is, the daemon read from it is usable.
LEMMA ReadingDaemon ==
  ASSUME NEW v, MemberOK(v, G!DaemonKeys)
  PROVE  DaemonOK(G!Daemon(G!getObject(v, G!DaemonKeys)))
<1> DEFINE o == G!getObject(v, G!DaemonKeys)
<1>1. \A key \in G!DaemonKeys : Value(o[key])
  BY ReadingMembers DEF G!DaemonKeys
<1> HIDE DEF o
<1>2. CASE G!ObjectEmpty(o)
  BY <1>2, ConfigAssumption DEF o, G!Daemon, DaemonOK, Stringish, G!Localhost
<1>3. CASE ~ G!ObjectEmpty(o)
  <2> DEFINE q == G!Daemon(o)
  <2>1. q = [host        |-> G!getString(o.host),
             port        |-> G!getUint(o.port, 0) % Width16,
             tls         |-> WithTls /\ G!getUint(o.tls, 0) # 0,
             concurrency |-> G!AtLeastOne(G!getUint(o.concurrency, 10)),
             max_range   |-> G!AtLeastOne(G!getUint(o.max_range, 1000)),
             print_time  |-> G!getUint(o.print_time, 10),
             timeout     |-> G!AtLeastOne(G!getUint(o.timeout, 30))]
    BY <1>3 DEF G!Daemon
  <2>2. /\ Value(o.host) /\ Value(o.port) /\ Value(o.tls) /\ Value(o.concurrency)
        /\ Value(o.max_range) /\ Value(o.print_time) /\ Value(o.timeout)
    BY <1>1 DEF G!DaemonKeys
  <2>3. G!getString(o.host) \in Stringish
    BY <2>2, ReadingValues
  <2>4. G!getUint(o.port, 0) % Width16 \in 0..(Width16 - 1)
    BY <2>2, ReadingValues, PortFits
  <2>5. /\ G!getUint(o.tls, 0) \in Nat /\ G!getUint(o.concurrency, 10) \in Nat
        /\ G!getUint(o.max_range, 1000) \in Nat /\ G!getUint(o.print_time, 10) \in Nat
        /\ G!getUint(o.timeout, 30) \in Nat
    <3>1. ASSUME NEW w, Value(w), NEW n \in Nat  PROVE G!getUint(w, n) \in Nat
      BY <3>1, ReadingValues
    <3> QED  BY <2>2, <3>1
  <2>6. \A n \in Nat : G!AtLeastOne(n) \in Nat \ {0}
    BY DEF G!AtLeastOne
  <2> HIDE DEF q
  <2>7. (q.tls => WithTls) /\ q.tls \in BOOLEAN
    BY <2>1, ConfigAssumption, Zenon
  <2>8. q.host \in Stringish /\ q.port \in 0..(Width16 - 1)
    BY <2>1, <2>3, <2>4
  <2>9. /\ q.concurrency \in Nat \ {0} /\ q.max_range \in Nat \ {0} /\ q.print_time \in Nat
        /\ q.timeout \in Nat \ {0}
    BY <2>1, <2>5, <2>6
  <2>10. q = [host |-> q.host, port |-> q.port, tls |-> q.tls,
              concurrency |-> q.concurrency, max_range |-> q.max_range,
              print_time |-> q.print_time, timeout |-> q.timeout]
    BY <2>1
  <2>11. DaemonOK(q)
    BY <2>7, <2>8, <2>9, <2>10 DEF DaemonOK
  <2> QED  BY <2>11 DEF q, o
<1> QED  BY <1>2, <1>3

\* Whatever the object is, the job read from it is usable.
LEMMA ReadingJob ==
  ASSUME NEW v, MemberOK(v, G!JobKeys)
  PROVE  JobOK(G!Job(G!getObject(v, G!JobKeys)))
<1> DEFINE o == G!getObject(v, G!JobKeys)
<1>1. \A key \in G!JobKeys : Value(o[key])
  BY ReadingMembers DEF G!JobKeys
<1> HIDE DEF o
<1>2. CASE G!ObjectEmpty(o)
  BY <1>2, ConfigAssumption DEF o, G!Job, JobOK, Stringish, G!Heatmap, G!nullptr, Numbers,
                                G!JobKeys
<1>3. CASE ~ G!ObjectEmpty(o)
  <2> DEFINE q == G!Job(o)
  <2>1. q = [key \in G!JobKeys |-> CASE key \in {"name", "info_file"} -> G!getString(o[key])
                                     [] key \in {"start", "end"}      -> G!getInt(o[key], 0)
                                     [] OTHER                         -> G!getUint(o[key], 0)]
    BY <1>3 DEF G!Job
  <2> HIDE DEF q
  <2>2. q = [key \in G!JobKeys |-> q[key]]
    BY <2>1
  <2>3. /\ q.name = G!getString(o.name) /\ q.info_file = G!getString(o.info_file)
        /\ q.start = G!getInt(o.start, 0) /\ q.end = G!getInt(o.end, 0)
        /\ \A key \in Numbers : q[key] = G!getUint(o[key], 0)
    BY <2>1 DEF G!JobKeys, Numbers
  <2>4. /\ Value(o.name) /\ Value(o.info_file) /\ Value(o.start) /\ Value(o.end)
        /\ \A key \in Numbers : Value(o[key])
    BY <1>1 DEF G!JobKeys, Numbers
  <2>5. /\ q.name \in Stringish /\ q.info_file \in Stringish
        /\ q.start \in Int /\ q.start <= IntMax
        /\ q.end \in Int /\ q.end <= IntMax
    BY <2>3, <2>4, ReadingValues
  <2>6. \A key \in Numbers : q[key] \in Nat
    BY <2>3, <2>4, ReadingValues
  <2>7. JobOK(q)
    BY <2>2, <2>5, <2>6 DEF JobOK
  <2> QED  BY <2>7 DEF q, o
<1> QED  BY <1>2, <1>3

\* Whatever the file is, the settings read from it are usable.
LEMMA Reading ==
  ASSUME NEW doc, DocumentOK(doc)  PROVE ConfigOK(G!parse(doc))
<1> DEFINE q == G!parse(doc)
<1>1. q = [offline     |-> G!getBool(doc.offline, FALSE),
           autosave    |-> G!getBool(doc.autosave, TRUE),
           nonces_file |-> G!getString(doc.nonces_file),
           colors      |-> G!getBool(doc.colors, TRUE),
           verbose     |-> G!setVerbose(doc.verbose),
           daemon      |-> G!Daemon(G!getObject(doc.daemon, G!DaemonKeys)),
           heatmap     |-> G!Job(G!getObject(doc.heatmap, G!JobKeys))]
  BY DEF G!parse
<1>2. /\ Value(doc.offline) /\ Value(doc.autosave) /\ Value(doc.nonces_file)
      /\ Value(doc.colors) /\ Value(doc.verbose)
  BY DEF DocumentOK
<1>3. /\ G!getBool(doc.offline, FALSE) \in BOOLEAN /\ G!getBool(doc.autosave, TRUE) \in BOOLEAN
      /\ G!getBool(doc.colors, TRUE) \in BOOLEAN /\ G!getString(doc.nonces_file) \in Stringish
      /\ G!setVerbose(doc.verbose) \in Nat
  BY <1>2, ReadingValues
<1>4. DaemonOK(q.daemon)
  BY <1>1, ReadingDaemon DEF DocumentOK
<1>5. JobOK(q.heatmap)
  BY <1>1, ReadingJob DEF DocumentOK
<1> HIDE DEF q
<1>6. ConfigOK(q)
  BY <1>1, <1>3, <1>4, <1>5 DEF ConfigOK
<1> QED  BY <1>6 DEF q

-----------------------------------------------------------------------------
\* The empty document, and what the user and the program write.
LEMMA EmptyDocumentOK == DocumentOK(G!EmptyDocument)
<1>1. /\ G!EmptyDocument.daemon = [key \in G!DaemonKeys |-> G!Absent]
      /\ G!EmptyDocument.heatmap = [key \in G!JobKeys |-> G!Absent]
      /\ \A key \in {"offline", "autosave", "nonces_file", "colors", "verbose"} :
           G!EmptyDocument[key] = G!Absent
  BY DEF G!EmptyDocument
<1>2. MemberOK(G!EmptyDocument.daemon, G!DaemonKeys) /\ MemberOK(G!EmptyDocument.heatmap, G!JobKeys)
  BY <1>1 DEF MemberOK, Value
<1>3. \A key \in {"offline", "autosave", "nonces_file", "colors", "verbose"} :
        Value(G!EmptyDocument[key])
  BY <1>1 DEF Value
<1> QED  BY <1>2, <1>3 DEF DocumentOK, G!EmptyDocument

\* What is written for a setting is a value that a file can have.
LEMMA WritingValues ==
  /\ \A b \in BOOLEAN : Value(G!Bool(b))
  /\ \A n \in Nat : Value(G!Uint(n))
  /\ \A i \in Int : Value(G!Sint(i))
  /\ \A s \in Stringish : Value(G!toJSON(s))
<1>1. \A b \in BOOLEAN : Value(G!Bool(b))
  BY DEF Value, Scalar
<1>2. ASSUME NEW n \in Nat  PROVE Value(G!Uint(n)) /\ Value(G!Text(n))
  <2>1. G!Uint(n).value = n /\ G!Text(n).value = n
    BY DEF G!Uint, G!Text, G!Json
  <2> QED  BY <2>1 DEF Value, Scalar
<1>3. ASSUME NEW i \in Int  PROVE Value(G!Sint(i))
  <2>1. G!Sint(i).value = i
    BY DEF G!Sint, G!Uint, G!Json
  <2> QED  BY <2>1 DEF Value, Scalar
<1>4. ASSUME NEW s \in Stringish  PROVE Value(G!toJSON(s))
  BY <1>2 DEF G!toJSON, Stringish, Value
<1> QED  BY <1>1, <1>2, <1>3, <1>4

\* The daemon is written as an object with every key.
LEMMA WritingDaemon ==
  ASSUME NEW daemon, DaemonOK(daemon)
  PROVE  MemberOK(G!DaemonJSON(daemon), G!DaemonKeys)
<1> DEFINE o == G!DaemonJSON(daemon)
<1>1. o = [key \in G!DaemonKeys |-> CASE key = "host" -> G!toJSON(daemon.host)
                                      [] key = "tls"  -> G!Bool(daemon.tls)
                                      [] OTHER        -> G!Uint(daemon[key])]
  BY DEF G!DaemonJSON
<1> HIDE DEF o
<1>2. ASSUME NEW key \in G!DaemonKeys  PROVE Value(o[key])
  <2>1. CASE key = "host"
    BY <1>1, <2>1, WritingValues DEF DaemonOK
  <2>2. CASE key = "tls"
    BY <1>1, <2>2, WritingValues DEF DaemonOK
  <2>3. CASE key \notin {"host", "tls"}
    <3>1. daemon[key] \in Nat
      BY <2>3, ConfigAssumption DEF DaemonOK, G!DaemonKeys
    <3>2. o[key] = G!Uint(daemon[key])
      BY <1>1, <2>3
    <3> QED  BY <3>1, <3>2, WritingValues
  <2> QED  BY <2>1, <2>2, <2>3
<1>3. o = [key \in G!DaemonKeys |-> o[key]]
  BY <1>1
<1>4. MemberOK(o, G!DaemonKeys)
  BY <1>2, <1>3 DEF MemberOK
<1> QED  BY <1>4 DEF o

\* The job is written as an object with every key.
LEMMA WritingJob ==
  ASSUME NEW job, JobOK(job)
  PROVE  MemberOK(G!JobJSON(job), G!JobKeys)
<1> DEFINE o == G!JobJSON(job)
<1>1. o = [key \in G!JobKeys |-> CASE key \in {"name", "info_file"} -> G!toJSON(job[key])
                                   [] key \in {"start", "end"}      -> G!Sint(job[key])
                                   [] OTHER                         -> G!Uint(job[key])]
  BY DEF G!JobJSON
<1> HIDE DEF o
<1>2. ASSUME NEW key \in G!JobKeys  PROVE Value(o[key])
  <2>1. CASE key \in {"name", "info_file"}
    BY <1>1, <2>1, WritingValues DEF JobOK
  <2>2. CASE key \in {"start", "end"}
    BY <1>1, <2>2, WritingValues DEF JobOK
  <2>3. CASE key \notin {"name", "info_file", "start", "end"}
    <3>1. job[key] \in Nat
      BY <2>3 DEF JobOK, G!JobKeys, Numbers
    <3>2. o[key] = G!Uint(job[key])
      BY <1>1, <2>3
    <3> QED  BY <3>1, <3>2, WritingValues
  <2> QED  BY <2>1, <2>2, <2>3
<1>3. o = [key \in G!JobKeys |-> o[key]]
  BY <1>1
<1>4. MemberOK(o, G!JobKeys)
  BY <1>2, <1>3 DEF MemberOK
<1> QED  BY <1>4 DEF o

\* The settings are written as a document.
LEMMA Writing ==
  ASSUME NEW config, ConfigOK(config)  PROVE DocumentOK(G!getJSON(config))
<1> DEFINE q == G!getJSON(config)
<1>1. q = [offline     |-> G!Bool(G!isOffline(config)),
           autosave    |-> G!Bool(config.autosave),
           nonces_file |-> G!toJSON(config.nonces_file),
           colors      |-> G!Bool(config.colors),
           verbose     |-> G!Uint(config.verbose),
           daemon      |-> G!DaemonJSON(config.daemon),
           heatmap     |-> G!JobJSON(config.heatmap)]
  BY DEF G!getJSON
<1> HIDE DEF q
<1>2. G!isOffline(config) \in BOOLEAN
  BY DEF ConfigOK, G!isOffline
<1>3. Value(q.offline) /\ Value(q.autosave) /\ Value(q.nonces_file)
  BY <1>1, <1>2, WritingValues DEF ConfigOK
<1>4. Value(q.colors) /\ Value(q.verbose)
  BY <1>1, WritingValues DEF ConfigOK
<1>5. MemberOK(q.daemon, G!DaemonKeys) /\ MemberOK(q.heatmap, G!JobKeys)
  BY <1>1, WritingDaemon, WritingJob DEF ConfigOK
<1>6. q = [offline |-> q.offline, autosave |-> q.autosave, nonces_file |-> q.nonces_file,
           colors |-> q.colors, verbose |-> q.verbose, daemon |-> q.daemon,
           heatmap |-> q.heatmap]
  BY <1>1
<1>7. DocumentOK(q)
  BY <1>3, <1>4, <1>5, <1>6 DEF DocumentOK
<1> QED  BY <1>7 DEF q

-----------------------------------------------------------------------------
\* What is written reads back as it was.
LEMMA ValuesReadBack ==
  /\ \A b, c \in BOOLEAN : G!getBool(G!Bool(b), c) = b
  /\ \A n, k \in Nat : G!getUint(G!Uint(n), k) = n
  /\ \A i \in Int : i <= IntMax => G!getInt(G!Sint(i), 0) = i
  /\ \A s \in Stringish : G!getString(G!toJSON(s)) = s
  /\ \A n \in Nat : G!setVerbose(G!Uint(n)) = n
<1> USE DEF G!Json
<1>1. ASSUME NEW b \in BOOLEAN, NEW c \in BOOLEAN  PROVE G!getBool(G!Bool(b), c) = b
  BY DEF G!getBool, G!Bool
<1>2. ASSUME NEW n \in Nat, NEW k \in Nat
      PROVE  G!getUint(G!Uint(n), k) = n /\ G!setVerbose(G!Uint(n)) = n
  BY DEF G!getUint, G!Uint, G!setVerbose
<1>3. ASSUME NEW i \in Int, i <= IntMax  PROVE G!getInt(G!Sint(i), 0) = i
  BY <1>3 DEF G!getInt, G!Sint, G!Uint
<1>4. ASSUME NEW s \in Stringish  PROVE G!getString(G!toJSON(s)) = s
  BY DEF G!getString, G!toJSON, G!Text, G!Null, Stringish, G!nullptr
<1> QED  BY <1>1, <1>2, <1>3, <1>4

\* An object that was written is read as one with settings in it.
LEMMA WrittenNotEmpty ==
  ASSUME NEW o, NEW key \in DOMAIN o, NEW s, o[key] = G!toJSON(s)
  PROVE  ~ G!ObjectEmpty(o)
<1>1. o[key].type \in {"null", "string"}
  BY DEF G!toJSON, G!Null, G!Text, G!Json
<1>2. G!Absent.type = "absent"
  BY DEF G!Absent, G!Json
<1> QED  BY <1>1, <1>2 DEF G!ObjectEmpty

\* A port is not changed by the cast to uint16_t.
LEMMA PortReadsBack ==
  ASSUME NEW n \in 0..(Width16 - 1)  PROVE n % Width16 = n
BY ConfigAssumption, Z3

\* The daemon that is written is the one that is read.
LEMMA DaemonReadsBack ==
  ASSUME NEW daemon, DaemonOK(daemon), ~ WithTls
  PROVE  G!Daemon(G!getObject(G!DaemonJSON(daemon), G!DaemonKeys)) = daemon
<1> DEFINE o == G!DaemonJSON(daemon)
<1>1. o = [key \in G!DaemonKeys |-> CASE key = "host" -> G!toJSON(daemon.host)
                                      [] key = "tls"  -> G!Bool(daemon.tls)
                                      [] OTHER        -> G!Uint(daemon[key])]
  BY DEF G!DaemonJSON
<1>2. MemberOK(o, G!DaemonKeys)
  BY WritingDaemon
<1> HIDE DEF o
<1>3. /\ o.host = G!toJSON(daemon.host) /\ o.port = G!Uint(daemon.port)
      /\ o.concurrency = G!Uint(daemon.concurrency) /\ o.max_range = G!Uint(daemon.max_range)
      /\ o.print_time = G!Uint(daemon.print_time) /\ o.timeout = G!Uint(daemon.timeout)
  BY <1>1 DEF G!DaemonKeys
<1>4. G!getObject(o, G!DaemonKeys) = o
  <2>1. o = [key \in G!DaemonKeys |-> o[key]]
    BY <1>1
  <2> QED  BY <1>2, <2>1, ReadingMembers DEF G!DaemonKeys
<1>5. ~ G!ObjectEmpty(o)
  <2>1. "host" \in DOMAIN o
    BY <1>1 DEF G!DaemonKeys
  <2> QED  BY <1>3, <2>1, WrittenNotEmpty
<1>6. G!Daemon(o) =
        [host        |-> G!getString(o.host),
         port        |-> G!getUint(o.port, 0) % Width16,
         tls         |-> WithTls /\ G!getUint(o.tls, 0) # 0,
         concurrency |-> G!AtLeastOne(G!getUint(o.concurrency, 10)),
         max_range   |-> G!AtLeastOne(G!getUint(o.max_range, 1000)),
         print_time  |-> G!getUint(o.print_time, 10),
         timeout     |-> G!AtLeastOne(G!getUint(o.timeout, 30))]
  BY <1>5 DEF G!Daemon
<1>7. /\ G!getString(o.host) = daemon.host
      /\ G!getUint(o.port, 0) = daemon.port
      /\ G!getUint(o.concurrency, 10) = daemon.concurrency
      /\ G!getUint(o.max_range, 1000) = daemon.max_range
      /\ G!getUint(o.print_time, 10) = daemon.print_time
      /\ G!getUint(o.timeout, 30) = daemon.timeout
  <2>1. G!getString(o.host) = daemon.host
    BY <1>3, ValuesReadBack DEF DaemonOK
  <2>2. \A n, k \in Nat : G!getUint(G!Uint(n), k) = n
    BY ValuesReadBack
  <2>3. /\ daemon.port \in Nat /\ daemon.concurrency \in Nat /\ daemon.max_range \in Nat
        /\ daemon.print_time \in Nat /\ daemon.timeout \in Nat
    BY ConfigAssumption DEF DaemonOK
  <2> QED  BY <1>3, <2>1, <2>2, <2>3
<1>8. daemon.port % Width16 = daemon.port
  BY PortReadsBack DEF DaemonOK
<1>9. \A n \in Nat \ {0} : G!AtLeastOne(n) = n
  BY DEF G!AtLeastOne
<1>10. /\ daemon.concurrency \in Nat \ {0} /\ daemon.max_range \in Nat \ {0}
       /\ daemon.timeout \in Nat \ {0}
  BY DEF DaemonOK
<1>11. (WithTls /\ G!getUint(o.tls, 0) # 0) = daemon.tls
  BY ConfigAssumption, Zenon DEF DaemonOK
<1>12. G!Daemon(o) =
         [host |-> daemon.host, port |-> daemon.port, tls |-> daemon.tls,
          concurrency |-> daemon.concurrency, max_range |-> daemon.max_range,
          print_time |-> daemon.print_time, timeout |-> daemon.timeout]
  BY <1>6, <1>7, <1>8, <1>9, <1>10, <1>11
<1> QED  BY <1>4, <1>12 DEF DaemonOK, o

\* The job that is written is the one that is read.
LEMMA JobReadsBack ==
  ASSUME NEW job, JobOK(job)
  PROVE  G!Job(G!getObject(G!JobJSON(job), G!JobKeys)) = job
<1> DEFINE o == G!JobJSON(job)
<1>1. o = [key \in G!JobKeys |-> CASE key \in {"name", "info_file"} -> G!toJSON(job[key])
                                   [] key \in {"start", "end"}      -> G!Sint(job[key])
                                   [] OTHER                         -> G!Uint(job[key])]
  BY DEF G!JobJSON
<1>2. MemberOK(o, G!JobKeys)
  BY WritingJob
<1> HIDE DEF o
<1>3. G!getObject(o, G!JobKeys) = o
  <2>1. o = [key \in G!JobKeys |-> o[key]]
    BY <1>1
  <2> QED  BY <1>2, <2>1, ReadingMembers DEF G!JobKeys
<1>4. ~ G!ObjectEmpty(o)
  <2>1. "name" \in DOMAIN o /\ o["name"] = G!toJSON(job["name"])
    BY <1>1 DEF G!JobKeys
  <2> QED  BY <2>1, WrittenNotEmpty
<1>5. G!Job(o) = [key \in G!JobKeys |-> CASE key \in {"name", "info_file"} -> G!getString(o[key])
                                          [] key \in {"start", "end"}      -> G!getInt(o[key], 0)
                                          [] OTHER                         -> G!getUint(o[key], 0)]
  BY <1>4 DEF G!Job
<1>6. ASSUME NEW key \in G!JobKeys  PROVE G!Job(o)[key] = job[key]
  <2>1. CASE key \in {"name", "info_file"}
    <3>1. G!Job(o)[key] = G!getString(G!toJSON(job[key])) /\ job[key] \in Stringish
      BY <1>1, <1>5, <2>1 DEF JobOK
    <3> QED  BY <3>1, ValuesReadBack
  <2>2. CASE key \in {"start", "end"}
    <3>1. /\ G!Job(o)[key] = G!getInt(G!Sint(job[key]), 0)
          /\ job[key] \in Int /\ job[key] <= IntMax
      BY <1>1, <1>5, <2>2 DEF JobOK
    <3> QED  BY <3>1, ValuesReadBack
  <2>3. CASE key \notin {"name", "info_file", "start", "end"}
    <3>1. job[key] \in Nat
      BY <2>3 DEF JobOK, G!JobKeys, Numbers
    <3>2. G!Job(o)[key] = G!getUint(G!Uint(job[key]), 0)
      BY <1>1, <1>5, <2>3
    <3> QED  BY <3>1, <3>2, ValuesReadBack
  <2> QED  BY <2>1, <2>2, <2>3
<1>7. G!Job(o) = [key \in G!JobKeys |-> G!Job(o)[key]]
  BY <1>5
<1>8. G!Job(o) = job
  BY <1>6, <1>7 DEF JobOK
<1> QED  BY <1>3, <1>8 DEF o

\* All of it, but for "offline".
LEMMA ConfigReadsBack ==
  ASSUME NEW config, ConfigOK(config), ~ WithTls
  PROVE  /\ [G!parse(G!getJSON(config)) EXCEPT !.offline = FALSE]
              = [config EXCEPT !.offline = FALSE]
         /\ G!isOffline(G!parse(G!getJSON(config))) <=> G!isOffline(config)
<1> DEFINE q == G!getJSON(config)
<1>1. q = [offline     |-> G!Bool(G!isOffline(config)),
           autosave    |-> G!Bool(config.autosave),
           nonces_file |-> G!toJSON(config.nonces_file),
           colors      |-> G!Bool(config.colors),
           verbose     |-> G!Uint(config.verbose),
           daemon      |-> G!DaemonJSON(config.daemon),
           heatmap     |-> G!JobJSON(config.heatmap)]
  BY DEF G!getJSON
<1> HIDE DEF q
<1> DEFINE r == G!parse(q)
<1>2. r = [offline     |-> G!getBool(q.offline, FALSE),
           autosave    |-> G!getBool(q.autosave, TRUE),
           nonces_file |-> G!getString(q.nonces_file),
           colors      |-> G!getBool(q.colors, TRUE),
           verbose     |-> G!setVerbose(q.verbose),
           daemon      |-> G!Daemon(G!getObject(q.daemon, G!DaemonKeys)),
           heatmap     |-> G!Job(G!getObject(q.heatmap, G!JobKeys))]
  BY DEF G!parse
<1> HIDE DEF r
<1>3. G!isOffline(config) \in BOOLEAN
  BY DEF ConfigOK, G!isOffline
<1>4. r.offline = G!isOffline(config)
  BY <1>1, <1>2, <1>3, ValuesReadBack
<1>5. r.autosave = config.autosave /\ r.colors = config.colors
  BY <1>1, <1>2, ValuesReadBack DEF ConfigOK
<1>6. r.nonces_file = config.nonces_file /\ r.verbose = config.verbose
  BY <1>1, <1>2, ValuesReadBack DEF ConfigOK
<1>7. r.daemon = config.daemon
  BY <1>1, <1>2, DaemonReadsBack DEF ConfigOK
<1>8. r.heatmap = config.heatmap
  BY <1>1, <1>2, JobReadsBack DEF ConfigOK
<1>9. [r EXCEPT !.offline = FALSE] = [config EXCEPT !.offline = FALSE]
  BY <1>2, <1>5, <1>6, <1>7, <1>8 DEF ConfigOK
<1>10. G!isOffline(r) <=> G!isOffline(config)
  BY <1>4, <1>7 DEF G!isOffline
<1> QED  BY <1>9, <1>10 DEF r, q

-----------------------------------------------------------------------------
\* An object with one member changed is an object of the document still.
LEMMA MemberEdited ==
  ASSUME NEW v, NEW keys, MemberOK(v, keys), "name" \in keys \/ "host" \in keys,
         NEW key \in keys, NEW w, Value(w)
  PROVE  MemberOK([G!getObject(v, keys) EXCEPT ![key] = w], keys)
<1> DEFINE o == G!getObject(v, keys)
<1>1. DOMAIN o = keys /\ \A k \in keys : Value(o[k])
  BY ReadingMembers
<1> HIDE DEF o
<1> DEFINE e == [o EXCEPT ![key] = w]
<1>2. e = [k \in keys |-> e[k]]
  BY <1>1
<1>3. \A k \in keys : e[k] = (IF k = key THEN w ELSE o[k])
  BY <1>1
<1>4. \A k \in keys : Value(e[k])
  BY <1>1, <1>3
<1> HIDE DEF e
<1>5. MemberOK(e, keys)
  BY <1>2, <1>4 DEF MemberOK
<1> QED  BY <1>5 DEF e, o

\* The first state is one of these.
LEMMA ConfigInit == G!Init => ConfigInv
<1>1. ConfigOK(G!parse(G!EmptyDocument))
  BY EmptyDocumentOK, Reading
<1> QED  BY <1>1, EmptyDocumentOK DEF G!Init, ConfigInv

\* An edited file is a document still.
LEMMA EditedOK == ASSUME ConfigInv, G!edit \/ G!editOffline  PROVE DocumentOK(file')
<1> DEFINE plain == {"offline", "autosave", "nonces_file", "colors", "verbose"}
<1>1. DocumentOK(file)
  BY DEF ConfigInv
<1>2. ASSUME NEW key \in plain, NEW v \in Values[key], file' = [file EXCEPT ![key] = v]
      PROVE  DocumentOK(file')
  <2>1. Value(v)
    BY ConfigAssumption DEF Value, Keys
  <2>2. /\ file'.daemon = file.daemon /\ file'.heatmap = file.heatmap
        /\ \A k \in plain : file'[k] = (IF k = key THEN v ELSE file[k])
    BY <1>1, <1>2 DEF DocumentOK
  <2>3. \A k \in plain : Value(file'[k])
    BY <1>1, <2>1, <2>2 DEF DocumentOK
  <2>4. MemberOK(file'.daemon, G!DaemonKeys) /\ MemberOK(file'.heatmap, G!JobKeys)
    BY <1>1, <2>2 DEF DocumentOK
  <2>5. file' = [offline |-> file'.offline, autosave |-> file'.autosave,
                 nonces_file |-> file'.nonces_file, colors |-> file'.colors,
                 verbose |-> file'.verbose, daemon |-> file'.daemon, heatmap |-> file'.heatmap]
    BY <1>1, <1>2 DEF DocumentOK
  <2> QED  BY <2>3, <2>4, <2>5 DEF DocumentOK
<1>3. ASSUME NEW member \in {"daemon", "heatmap"}, NEW v, file' = [file EXCEPT ![member] = v],
             member = "daemon" => MemberOK(v, G!DaemonKeys),
             member = "heatmap" => MemberOK(v, G!JobKeys)
      PROVE  DocumentOK(file')
  <2>1. /\ file'.daemon = (IF member = "daemon" THEN v ELSE file.daemon)
        /\ file'.heatmap = (IF member = "heatmap" THEN v ELSE file.heatmap)
        /\ \A k \in plain : file'[k] = file[k]
    BY <1>1, <1>3 DEF DocumentOK
  <2>2. MemberOK(file'.daemon, G!DaemonKeys) /\ MemberOK(file'.heatmap, G!JobKeys)
    BY <1>1, <1>3, <2>1 DEF DocumentOK
  <2>3. \A k \in plain : Value(file'[k])
    BY <1>1, <2>1 DEF DocumentOK
  <2>4. file' = [offline |-> file'.offline, autosave |-> file'.autosave,
                 nonces_file |-> file'.nonces_file, colors |-> file'.colors,
                 verbose |-> file'.verbose, daemon |-> file'.daemon, heatmap |-> file'.heatmap]
    BY <1>1, <1>3 DEF DocumentOK
  <2> QED  BY <2>2, <2>3, <2>4 DEF DocumentOK
<1>4. CASE G!editOffline
  <2>1. PICK v \in Values["offline"] : file' = [file EXCEPT !["offline"] = v]
    BY <1>4 DEF G!editOffline
  <2> QED  BY <1>2, <2>1
<1>5. CASE \E key \in {"autosave", "nonces_file", "colors", "verbose"} :
             \E v \in Values[key] : file' = [file EXCEPT ![key] = v]
  BY <1>2, <1>5
<1>6. CASE \E key \in G!DaemonKeys : \E v \in Values[key] :
             file' = [file EXCEPT !.daemon = [G!getObject(@, G!DaemonKeys) EXCEPT ![key] = v]]
  <2>1. PICK key \in G!DaemonKeys : \E v \in Values[key] :
          file' = [file EXCEPT !["daemon"] = [G!getObject(@, G!DaemonKeys) EXCEPT ![key] = v]]
    BY <1>6
  <2>2. PICK v \in Values[key] :
          file' = [file EXCEPT !["daemon"] = [G!getObject(@, G!DaemonKeys) EXCEPT ![key] = v]]
    BY <2>1
  <2>3. Value(v)
    BY ConfigAssumption DEF Value, Keys
  <2>4. MemberOK([G!getObject(file.daemon, G!DaemonKeys) EXCEPT ![key] = v], G!DaemonKeys)
    BY <1>1, <2>3, MemberEdited DEF DocumentOK, G!DaemonKeys
  <2> QED  BY <1>3, <2>2, <2>4
<1>7. CASE \E key \in G!JobKeys : \E v \in Values[key] :
             file' = [file EXCEPT !.heatmap = [G!getObject(@, G!JobKeys) EXCEPT ![key] = v]]
  <2>1. PICK key \in G!JobKeys : \E v \in Values[key] :
          file' = [file EXCEPT !["heatmap"] = [G!getObject(@, G!JobKeys) EXCEPT ![key] = v]]
    BY <1>7
  <2>2. PICK v \in Values[key] :
          file' = [file EXCEPT !["heatmap"] = [G!getObject(@, G!JobKeys) EXCEPT ![key] = v]]
    BY <2>1
  <2>3. Value(v)
    BY ConfigAssumption DEF Value, Keys
  <2>4. MemberOK([G!getObject(file.heatmap, G!JobKeys) EXCEPT ![key] = v], G!JobKeys)
    BY <1>1, <2>3, MemberEdited DEF DocumentOK, G!JobKeys
  <2> QED  BY <1>3, <2>2, <2>4
<1>8. CASE \E member \in {"daemon", "heatmap"} : file' = [file EXCEPT ![member] = G!Null]
  BY <1>3, <1>8 DEF MemberOK
<1> QED  BY <1>4, <1>5, <1>6, <1>7, <1>8 DEF G!edit

\* Every step keeps the invariant.
LEMMA ConfigStep == ConfigInv /\ [G!Next]_(G!vars) => ConfigInv'
<1> SUFFICES ASSUME ConfigInv, [G!Next]_(G!vars)  PROVE ConfigInv'
  OBVIOUS
<1>1. DocumentOK(file) /\ ConfigOK(settings) /\ (phase = "saved" => file = G!getJSON(settings))
  BY DEF ConfigInv
<1>2. CASE G!edit \/ G!editOffline
  <2>1. settings' = settings /\ phase' = "edit"
    BY <1>2 DEF G!edit, G!editOffline
  <2>2. DocumentOK(file')
    BY <1>2, EditedOK
  <2>3. ConfigOK(settings')
    BY <1>1, <2>1
  <2> QED  BY <2>1, <2>2, <2>3 DEF ConfigInv
<1>3. CASE G!read
  <2>1. file' = file /\ settings' = G!parse(file) /\ phase' = "read"
    BY <1>3 DEF G!read
  <2>2. ConfigOK(settings')
    BY <1>1, <2>1, Reading
  <2> QED  BY <1>1, <2>1, <2>2 DEF ConfigInv
<1>4. CASE G!initLog
  <2>1. file' = file /\ phase' = "run"
    BY <1>4 DEF G!initLog
  <2>2. settings' = settings \/ settings' = [settings EXCEPT !.colors = FALSE]
    BY <1>4 DEF G!initLog
  <2>3. ConfigOK([settings EXCEPT !.colors = FALSE])
    <3> DEFINE s == [settings EXCEPT !.colors = FALSE]
    <3> DEFINE fields == {"offline", "autosave", "nonces_file", "colors", "verbose", "daemon",
                          "heatmap"}
    <3>1. settings = [offline |-> settings.offline, autosave |-> settings.autosave,
                      nonces_file |-> settings.nonces_file, colors |-> settings.colors,
                      verbose |-> settings.verbose, daemon |-> settings.daemon,
                      heatmap |-> settings.heatmap]
      BY <1>1 DEF ConfigOK
    <3>2. DOMAIN settings = fields
      BY <3>1
    <3>3. DOMAIN s = fields /\ s.colors = FALSE /\ \A f \in fields \ {"colors"} : s[f] = settings[f]
      BY <3>2
    <3>4. s = [f \in fields |-> s[f]]
      BY <3>2
    <3> HIDE DEF s
    <3>5. s = [offline |-> s.offline, autosave |-> s.autosave, nonces_file |-> s.nonces_file,
               colors |-> s.colors, verbose |-> s.verbose, daemon |-> s.daemon,
               heatmap |-> s.heatmap]
      BY <3>4
    <3>6. ConfigOK(s)
      BY <1>1, <3>3, <3>5 DEF ConfigOK
    <3> QED  BY <3>6 DEF s
  <2>4. ConfigOK(settings')
    BY <1>1, <2>2, <2>3
  <2> QED  BY <1>1, <2>1, <2>4 DEF ConfigInv
<1>5. CASE G!save
  <2>1. file' = G!getJSON(settings) /\ settings' = settings
    BY <1>5 DEF G!save
  <2>2. DocumentOK(file')
    BY <1>1, <2>1, Writing
  <2> QED  BY <1>1, <2>1, <2>2 DEF ConfigInv
<1>6. CASE G!exit
  <2>1. file' = file /\ settings' = G!parse(G!EmptyDocument) /\ phase' = "edit"
    BY <1>6 DEF G!exit
  <2>2. ConfigOK(settings')
    BY <2>1, EmptyDocumentOK, Reading
  <2> QED  BY <1>1, <2>1, <2>2 DEF ConfigInv
<1>7. CASE UNCHANGED G!vars
  BY <1>1, <1>7 DEF G!vars, ConfigInv
<1> QED  BY <1>2, <1>3, <1>4, <1>5, <1>6, <1>7 DEF G!Next

\* The limits of usable settings.
LEMMA LimitsUsable == ConfigInv => G!UsableLimits
<1> SUFFICES ASSUME ConfigInv  PROVE G!UsableLimits
  OBVIOUS
<1>1. DaemonOK(settings.daemon)
  BY DEF ConfigInv, ConfigOK
<1>2. ~ G!isOffline(settings) => settings.daemon.port > 0
  BY DEF G!isOffline, G!isValid
<1> QED  BY <1>1, <1>2, ConfigAssumption DEF G!UsableLimits, DaemonOK

(***************************************************************************)
(* Whatever is in the file, edited and rewritten any number of times,      *)
(* Network never divides its work by zero, and no daemon is contacted at a *)
(* port that does not exist (Daemon.cpp, Config.cpp).                      *)
(***************************************************************************)
THEOREM UsableLimitsHolds == G!Spec => []G!UsableLimits
BY ConfigInit, ConfigStep, LimitsUsable, PTL DEF G!Spec

(***************************************************************************)
(* In a build without TLS the program that autosaves its settings does in  *)
(* the next run what it did in this one.  With TLS it does not: "tls" is   *)
(* lost (Daemon.cpp, Job.cpp, Config.cpp).                                 *)
(***************************************************************************)
THEOREM SettingsKeptHolds == ~ WithTls /\ G!Spec => []SettingsKept
<1> SUFFICES ASSUME ~ WithTls  PROVE G!Spec => []SettingsKept
  OBVIOUS
<1>1. ConfigInv => SettingsKept
  <2> SUFFICES ASSUME ConfigInv, phase = "saved"
               PROVE  /\ [G!parse(file) EXCEPT !.offline = FALSE]
                           = [settings EXCEPT !.offline = FALSE]
                      /\ G!isOffline(G!parse(file)) <=> G!isOffline(settings)
    BY LimitsUsable DEF SettingsKept, G!ReadsBack
  <2>1. file = G!getJSON(settings) /\ ConfigOK(settings)
    BY DEF ConfigInv
  <2> QED  BY <2>1, ConfigReadsBack
<1> QED  BY ConfigInit, ConfigStep, <1>1, PTL DEF G!Spec

-----------------------------------------------------------------------------
(* HttpHeaders: what the callbacks have kept is what the parser has read.   *)
Named(i) == H!Lower(message.headers[i].name)

FirstOfName(i) == \A j \in 1..(i - 1) : Named(j) # Named(i)

\* The first k lines of the header are in the map.
Stored(k, map) ==
  \A i \in 1..k :
    Named(i) \in DOMAIN map /\ (FirstOfName(i) => map[Named(i)] = message.headers[i].value)

\* Nothing but these lines is.
StoredOnly(k, map) ==
  \A name \in DOMAIN map : \E i \in 1..k :
    name = Named(i) /\ map[name] = message.headers[i].value

\* An entry of the map is a line of one of the sections.
ComesFrom(map, lines) ==
  \A name \in DOMAIN map : \E ls \in lines : \E i \in DOMAIN ls :
    name = H!Lower(ls[i].name) /\ map[name] = ls[i].value

\* The lines that have been put into the map: the last one that was read is
\* stored with the next callback.
Done ==
  IF section # "headers" THEN Len(message.headers)
  ELSE IF part = "value" \/ offset > 0 THEN index - 1
  ELSE IF index = 1 THEN 0 ELSE index - 2

\* Where the parser is.
PlaceInv ==
  /\ message \in Messages
  /\ section \in {"headers", "trailers", "complete"}
  /\ part \in {"name", "value"}
  /\ index \in 1..(Len(H!Lines) + 1)
  /\ offset \in Nat
  /\ index <= Len(H!Lines) => offset <= Len(H!Text)
  /\ index > Len(H!Lines) => part = "name" /\ offset = 0

\* What the callbacks hold of the line that arrives, or of the one before it.
HeldInv ==
  LET line == H!Lines[index]
      last == H!Lines[index - 1]
  IN  \/ /\ part = "name" /\ offset = 0 /\ index = 1
         /\ m_lastHeaderField = <<>> /\ m_wasHeaderValue \in BOOLEAN
      \/ /\ part = "name" /\ offset = 0 /\ index > 1
         /\ m_wasHeaderValue = TRUE
         /\ m_lastHeaderField = last.name /\ m_lastHeaderValue = last.value
      \/ /\ part = "name" /\ offset > 0
         /\ m_wasHeaderValue = FALSE
         /\ m_lastHeaderField = SubSeq(line.name, 1, offset)
      \/ /\ part = "value" /\ offset = 0
         /\ m_wasHeaderValue = FALSE
         /\ m_lastHeaderField = line.name
      \/ /\ part = "value" /\ offset > 0
         /\ m_wasHeaderValue = TRUE
         /\ m_lastHeaderField = line.name
         /\ m_lastHeaderValue = SubSeq(line.value, 1, offset)

MapInv ==
  /\ Stored(Done, headers)
  /\ section = "headers" => StoredOnly(Done, headers)
  /\ ComesFrom(headers, {message.headers, message.trailers})

HeadersInv == PlaceInv /\ (section # "complete" => HeldInv) /\ MapInv

-----------------------------------------------------------------------------
\* The lines of a message, headers or trailers.
LEMMA HeaderLines ==
  ASSUME message \in Messages
  PROVE  \A lines \in {message.headers, message.trailers} :
           /\ Len(lines) \in Nat /\ DOMAIN lines = 1..Len(lines)
           /\ \A i \in 1..Len(lines) :
                /\ lines[i].name \in Seq(Characters) /\ lines[i].name # <<>>
                /\ lines[i].value \in Seq(Characters)
<1> TAKE lines \in {message.headers, message.trailers}
<1>1. /\ lines \in Seq([name : Seq(Characters), value : Seq(Characters)])
      /\ \A i \in DOMAIN lines : lines[i].name # <<>>
  BY HeadersAssumption
<1>2. DOMAIN lines = 1..Len(lines) /\ Len(lines) \in Nat
  BY <1>1
<1>3. \A i \in 1..Len(lines) : lines[i] \in [name : Seq(Characters), value : Seq(Characters)]
  BY <1>1, ElementOfSeq
<1> QED  BY <1>1, <1>2, <1>3

\* The lines of the section that arrives.
LEMMA ArrivingLine ==
  ASSUME PlaceInv
  PROVE  /\ Len(H!Lines) \in Nat
         /\ H!Lines \in {message.headers, message.trailers}
         /\ \A i \in 1..Len(H!Lines) :
              /\ H!Lines[i].name \in Seq(Characters) /\ H!Lines[i].name # <<>>
              /\ H!Lines[i].value \in Seq(Characters)
<1>1. H!Lines \in {message.headers, message.trailers}
  BY DEF H!Lines
<1> QED  BY <1>1, HeaderLines DEF PlaceInv

\* The pieces of a text, one after the other.
LEMMA TextPieces ==
  ASSUME NEW s \in Seq(Characters), NEW k \in 0..Len(s), NEW m \in k..Len(s)
  PROVE  /\ SubSeq(s, 1, k) \o SubSeq(s, k + 1, m) = SubSeq(s, 1, m)
         /\ <<>> \o SubSeq(s, 1, m) = SubSeq(s, 1, m)
         /\ SubSeq(s, 1, Len(s)) = s
         /\ SubSeq(s, 1, 0) = <<>>
<1>1. SubSeq(s, 1, k) \o SubSeq(s, k + 1, m) = SubSeq(s, 1, m)
  BY ConcatAdjacentSubSeq
<1>2. SubSeq(s, 1, m) \in Seq(Characters)
  <2>1. \A i \in 1..m : s[i] \in Characters
    BY ElementOfSeq
  <2> QED  BY <2>1, SubSeqProperties
<1>3. <<>> \o SubSeq(s, 1, m) = SubSeq(s, 1, m)
  BY <1>2, ConcatEmptySeq
<1>4. SubSeq(s, 1, Len(s)) = s /\ SubSeq(s, 1, 0) = <<>>
  BY SubSeqFull, SubSeqEmpty
<1> QED  BY <1>1, <1>3, <1>4

-----------------------------------------------------------------------------
\* setHeader() for the next line of the header, and for a trailer.
LEMMA StoreLine ==
  ASSUME NEW map, NEW k \in Nat, Stored(k, map), StoredOnly(k, map)
  PROVE  LET new == H!Insert(map, Named(k + 1), message.headers[k + 1].value)
         IN  Stored(k + 1, new) /\ StoredOnly(k + 1, new)
<1> DEFINE new == H!Insert(map, Named(k + 1), message.headers[k + 1].value)
<1>1. /\ DOMAIN new = DOMAIN map \cup {Named(k + 1)}
      /\ \A n \in DOMAIN map : new[n] = map[n]
      /\ Named(k + 1) \notin DOMAIN map => new[Named(k + 1)] = message.headers[k + 1].value
  BY DEF H!Insert
<1> HIDE DEF new
<1>2. ASSUME NEW i \in 1..(k + 1)
      PROVE  /\ Named(i) \in DOMAIN new
             /\ FirstOfName(i) => new[Named(i)] = message.headers[i].value
  <2>1. CASE i \in 1..k
    BY <1>1, <2>1 DEF Stored
  <2>2. CASE i = k + 1
    <3>1. ASSUME FirstOfName(k + 1)  PROVE Named(k + 1) \notin DOMAIN map
      BY <3>1 DEF FirstOfName, StoredOnly
    <3> QED  BY <1>1, <2>2, <3>1
  <2> QED  BY <2>1, <2>2
<1>3. ASSUME NEW name \in DOMAIN new
      PROVE  \E i \in 1..(k + 1) : name = Named(i) /\ new[name] = message.headers[i].value
  <2>1. CASE name \in DOMAIN map
    <3>1. PICK i \in 1..k : name = Named(i) /\ map[name] = message.headers[i].value
      BY <2>1 DEF StoredOnly
    <3>2. i \in 1..(k + 1)
      OBVIOUS
    <3> QED  BY <1>1, <2>1, <3>1, <3>2
  <2>2. CASE name \notin DOMAIN map
    BY <1>1, <2>2
  <2> QED  BY <2>1, <2>2
<1>4. Stored(k + 1, new) /\ StoredOnly(k + 1, new)
  BY <1>2, <1>3 DEF Stored, StoredOnly
<1> QED  BY <1>4 DEF new

\* Inserting any line loses nothing of the map and adds only this line.
LEMMA StoreAny ==
  ASSUME NEW map, NEW k, Stored(k, map), NEW lines, ComesFrom(map, lines),
         NEW ls \in lines, NEW i \in DOMAIN ls
  PROVE  LET new == H!Insert(map, H!Lower(ls[i].name), ls[i].value)
         IN  Stored(k, new) /\ ComesFrom(new, lines)
<1> DEFINE new == H!Insert(map, H!Lower(ls[i].name), ls[i].value)
<1>1. /\ DOMAIN new = DOMAIN map \cup {H!Lower(ls[i].name)}
      /\ \A n \in DOMAIN map : new[n] = map[n]
      /\ H!Lower(ls[i].name) \notin DOMAIN map => new[H!Lower(ls[i].name)] = ls[i].value
  BY DEF H!Insert
<1> HIDE DEF new
<1>2. Stored(k, new)
  BY <1>1 DEF Stored
<1>3. ASSUME NEW name \in DOMAIN new
      PROVE  \E l \in lines : \E j \in DOMAIN l :
               name = H!Lower(l[j].name) /\ new[name] = l[j].value
  <2>1. CASE name \in DOMAIN map
    BY <1>1, <2>1 DEF ComesFrom
  <2>2. CASE name \notin DOMAIN map
    BY <1>1, <2>2
  <2> QED  BY <2>1, <2>2
<1>4. ComesFrom(new, lines)
  BY <1>3 DEF ComesFrom
<1> QED  BY <1>2, <1>4 DEF new

\* The map after the line before the one that arrives has been stored.
LEMMA StoreLast ==
  ASSUME HeadersInv, section # "complete", part = "name", offset = 0, index > 1,
         NEW map,
         map = H!Insert(headers, H!Lower(H!Lines[index - 1].name), H!Lines[index - 1].value)
  PROVE  /\ section = "headers" => Stored(index - 1, map) /\ StoredOnly(index - 1, map)
         /\ section # "headers" => Stored(Done, map)
         /\ ComesFrom(map, {message.headers, message.trailers})
<1>1. index \in Nat /\ index - 1 \in DOMAIN H!Lines /\ index - 2 \in Nat
  <2>1. index - 1 \in 1..Len(H!Lines) /\ Len(H!Lines) \in Nat /\ index \in Nat
    BY ArrivingLine DEF HeadersInv, PlaceInv
  <2>2. DOMAIN H!Lines = 1..Len(H!Lines)
    BY ArrivingLine, HeaderLines DEF HeadersInv, PlaceInv
  <2> QED  BY <2>1, <2>2
<1>2. H!Lines \in {message.headers, message.trailers}
  BY ArrivingLine DEF HeadersInv
<1>3. Stored(Done, map) /\ ComesFrom(map, {message.headers, message.trailers})
  BY <1>1, <1>2, StoreAny DEF HeadersInv, MapInv
<1>4. ASSUME section = "headers"
      PROVE  Stored(index - 1, map) /\ StoredOnly(index - 1, map)
  <2>1. Done = index - 2 /\ (index - 2) + 1 = index - 1
    BY <1>1, <1>4 DEF Done
  <2>2. H!Lines = message.headers
    BY <1>4 DEF H!Lines
  <2>3. Stored(index - 2, headers) /\ StoredOnly(index - 2, headers)
    BY <1>4, <2>1 DEF HeadersInv, MapInv
  <2>4. map = H!Insert(headers, Named((index - 2) + 1), message.headers[(index - 2) + 1].value)
    BY <2>1, <2>2 DEF Named
  <2> QED  BY <1>1, <2>1, <2>3, <2>4, StoreLine
<1> QED  BY <1>3, <1>4

-----------------------------------------------------------------------------
\* on_header_field, with the characters up to the m-th.
LEMMA FieldReported ==
  ASSUME HeadersInv, section # "complete", part = "name", index <= Len(H!Lines),
         NEW m \in offset..Len(H!Lines[index].name),
         H!onHeaderField(SubSeq(H!Lines[index].name, offset + 1, m))
  PROVE  /\ m_wasHeaderValue' = FALSE
         /\ m_lastHeaderField' = SubSeq(H!Lines[index].name, 1, m)
         /\ headers' = IF offset = 0 /\ index > 1
                         THEN H!Insert(headers, H!Lower(H!Lines[index - 1].name),
                                       H!Lines[index - 1].value)
                         ELSE headers
<1> DEFINE name == H!Lines[index].name
<1> DEFINE last == H!Lines[index - 1]
<1>1. /\ name \in Seq(Characters) /\ Len(name) \in Nat /\ offset \in 0..Len(name)
      /\ index \in Nat \ {0} /\ index \in 1..Len(H!Lines) /\ offset \in Nat
  <2>1. index \in 1..Len(H!Lines) /\ Len(H!Lines) \in Nat
    BY ArrivingLine DEF HeadersInv, PlaceInv
  <2>2. name \in Seq(Characters)
    BY <2>1, ArrivingLine DEF HeadersInv
  <2>3. H!Text = name
    BY DEF H!Text
  <2> QED  BY <2>1, <2>2, <2>3 DEF HeadersInv, PlaceInv
<1>2. /\ SubSeq(name, 1, offset) \o SubSeq(name, offset + 1, m) = SubSeq(name, 1, m)
      /\ <<>> \o SubSeq(name, 1, m) = SubSeq(name, 1, m)
  BY <1>1, TextPieces
<1>3. HeldInv
  BY DEF HeadersInv
<1> HIDE DEF name
<1>4. H!onHeaderField(SubSeq(name, offset + 1, m))
  BY DEF name
<1>5. CASE offset = 0 /\ index = 1
  <2>1. m_lastHeaderField = <<>>
    BY <1>3, <1>5 DEF HeldInv
  <2>2. offset + 1 = 1
    BY <1>5
  <2> QED  BY <1>2, <1>4, <1>5, <2>1, <2>2 DEF H!onHeaderField, name
<1>6. CASE offset = 0 /\ index > 1
  <2>1. m_wasHeaderValue = TRUE /\ m_lastHeaderField = last.name /\ m_lastHeaderValue = last.value
    BY <1>1, <1>3, <1>6 DEF HeldInv
  <2>2. last.name # <<>>
    <3>1. index - 1 \in 1..Len(H!Lines)
      BY <1>1, <1>6, ArrivingLine DEF HeadersInv
    <3> QED  BY <3>1, ArrivingLine DEF HeadersInv
  <2>3. offset + 1 = 1
    BY <1>6
  <2> QED  BY <1>4, <1>6, <2>1, <2>2, <2>3 DEF H!onHeaderField, name
<1>7. CASE offset > 0
  <2>1. m_wasHeaderValue = FALSE /\ m_lastHeaderField = SubSeq(name, 1, offset)
    BY <1>1, <1>3, <1>7 DEF HeldInv, name
  <2>2. /\ m_lastHeaderField' = SubSeq(name, 1, m)
        /\ m_wasHeaderValue' = FALSE /\ headers' = headers
    BY <1>2, <1>4, <2>1 DEF H!onHeaderField
  <2>3. offset # 0
    BY <1>7
  <2> QED  BY <2>2, <2>3 DEF name
<1>8. (offset = 0 /\ index = 1) \/ (offset = 0 /\ index > 1) \/ offset > 0
  BY <1>1
<1> QED  BY <1>5, <1>6, <1>7, <1>8, Zenon

\* on_header_value, likewise.
LEMMA ValueReported ==
  ASSUME HeadersInv, section # "complete", part = "value", index <= Len(H!Lines),
         NEW m \in offset..Len(H!Lines[index].value),
         H!onHeaderValue(SubSeq(H!Lines[index].value, offset + 1, m))
  PROVE  /\ m_wasHeaderValue' = TRUE
         /\ m_lastHeaderField = H!Lines[index].name
         /\ m_lastHeaderField' = m_lastHeaderField
         /\ m_lastHeaderValue' = SubSeq(H!Lines[index].value, 1, m)
         /\ headers' = headers
<1> DEFINE value == H!Lines[index].value
<1>1. value \in Seq(Characters) /\ Len(value) \in Nat /\ offset \in 0..Len(value) /\ offset \in Nat
  <2>1. index \in 1..Len(H!Lines) /\ Len(H!Lines) \in Nat
    BY ArrivingLine DEF HeadersInv, PlaceInv
  <2>2. value \in Seq(Characters)
    BY <2>1, ArrivingLine DEF HeadersInv
  <2>3. H!Text = value
    BY DEF H!Text
  <2> QED  BY <2>1, <2>2, <2>3 DEF HeadersInv, PlaceInv
<1>2. SubSeq(value, 1, offset) \o SubSeq(value, offset + 1, m) = SubSeq(value, 1, m)
  BY <1>1, TextPieces
<1>3. HeldInv
  BY DEF HeadersInv
<1> HIDE DEF value
<1>4. H!onHeaderValue(SubSeq(value, offset + 1, m))
  BY DEF value
<1>5. m_lastHeaderField = H!Lines[index].name
  BY <1>3 DEF HeldInv
<1>6. CASE offset = 0
  <2>1. m_wasHeaderValue = FALSE /\ offset + 1 = 1
    BY <1>3, <1>6 DEF HeldInv
  <2> QED  BY <1>4, <1>5, <2>1 DEF H!onHeaderValue, value
<1>7. CASE offset > 0
  <2>1. m_wasHeaderValue = TRUE /\ m_lastHeaderValue = SubSeq(value, 1, offset)
    BY <1>3, <1>7 DEF HeldInv, value
  <2> QED  BY <1>2, <1>4, <1>5, <2>1 DEF H!onHeaderValue, value
<1>8. offset = 0 \/ offset > 0
  BY <1>1
<1> QED  BY <1>6, <1>7, <1>8, Zenon

-----------------------------------------------------------------------------
\* The lemmas say what is in a map of this state, and the invariant what is
\* in the map of the next.
LEMMA SameLines ==
  ASSUME message' = message
  PROVE  /\ \A k, map : Stored(k, map) /\ k = Done' /\ map = headers' => Stored(Done, headers)'
         /\ \A k, map : StoredOnly(k, map) /\ k = Done' /\ map = headers'
                          => StoredOnly(Done, headers)'
         /\ ComesFrom(headers', {message.headers, message.trailers})
              => ComesFrom(headers, {message.headers, message.trailers})'
         /\ section' = section => (H!Lines)' = H!Lines
BY DEF Stored, StoredOnly, ComesFrom, Named, FirstOfName, H!Lower, H!Lines

\* A piece of a name, of which m characters have been reported by then.
LEMMA FieldStep ==
  ASSUME HeadersInv, section # "complete", part = "name", index <= Len(H!Lines),
         NEW m \in offset..Len(H!Lines[index].name),
         H!onHeaderField(SubSeq(H!Lines[index].name, offset + 1, m)),
         UNCHANGED <<message, section, index>>,
         \/ part' = "name" /\ offset' = m /\ m > 0
         \/ part' = "value" /\ offset' = 0 /\ m = Len(H!Lines[index].name)
  PROVE  HeadersInv'
<1> DEFINE line == H!Lines[index]
<1> DEFINE last == H!Lines[index - 1]
<1>1. /\ line.name \in Seq(Characters) /\ Len(line.name) \in Nat
      /\ line.value \in Seq(Characters) /\ Len(line.value) \in Nat
      /\ index \in Nat \ {0} /\ index \in 1..Len(H!Lines) /\ Len(H!Lines) \in Nat
      /\ offset \in Nat /\ m \in Nat
  <2>1. index \in 1..Len(H!Lines) /\ index \in Nat \ {0} /\ Len(H!Lines) \in Nat /\ offset \in Nat
    BY ArrivingLine DEF HeadersInv, PlaceInv
  <2>2. line.name \in Seq(Characters) /\ line.value \in Seq(Characters)
    BY <2>1, ArrivingLine DEF HeadersInv
  <2> QED  BY <2>1, <2>2
<1>2. /\ m_wasHeaderValue' = FALSE
      /\ m_lastHeaderField' = SubSeq(line.name, 1, m)
      /\ headers' = IF offset = 0 /\ index > 1
                      THEN H!Insert(headers, H!Lower(last.name), last.value)
                      ELSE headers
  BY FieldReported
<1>3. (H!Lines)' = H!Lines
  BY DEF H!Lines
<1>4. PlaceInv'
  <2>1. (H!Text)' = IF part' = "name" THEN line.name ELSE line.value
    BY <1>3 DEF H!Text
  <2>2. offset' \in Nat /\ offset' <= Len((H!Text)')
    BY <1>1, <2>1
  <2> QED  BY <1>1, <1>3, <2>2 DEF HeadersInv, PlaceInv
<1>5. HeldInv'
  <2>1. SubSeq(line.name, 1, Len(line.name)) = line.name
    BY <1>1, SubSeqFull
  <2> HIDE DEF line
  <2>2. CASE part' = "name" /\ offset' = m /\ m > 0
    BY <1>2, <1>3, <2>2 DEF HeldInv, line
  <2>3. CASE part' = "value" /\ offset' = 0 /\ m = Len(line.name)
    BY <1>2, <1>3, <2>1, <2>3 DEF HeldInv, line
  <2> QED  BY <2>2, <2>3 DEF line
<1>6. Done' = IF section # "headers" THEN Len(message.headers) ELSE index - 1
  BY <1>1 DEF Done
<1>7. MapInv'
  <2>1. CASE offset = 0 /\ index > 1
    <3>1. headers' = H!Insert(headers, H!Lower(H!Lines[index - 1].name), H!Lines[index - 1].value)
      BY <1>2, <2>1
    <3>2. /\ section = "headers" => Stored(index - 1, headers') /\ StoredOnly(index - 1, headers')
          /\ section # "headers" => Stored(Done, headers')
          /\ ComesFrom(headers', {message.headers, message.trailers})
      BY <2>1, <3>1, StoreLast
    <3>3. section # "headers" => Done' = Done
      BY <1>6 DEF Done
    <3> QED  BY <1>6, <3>2, <3>3, SameLines DEF MapInv
  <2>2. CASE ~ (offset = 0 /\ index > 1)
    <3>1. headers' = headers
      BY <1>2, <2>2
    <3>2. Done' = Done
      BY <1>1, <1>6, <2>2 DEF Done
    <3> QED  BY <3>1, <3>2, SameLines DEF HeadersInv, MapInv
  <2> QED  BY <2>1, <2>2
<1> QED  BY <1>4, <1>5, <1>7 DEF HeadersInv

\* A reported piece of a value keeps the invariant.
LEMMA ValueReportedStep ==
  ASSUME HeadersInv, section # "complete", part = "value", index <= Len(H!Lines),
         NEW m \in offset..Len(H!Lines[index].value),
         H!onHeaderValue(SubSeq(H!Lines[index].value, offset + 1, m)),
         UNCHANGED <<message, section>>,
         \/ part' = "value" /\ offset' = m /\ m > 0 /\ index' = index
         \/ part' = "name" /\ offset' = 0 /\ m = Len(H!Lines[index].value) /\ index' = index + 1
  PROVE  HeadersInv'
<1> DEFINE line == H!Lines[index]
<1>1. /\ line.value \in Seq(Characters) /\ Len(line.value) \in Nat
      /\ index \in Nat \ {0} /\ index \in 1..Len(H!Lines) /\ Len(H!Lines) \in Nat
      /\ offset \in Nat /\ m \in Nat
  <2>1. index \in 1..Len(H!Lines) /\ index \in Nat \ {0} /\ Len(H!Lines) \in Nat /\ offset \in Nat
    BY ArrivingLine DEF HeadersInv, PlaceInv
  <2>2. line.value \in Seq(Characters)
    BY <2>1, ArrivingLine DEF HeadersInv
  <2> QED  BY <2>1, <2>2
<1>2. /\ m_wasHeaderValue' = TRUE
      /\ m_lastHeaderField' = line.name
      /\ m_lastHeaderValue' = SubSeq(line.value, 1, m)
      /\ headers' = headers
  BY ValueReported
<1>3. (H!Lines)' = H!Lines
  BY DEF H!Lines
<1>4. SubSeq(line.value, 1, Len(line.value)) = line.value
  BY <1>1, SubSeqFull
<1>5. Done' = Done
  BY <1>1 DEF Done
<1>6. MapInv'
  BY <1>2, <1>5, SameLines DEF HeadersInv, MapInv
<1>7. CASE part' = "value" /\ offset' = m /\ m > 0 /\ index' = index
  <2>1. (H!Text)' = line.value
    BY <1>3, <1>7 DEF H!Text
  <2>2. PlaceInv'
    BY <1>1, <1>3, <1>7, <2>1 DEF HeadersInv, PlaceInv
  <2>3. HeldInv'
    BY <1>2, <1>3, <1>7 DEF HeldInv
  <2> QED  BY <1>6, <2>2, <2>3 DEF HeadersInv
<1>8. CASE part' = "name" /\ offset' = 0 /\ m = Len(line.value) /\ index' = index + 1
  <2>1. (H!Lines)'[index' - 1] = line
    BY <1>1, <1>3, <1>8
  <2>2. PlaceInv'
    <3>1. index' \in 1..(Len((H!Lines)') + 1)
      BY <1>1, <1>3, <1>8
    <3>2. Len((H!Text)') >= 0 \/ index' > Len((H!Lines)')
      <4>1. ASSUME index' <= Len((H!Lines)')  PROVE Len((H!Text)') \in Nat
        <5>1. index' \in 1..Len(H!Lines) /\ (H!Text)' = H!Lines[index'].name
          BY <1>1, <1>3, <1>8, <4>1 DEF H!Text
        <5>2. H!Lines[index'].name \in Seq(Characters)
          BY <5>1, ArrivingLine DEF HeadersInv
        <5> QED  BY <5>1, <5>2
      <4> QED  BY <1>1, <1>3, <1>8, <4>1
    <3> QED  BY <1>1, <1>3, <1>8, <3>1, <3>2 DEF HeadersInv, PlaceInv
  <2>3. HeldInv'
    <3>1. m_lastHeaderValue' = line.value
      BY <1>2, <1>4, <1>8
    <3>2. part' = "name" /\ offset' = 0 /\ index' > 1
      BY <1>1, <1>8
    <3> HIDE DEF line
    <3> QED  BY <1>2, <2>1, <3>1, <3>2 DEF HeldInv
  <2> QED  BY <1>6, <2>2, <2>3 DEF HeadersInv
<1> QED  BY <1>7, <1>8

\* A piece of a line that is not its last.
LEMMA PieceStep == ASSUME HeadersInv, H!Piece  PROVE HeadersInv'
<1>1. section # "complete" /\ index <= Len(H!Lines) /\ UNCHANGED <<message, section, index, part>>
  BY DEF H!Piece
<1>2. PICK n \in 1..(Len(H!Text) - offset) :
        H!Callback(SubSeq(H!Text, offset + 1, offset + n)) /\ offset' = offset + n
  BY DEF H!Piece
<1>3. offset \in Nat /\ Len(H!Text) \in Nat
  <2>1. index \in 1..Len(H!Lines)
    BY <1>1, ArrivingLine DEF HeadersInv, PlaceInv
  <2>2. H!Text \in Seq(Characters)
    BY <2>1, ArrivingLine DEF HeadersInv, H!Text
  <2> QED  BY <2>2 DEF HeadersInv, PlaceInv
<1>4. offset + n \in offset..Len(H!Text) /\ offset + n > 0
  BY <1>3
<1>5. CASE part = "name"
  <2>1. H!Text = H!Lines[index].name
    BY <1>5 DEF H!Text
  <2>2. H!onHeaderField(SubSeq(H!Lines[index].name, offset + 1, offset + n))
    BY <1>2, <1>5, <2>1 DEF H!Callback
  <2> QED  BY <1>1, <1>2, <1>4, <1>5, <2>1, <2>2, FieldStep
<1>6. CASE part # "name"
  <2>1. H!Text = H!Lines[index].value /\ part = "value"
    BY <1>6 DEF H!Text, HeadersInv, PlaceInv
  <2>2. H!onHeaderValue(SubSeq(H!Lines[index].value, offset + 1, offset + n))
    BY <1>2, <1>6, <2>1 DEF H!Callback
  <2> QED  BY <1>1, <1>2, <1>4, <2>1, <2>2, ValueReportedStep
<1> QED  BY <1>5, <1>6

\* The last piece of a name or of a value.
LEMMA LastPieceStep == ASSUME HeadersInv, H!LastPiece  PROVE HeadersInv'
<1>1. /\ section # "complete" /\ index <= Len(H!Lines) /\ UNCHANGED <<message, section>>
      /\ H!Callback(SubSeq(H!Text, offset + 1, Len(H!Text))) /\ offset' = 0
      /\ IF part = "name" THEN part' = "value" /\ UNCHANGED index
                          ELSE part' = "name" /\ index' = index + 1
  BY DEF H!LastPiece
<1>2. Len(H!Text) \in offset..Len(H!Text)
  <2>1. index \in 1..Len(H!Lines)
    BY <1>1, ArrivingLine DEF HeadersInv, PlaceInv
  <2>2. H!Text \in Seq(Characters)
    BY <2>1, ArrivingLine DEF HeadersInv, H!Text
  <2> QED  BY <1>1, <2>2 DEF HeadersInv, PlaceInv
<1>3. CASE part = "name"
  <2>1. H!Text = H!Lines[index].name
    BY <1>3 DEF H!Text
  <2>2. H!onHeaderField(SubSeq(H!Lines[index].name, offset + 1, Len(H!Lines[index].name)))
    BY <1>1, <1>3, <2>1 DEF H!Callback
  <2> QED  BY <1>1, <1>2, <1>3, <2>1, <2>2, FieldStep
<1>4. CASE part # "name"
  <2>1. H!Text = H!Lines[index].value /\ part = "value"
    BY <1>4 DEF H!Text, HeadersInv, PlaceInv
  <2>2. H!onHeaderValue(SubSeq(H!Lines[index].value, offset + 1, Len(H!Lines[index].value)))
    BY <1>1, <1>4, <2>1 DEF H!Callback
  <2> QED  BY <1>1, <1>2, <2>1, <2>2, ValueReportedStep
<1> QED  BY <1>3, <1>4

\* on_headers_complete stores the last line.
LEMMA EndOfHeadersStep == ASSUME HeadersInv, H!EndOfHeaders  PROVE HeadersInv'
<1>1. /\ section = "headers" /\ index > Len(H!Lines) /\ section' = "trailers" /\ index' = 1
      /\ UNCHANGED <<message, part, offset>> /\ H!onHeadersComplete
  BY DEF H!EndOfHeaders
<1>2. /\ H!Lines = message.headers /\ (H!Lines)' = message.trailers
      /\ Len(message.headers) \in Nat /\ Len(message.trailers) \in Nat
      /\ part = "name" /\ offset = 0 /\ index = Len(message.headers) + 1
  <2>1. H!Lines = message.headers /\ (H!Lines)' = message.trailers
    BY <1>1 DEF H!Lines
  <2>2. Len(message.headers) \in Nat /\ Len(message.trailers) \in Nat
    BY HeaderLines DEF HeadersInv, PlaceInv
  <2> QED  BY <1>1, <2>1, <2>2 DEF HeadersInv, PlaceInv
<1>3. HeldInv
  BY <1>1 DEF HeadersInv
<1>4. PlaceInv'
  <2>1. ASSUME 1 <= Len(message.trailers)  PROVE 0 <= Len((H!Text)')
    <3>1. (H!Text)' = message.trailers[1].name
      BY <1>1, <1>2 DEF H!Text
    <3>2. message.trailers[1].name \in Seq(Characters)
      BY <1>2, <2>1, HeaderLines DEF HeadersInv, PlaceInv
    <3> QED  BY <3>1, <3>2
  <2> QED  BY <1>1, <1>2, <2>1 DEF HeadersInv, PlaceInv
<1>5. Done' = Len(message.headers)
  BY <1>1 DEF Done
<1>6. CASE index = 1
  <2>1. m_lastHeaderField = <<>> /\ m_wasHeaderValue \in BOOLEAN
    BY <1>2, <1>3, <1>6 DEF HeldInv
  <2>2. UNCHANGED <<m_lastHeaderField, m_wasHeaderValue, headers>>
    BY <1>1, <2>1 DEF H!onHeadersComplete
  <2>3. HeldInv'
    BY <1>1, <1>2, <2>1, <2>2 DEF HeldInv
  <2>4. Done = 0 /\ Len(message.headers) = 0
    BY <1>1, <1>2, <1>6 DEF Done
  <2>5. MapInv'
    BY <1>1, <1>5, <2>2, <2>4, SameLines DEF HeadersInv, MapInv
  <2> QED  BY <1>4, <2>3, <2>5 DEF HeadersInv
<1>7. CASE index > 1
  <2> DEFINE last == H!Lines[index - 1]
  <2>1. m_wasHeaderValue = TRUE /\ m_lastHeaderField = last.name /\ m_lastHeaderValue = last.value
    BY <1>2, <1>3, <1>7 DEF HeldInv
  <2>2. last.name # <<>>
    <3>1. index - 1 \in 1..Len(message.headers)
      BY <1>2, <1>7
    <3> QED  BY <1>2, <3>1, HeaderLines DEF HeadersInv, PlaceInv
  <2>3. /\ headers' = H!Insert(headers, H!Lower(last.name), last.value)
        /\ m_lastHeaderField' = <<>> /\ m_wasHeaderValue' = TRUE
    BY <1>1, <2>1, <2>2 DEF H!onHeadersComplete
  <2>4. HeldInv'
    BY <1>1, <1>2, <2>3 DEF HeldInv
  <2>5. /\ Stored(index - 1, headers')
        /\ ComesFrom(headers', {message.headers, message.trailers})
    BY <1>1, <1>2, <1>7, <2>3, StoreLast
  <2>6. index - 1 = Len(message.headers)
    BY <1>2
  <2>7. MapInv'
    BY <1>1, <1>5, <2>5, <2>6, SameLines DEF MapInv
  <2> QED  BY <1>4, <2>4, <2>7 DEF HeadersInv
<1>8. index = 1 \/ index > 1
  BY <1>2
<1> QED  BY <1>6, <1>7, <1>8

\* The end of the message.
LEMMA EndOfMessageStep == ASSUME HeadersInv, H!EndOfMessage  PROVE HeadersInv'
<1>1. /\ section = "trailers" /\ section' = "complete"
      /\ UNCHANGED <<message, index, part, offset, headers>>
  BY DEF H!EndOfMessage, H!context
<1>2. (H!Lines)' = H!Lines /\ (H!Text)' = H!Text /\ Done' = Done
  BY <1>1 DEF H!Lines, H!Text, Done
<1>3. PlaceInv'
  BY <1>1, <1>2 DEF HeadersInv, PlaceInv
<1>4. MapInv'
  BY <1>1, <1>2, SameLines DEF HeadersInv, MapInv
<1> QED  BY <1>1, <1>3, <1>4 DEF HeadersInv

\* A step that changes nothing keeps the invariant.
LEMMA HeadersStutter == ASSUME HeadersInv, UNCHANGED H!vars  PROVE HeadersInv'
<1>1. /\ UNCHANGED <<message, section, index, part, offset, headers>>
      /\ UNCHANGED <<m_wasHeaderValue, m_lastHeaderField, m_lastHeaderValue>>
  BY DEF H!vars, H!parser, H!context
<1>2. (H!Lines)' = H!Lines /\ (H!Text)' = H!Text /\ Done' = Done
  BY <1>1 DEF H!Lines, H!Text, Done
<1>3. PlaceInv'
  BY <1>1, <1>2 DEF HeadersInv, PlaceInv
<1>4. HeldInv' <=> HeldInv
  BY <1>1, <1>2 DEF HeldInv
<1>5. MapInv'
  BY <1>1, <1>2, SameLines DEF HeadersInv, MapInv
<1> QED  BY <1>1, <1>3, <1>4, <1>5 DEF HeadersInv

\* The first state is one of these.
LEMMA HeadersInit == H!Init => HeadersInv
<1> SUFFICES ASSUME H!Init  PROVE HeadersInv
  OBVIOUS
<1>1. /\ message \in Messages /\ section = "headers" /\ index = 1 /\ part = "name" /\ offset = 0
      /\ m_wasHeaderValue = FALSE /\ m_lastHeaderField = <<>> /\ DOMAIN headers = {}
  BY DEF H!Init
<1>2. H!Lines = message.headers /\ Len(message.headers) \in Nat
  BY <1>1, HeaderLines DEF H!Lines
<1>3. PlaceInv
  <2>1. ASSUME 1 <= Len(message.headers)  PROVE 0 <= Len(H!Text)
    <3>1. H!Text = message.headers[1].name
      BY <1>1, <1>2 DEF H!Text
    <3>2. message.headers[1].name \in Seq(Characters)
      BY <1>1, <1>2, <2>1, HeaderLines
    <3> QED  BY <3>1, <3>2
  <2> QED  BY <1>1, <1>2, <2>1 DEF PlaceInv
<1>4. HeldInv
  BY <1>1 DEF HeldInv
<1>5. Done = 0
  BY <1>1 DEF Done
<1>6. MapInv
  BY <1>1, <1>5 DEF MapInv, Stored, StoredOnly, ComesFrom
<1> QED  BY <1>3, <1>4, <1>6 DEF HeadersInv

\* The value of a name is that of its first line.
LEMMA StoredIsExact ==
  ASSUME message \in Messages, Stored(Len(message.headers), headers),
         NEW name \in H!Names(message.headers)
  PROVE  name \in DOMAIN headers /\ headers[name] = H!FirstValue(message.headers, name)
<1> DEFINE T == {i \in 1..Len(message.headers) : Named(i) = name}
<1>1. Len(message.headers) \in Nat /\ DOMAIN message.headers = 1..Len(message.headers)
  BY HeaderLines
<1>2. T # {} /\ T \subseteq Nat
  BY <1>1 DEF H!Names, Named
<1>3. PICK i \in T : \A j \in T : i <= j
  BY <1>2, LeastNat
<1>4. /\ i \in DOMAIN message.headers /\ H!Lower(message.headers[i].name) = name
      /\ \A j \in 1..(i - 1) : H!Lower(message.headers[j].name) # name
  <2>1. i \in 1..Len(message.headers) /\ Named(i) = name
    BY <1>3
  <2>2. ASSUME NEW j \in 1..(i - 1), Named(j) = name  PROVE FALSE
    <3>1. j \in 1..Len(message.headers) /\ j < i
      BY <1>1, <2>1
    <3>2. j \in T
      BY <2>2, <3>1
    <3> QED  BY <1>1, <1>3, <2>1, <3>1, <3>2
  <2> QED  BY <1>1, <2>1, <2>2 DEF Named
<1> DEFINE First(k) == /\ H!Lower(message.headers[k].name) = name
                       /\ \A j \in 1..(k - 1) : H!Lower(message.headers[j].name) # name
<1> DEFINE c == CHOOSE k \in DOMAIN message.headers : First(k)
<1>5. c \in DOMAIN message.headers /\ First(c)
  BY <1>4
<1>6. H!FirstValue(message.headers, name) = message.headers[c].value
  BY DEF H!FirstValue
<1> HIDE DEF c
<1>7. Named(c) = name /\ FirstOfName(c) /\ c \in 1..Len(message.headers)
  BY <1>1, <1>5 DEF Named, FirstOfName
<1> QED  BY <1>6, <1>7 DEF Stored

(***************************************************************************)
(* However the response is cut into reads, every name has the value of its *)
(* first line once the headers are complete, trailers change none, and     *)
(* nothing else is in the map (HttpContext.cpp).                           *)
(***************************************************************************)
THEOREM HeadersKeptHolds == H!Spec => []HeadersKept
<1>1. HeadersInv /\ [H!Next]_(H!vars) => HeadersInv'
  BY PieceStep, LastPieceStep, EndOfHeadersStep, EndOfMessageStep, HeadersStutter DEF H!Next
<1>2. HeadersInv => HeadersKept
  <2> SUFFICES ASSUME HeadersInv  PROVE H!HeadersExact /\ H!NothingMadeUp
    BY DEF HeadersKept
  <2>1. H!NothingMadeUp
    BY DEF HeadersInv, MapInv, ComesFrom, H!NothingMadeUp
  <2>2. ASSUME section # "headers", NEW name \in H!Names(message.headers)
        PROVE  name \in DOMAIN headers /\ headers[name] = H!FirstValue(message.headers, name)
    <3>1. message \in Messages /\ Stored(Len(message.headers), headers)
      BY <2>2 DEF HeadersInv, PlaceInv, MapInv, Done
    <3> QED  BY <3>1, StoredIsExact
  <2> QED  BY <2>1, <2>2 DEF H!HeadersExact
<1> QED  BY HeadersInit, <1>1, <1>2, PTL DEF H!Spec

\* Strings counts as this module does.
LEMMA SameCardinality ==
  ASSUME NEW A  PROVE S!Cardinality(A) = Cardinality(A)
BY DEF S!Cardinality, Cardinality

-----------------------------------------------------------------------------
(* Strings: the texts that split() and join() make.                         *)
String == Seq(Letters)

\* A table on 1..n is a sequence.
LEMMA TableIsSeq ==
  ASSUME NEW Q, NEW n \in Nat, NEW f \in [1..n -> Q]  PROVE f \in Seq(Q)
BY SeqDef

\* A part of a text is a text.
LEMMA SubText ==
  ASSUME NEW t \in String, NEW i \in 1..(Len(t) + 1), NEW j \in 0..Len(t)
  PROVE  SubSeq(t, i, j) \in String
<1>1. \A k \in i..j : t[k] \in Letters
  BY ElementOfSeq DEF String
<1> QED  BY <1>1, SubSeqProperties DEF String

\* A text up to its first NUL is a text.
LEMMA TextOfC ==
  ASSUME NEW t \in String  PROVE S!CText(t) \in String
<1> DEFINE ends == {i \in DOMAIN t : t[i] = S!NUL}
<1>1. CASE ends = {}
  BY <1>1 DEF S!CText
<1>2. CASE ends # {}
  <2>1. DOMAIN t = 1..Len(t) /\ Len(t) \in Nat
    BY LenProperties DEF String
  <2>2. ends \subseteq Nat
    BY <2>1
  <2>3. PICK i \in ends : \A j \in ends : i <= j
    BY <1>2, <2>2, LeastNat
  <2> DEFINE c == CHOOSE k \in ends : \A j \in ends : k <= j
  <2>4. c \in ends
    BY <2>3
  <2>5. c - 1 \in 0..Len(t) /\ 1 \in 1..(Len(t) + 1)
    BY <2>1, <2>4
  <2> HIDE DEF c
  <2>6. SubSeq(t, 1, c - 1) \in String
    BY <2>5, SubText
  <2> QED  BY <1>2, <2>6 DEF S!CText, c
<1> QED  BY <1>1, <1>2

\* The n-th member of a finite set of numbers.
LEMMA NthMember ==
  ASSUME NEW B \in Nat, NEW E, \A j \in E : j \in Nat /\ j <= B, NEW n \in 1..Cardinality(E)
  PROVE  \E i \in E : Cardinality({j \in E : j <= i}) = n
<1> DEFINE Upto(k) == {j \in E : j <= k}
<1>1. ASSUME NEW k \in Int
      PROVE  IsFiniteSet(Upto(k)) /\ Cardinality(Upto(k)) \in Nat
  <2>1. IsFiniteSet(0..B)
    BY FS_Interval
  <2>2. Upto(k) \in SUBSET (0..B)
    OBVIOUS
  <2> QED  BY <2>1, <2>2, FS_Subset, FS_CardinalityType
<1> DEFINE T == {k \in Nat : n <= Cardinality(Upto(k))}
<1>2. Upto(B) = E
  OBVIOUS
<1>3. n \in Nat \ {0} /\ n <= Cardinality(E)
  <2>1. Cardinality(E) \in Nat
    BY <1>1, <1>2
  <2> QED  BY <2>1
<1>4. B \in T
  BY <1>2, <1>3
<1>5. PICK k \in T : \A j \in T : k <= j
  <2>1. T \subseteq Nat /\ T # {}
    BY <1>4
  <2> HIDE DEF T
  <2> QED  BY <2>1, LeastNat
<1>6. k \in Nat /\ k - 1 \in Int /\ n <= Cardinality(Upto(k))
  BY <1>5
<1>7. Cardinality(Upto(k - 1)) < n
  <2>1. CASE k = 0
    <3>1. Upto(k - 1) = {}
      BY <2>1
    <3> QED  BY <1>3, <3>1, FS_EmptySet
  <2>2. CASE k # 0
    <3>1. k - 1 \in Nat /\ ~ (k <= k - 1)
      BY <1>6, <2>2
    <3>2. k - 1 \notin T
      BY <1>5, <3>1
    <3>3. Cardinality(Upto(k - 1)) \in Nat
      BY <1>1, <1>6
    <3> QED  BY <1>3, <3>1, <3>2, <3>3
  <2> QED  BY <2>1, <2>2
<1>8. IsFiniteSet(Upto(k - 1)) /\ Cardinality(Upto(k - 1)) \in Nat
  BY <1>1, <1>6
<1>9. CASE k \in E
  <2>1. Upto(k) = Upto(k - 1) \cup {k} /\ k \notin Upto(k - 1)
    <3>1. \A j \in E : j <= k <=> j <= k - 1 \/ j = k
      BY <1>6
    <3>2. ~ (k <= k - 1)
      BY <1>6
    <3> QED  BY <1>9, <3>1, <3>2
  <2> HIDE DEF Upto
  <2>2. Cardinality(Upto(k)) = Cardinality(Upto(k - 1)) + 1
    BY <1>8, <2>1, FS_AddElement
  <2>3. Cardinality(Upto(k)) = n
    BY <1>3, <1>6, <1>7, <1>8, <2>2
  <2> QED  BY <1>9, <2>3 DEF Upto
<1>10. CASE k \notin E
  <2>1. Upto(k) = Upto(k - 1)
    BY <1>6, <1>10
  <2> HIDE DEF Upto
  <2> QED  BY <1>3, <1>6, <1>7, <1>8, <2>1
<1> QED  BY <1>9, <1>10

\* The parts of a text are parts of it.
LEMMA SplitText ==
  ASSUME NEW t \in String  PROVE S!split(t) \in Seq(String)
<1> DEFINE cuts == S!Cuts(t)
<1> DEFINE ends == S!Ends(t)
<1>1. DOMAIN t = 1..Len(t) /\ Len(t) \in Nat
  BY LenProperties DEF String
<1>2. 0 \in cuts /\ \A c \in cuts : c \in Nat /\ c <= Len(t) + 1
  BY <1>1 DEF S!Cuts
<1>3. \A i \in ends : i \in cuts /\ i \in Nat /\ i <= Len(t) + 1 /\ i > 0
  BY <1>2 DEF S!Ends
<1>4. ASSUME NEW i \in ends  PROVE S!Start(t, i) \in cuts /\ S!Start(t, i) < i
  <2> DEFINE T == {k \in Nat : i - k \in cuts /\ k > 0}
  <2>1. i \in Nat \ {0}
    BY <1>3
  <2>2. i \in T /\ T \subseteq Nat
    <3>1. i - i = 0
      BY <2>1
    <3> QED  BY <1>2, <2>1, <3>1
  <2>3. PICK k \in T : \A j \in T : k <= j
    <3> HIDE DEF T
    <3> QED  BY <2>2, LeastNat
  <2>4. k \in Nat /\ i - k \in cuts /\ i - k < i
    BY <2>1, <2>3
  <2>5. ASSUME NEW e \in cuts, i - k < e, e < i  PROVE FALSE
    <3>1. e \in Nat
      BY <1>2
    <3>2. i - e \in Nat /\ i - (i - e) = e /\ i - e > 0
      BY <2>1, <2>5, <3>1
    <3>3. i - e \in T
      BY <3>2
    <3>4. k <= i - e
      BY <2>3, <3>3
    <3> QED  BY <2>1, <2>4, <2>5, <3>1, <3>4
  <2>6. \E c \in cuts : c < i /\ ~ \E e \in cuts : c < e /\ e < i
    BY <2>4, <2>5
  <2> QED  BY <2>6, Zenon DEF S!Start
<1>5. Cardinality(ends) \in Nat
  <2>1. IsFiniteSet(0..(Len(t) + 1))
    BY <1>1, FS_Interval
  <2>2. ends \in SUBSET (0..(Len(t) + 1))
    BY <1>1, <1>3
  <2> QED  BY <2>1, <2>2, FS_Subset, FS_CardinalityType
<1>6. ASSUME NEW n \in 1..Cardinality(ends)  PROVE S!End(t, n) \in ends
  <2>1. Len(t) + 1 \in Nat
    BY <1>1
  <2>2. \E i \in S!Ends(t) : Cardinality({j \in S!Ends(t) : j <= i}) = n
    <3> HIDE DEF ends
    <3>1. \E i \in ends : Cardinality({j \in ends : j <= i}) = n
      BY <1>3, <2>1, NthMember
    <3> QED  BY <3>1 DEF ends
  <2>3. S!End(t, n) = CHOOSE i \in S!Ends(t) : Cardinality({j \in S!Ends(t) : j <= i}) = n
    BY SameCardinality, Zenon DEF S!End
  <2> QED  BY <2>2, <2>3, Zenon
<1>7. ASSUME NEW i \in ends  PROVE S!Part(t, i) \in String
  <2>1. S!Start(t, i) \in Nat /\ S!Start(t, i) < i
    BY <1>2, <1>4
  <2>2. S!Start(t, i) + 1 \in 1..(Len(t) + 1) /\ i - 1 \in 0..Len(t)
    BY <1>1, <1>3, <2>1
  <2> QED  BY <2>2, SubText DEF S!Part
<1> DEFINE slice(n) == S!Part(t, S!End(t, n))
<1>8. \A n \in 1..Cardinality(ends) : slice(n) \in String
  BY <1>6, <1>7
<1>9. S!split(t) = [n \in 1..Cardinality(ends) |-> slice(n)]
  BY SameCardinality DEF S!split
<1> HIDE DEF slice, ends
<1>10. [n \in 1..Cardinality(ends) |-> slice(n)] \in Seq(String)
  <2>1. [n \in 1..Cardinality(ends) |-> slice(n)] \in [1..Cardinality(ends) -> String]
    BY <1>8
  <2> QED  BY <1>5, <2>1, TableIsSeq
<1> QED  BY <1>9, <1>10

\* The offsets of the parts in the buffer of join().
LEMMA OffsetNat ==
  ASSUME NEW parts \in Seq(String), NEW n \in 1..(Len(parts) + 1)
  PROVE  S!Offset(parts, n) \in Nat
<1> DEFINE Block(k) == UNION {{m} \X (0..Len(parts[m])) : m \in 1..(k - 1)}
<1>1. Len(parts) \in Nat
  BY LenProperties
<1> DEFINE T == {k \in 1..(Len(parts) + 1) : ~ IsFiniteSet(Block(k))}
<1>2. T = {}
  <2>1. SUFFICES ASSUME T # {}  PROVE FALSE
    OBVIOUS
  <2>2. T \subseteq Nat
    BY <1>1
  <2>3. PICK k \in T : \A j \in T : k <= j
    <3> HIDE DEF T
    <3> QED  BY <2>1, <2>2, LeastNat
  <2>4. k \in 1..(Len(parts) + 1) /\ k \in Nat /\ ~ IsFiniteSet(Block(k))
    BY <2>2, <2>3
  <2>5. CASE k = 1
    <3>1. Block(1) = {}
      OBVIOUS
    <3> QED  BY <2>4, <2>5, <3>1, FS_EmptySet
  <2>6. CASE k # 1
    <3>1. k - 1 \in 1..Len(parts) /\ k - 1 \in 1..(Len(parts) + 1) /\ ~ (k <= k - 1)
      BY <1>1, <2>4, <2>6
    <3>2. IsFiniteSet(Block(k - 1))
      BY <2>3, <3>1
    <3>3. Block(k) = Block(k - 1) \cup ({k - 1} \X (0..Len(parts[k - 1])))
      <4>1. 1..(k - 1) = 1..((k - 1) - 1) \cup {k - 1}
        BY <2>4, <3>1
      <4> QED  BY <4>1
    <3>4. IsFiniteSet({k - 1} \X (0..Len(parts[k - 1])))
      <4>1. parts[k - 1] \in Seq(Letters)
        BY <3>1, ElementOfSeq DEF String
      <4>2. Len(parts[k - 1]) \in Int /\ 0 \in Int
        BY <4>1, LenProperties
      <4>3. IsFiniteSet(0..Len(parts[k - 1])) /\ IsFiniteSet({k - 1})
        BY <4>2, FS_Interval, FS_Singleton
      <4> QED  BY <4>3, FS_Product
    <3> HIDE DEF Block
    <3>5. IsFiniteSet(Block(k))
      <4> DEFINE A == Block(k - 1)
      <4> DEFINE C == {k - 1} \X (0..Len(parts[k - 1]))
      <4>1. IsFiniteSet(A) /\ IsFiniteSet(C) /\ Block(k) = A \cup C
        BY <3>2, <3>3, <3>4
      <4> HIDE DEF A, C
      <4> QED  BY <4>1, FS_Union
    <3> QED  BY <2>4, <3>5 DEF Block
  <2> QED  BY <2>5, <2>6
<1>3. IsFiniteSet(Block(n))
  BY <1>2
<1>4. Cardinality(Block(n)) \in Nat
  <2> HIDE DEF Block
  <2> QED  BY <1>3, FS_CardinalityType
<1>5. S!Offset(parts, n) = Cardinality(Block(n))
  BY SameCardinality DEF S!Offset
<1> QED  BY <1>4, <1>5

\* What join() returns is a text.
LEMMA JoinText ==
  ASSUME NEW parts \in Seq(String)  PROVE S!join(parts) \in String
<1> DEFINE size == S!Offset(parts, Len(parts) + 1)
<1>1. Len(parts) \in Nat /\ DOMAIN parts = 1..Len(parts)
  BY LenProperties
<1>2. size \in Nat
  BY <1>1, OffsetNat
<1>3. ASSUME NEW k \in 1..(size - 1)  PROVE S!Joined(parts, k) \in Letters
  <2>1. CASE S!At(parts, k) = {}
    BY <2>1 DEF S!Joined, Letters
  <2>2. CASE S!At(parts, k) # {}
    <3> DEFINE n == CHOOSE n \in S!At(parts, k) : TRUE
    <3>1. n \in S!At(parts, k)
      BY <2>2
    <3>2. S!Joined(parts, k) = parts[n][k - S!Offset(parts, n)]
      BY <2>2 DEF S!Joined
    <3> HIDE DEF n
    <3>3. /\ n \in 1..Len(parts) /\ n \in 1..(Len(parts) + 1)
          /\ S!Offset(parts, n) < k /\ k <= S!Offset(parts, n) + Len(parts[n])
      BY <1>1, <3>1 DEF S!At
    <3>4. S!Offset(parts, n) \in Nat /\ k \in Nat
      BY <1>2, <3>3, OffsetNat
    <3>5. parts[n] \in Seq(Letters)
      BY <3>3, ElementOfSeq DEF String
    <3>6. Len(parts[n]) \in Nat
      BY <3>5, LenProperties
    <3>7. k - S!Offset(parts, n) \in 1..Len(parts[n])
      BY <3>3, <3>4, <3>6
    <3>8. parts[n][k - S!Offset(parts, n)] \in Letters
      BY <3>5, <3>7, ElementOfSeq
    <3> QED  BY <3>2, <3>8
  <2> QED  BY <2>1, <2>2
<1> DEFINE char(k) == S!Joined(parts, k)
<1>4. [k \in 1..(size - 1) |-> char(k)] \in Seq(Letters)
  <2>1. \A k \in 1..(size - 1) : char(k) \in Letters
    BY <1>3
  <2> HIDE DEF char, size
  <2>2. CASE size = 0
    <3>1. 1..(size - 1) = 1..0
      BY <2>2
    <3>2. [k \in 1..0 |-> char(k)] \in [1..0 -> Letters] /\ 0 \in Nat
      OBVIOUS
    <3> QED  BY <3>1, <3>2, TableIsSeq
  <2>3. CASE size # 0
    <3>1. size - 1 \in Nat
      BY <1>2, <2>3
    <3>2. [k \in 1..(size - 1) |-> char(k)] \in [1..(size - 1) -> Letters]
      BY <2>1
    <3> QED  BY <3>1, <3>2, TableIsSeq
  <2> QED  BY <2>2, <2>3
<1>5. S!join(parts) = S!CText([k \in 1..(size - 1) |-> char(k)])
  BY DEF S!join
<1> QED  BY <1>4, <1>5, TextOfC DEF String

-----------------------------------------------------------------------------
(* Strings: what every state keeps.  A String that is not alive has nothing *)
(* and a buffer holds a text of the size that its String knows.             *)
StringsTyped ==
  /\ m_data \in [Objects -> Nat] /\ m_size \in [Objects -> Nat]
  /\ alive \subseteq Objects
  /\ IsFiniteSet(DOMAIN heap)
  /\ \A a \in DOMAIN heap : heap[a] \in String
  /\ \A o \in Objects \ alive : m_data[o] = 0

StringsInv == StringsTyped /\ S!Owned

Content(o) == IF m_data[o] = 0 THEN <<>> ELSE heap[m_data[o]]

\* Where a String has its text.
LEMMA Buffers ==
  ASSUME StringsInv, NEW o \in Objects
  PROVE  /\ m_data[o] \in Nat /\ m_size[o] \in Nat
         /\ m_data[o] # 0 =>
              /\ o \in alive /\ m_data[o] \in DOMAIN heap
              /\ heap[m_data[o]] \in String /\ m_size[o] = Len(heap[m_data[o]])
         /\ m_data[o] = 0 => m_size[o] = 0
         /\ \A p \in Objects \ {o} : m_data[p] # m_data[o] \/ m_data[o] = 0
         /\ 0 \notin DOMAIN heap
<1>1. /\ m_data[o] \in Nat /\ m_size[o] \in Nat
      /\ o \notin alive => m_data[o] = 0
  BY DEF StringsInv, StringsTyped
<1>2. DOMAIN heap = {m_data[q] : q \in alive} \ {0}
  BY DEF StringsInv, S!Owned, S!nullptr
<1>3. ASSUME m_data[o] # 0
      PROVE  /\ o \in alive /\ m_data[o] \in DOMAIN heap
             /\ heap[m_data[o]] \in String /\ m_size[o] = Len(heap[m_data[o]])
  <2>1. o \in alive /\ m_data[o] \in DOMAIN heap
    BY <1>1, <1>2, <1>3
  <2> QED  BY <1>3, <2>1 DEF StringsInv, StringsTyped, S!Owned, S!nullptr
<1>4. m_data[o] = 0 => m_size[o] = 0
  BY DEF StringsInv, S!Owned, S!nullptr
<1>5. \A p \in Objects \ {o} : m_data[p] # m_data[o] \/ m_data[o] = 0
  BY DEF StringsInv, S!Owned, S!nullptr
<1>6. 0 \notin DOMAIN heap
  BY <1>2
<1> QED  BY <1>1, <1>3, <1>4, <1>5, <1>6

\* What a String shows is what its buffer holds.
LEMMA TextIsContent ==
  ASSUME StringsInv, NEW o \in Objects
  PROVE  S!Text(o) = Content(o) /\ Content(o) \in String
<1>1. CASE m_data[o] = 0
  <2>1. <<>> \in String
    BY DEF String
  <2> QED  BY <1>1, <2>1 DEF S!Text, Content, S!nullptr
<1>2. CASE m_data[o] # 0
  <2> DEFINE t == heap[m_data[o]]
  <2>1. t \in String /\ m_size[o] = Len(t)
    BY <1>2, Buffers
  <2>2. SubSeq(t, 1, Len(t)) = t
    <3> HIDE DEF t
    <3>1. t \in Seq(Letters)
      BY <2>1 DEF String
    <3> QED  BY <3>1
  <2>3. S!Text(o) = SubSeq(t, 1, m_size[o])
    BY <1>2 DEF S!Text, S!nullptr
  <2> QED  BY <1>2, <2>1, <2>2, <2>3 DEF Content
<1> QED  BY <1>1, <1>2

\* The same of the next state.
LEMMA TextIsContentNext ==
  StringsInv' => (\A o \in Objects : S!Text(o) = Content(o))'
<1>1. StringsInv => \A o \in Objects : S!Text(o) = Content(o)
  BY TextIsContent
<1> QED  BY <1>1, PTL

\* A new buffer is at an address that no String has.
LEMMA FreshAddress ==
  ASSUME StringsInv
  PROVE  S!Fresh \in Nat \ {0} /\ S!Fresh \notin DOMAIN heap
<1> DEFINE used == DOMAIN heap
<1> DEFINE n == Cardinality(used)
<1>1. IsFiniteSet(used)
  BY DEF StringsInv, StringsTyped
<1>2. n \in Nat
  <2> HIDE DEF used
  <2> QED  BY <1>1, FS_CardinalityType
<1>3. \E a \in 1..(n + 1) : a \notin used
  <2>1. SUFFICES ASSUME 1..(n + 1) \subseteq used  PROVE FALSE
    BY Zenon
  <2> HIDE DEF used
  <2>2. Cardinality(1..(n + 1)) <= n
    BY <1>1, <2>1, FS_Subset
  <2>3. Cardinality(1..(n + 1)) = n + 1
    <3> HIDE DEF n
    <3>1. 1 \in Int /\ n + 1 \in Int /\ ~ (1 > n + 1) /\ (n + 1) - 1 + 1 = n + 1
      BY <1>2
    <3> QED  BY <3>1, FS_Interval
  <2> HIDE DEF n
  <2> QED  BY <1>2, <2>2, <2>3
<1>4. S!Fresh = CHOOSE a \in 1..(n + 1) : a \notin used
  BY SameCardinality DEF S!Fresh
<1> HIDE DEF n, used
<1>5. S!Fresh \in 1..(n + 1) /\ S!Fresh \notin used
  BY <1>3, <1>4, Zenon
<1> QED  BY <1>2, <1>5 DEF used

\* A String that is given a buffer of its own.
LEMMA HoldsEffect ==
  ASSUME StringsInv, NEW o \in Objects, NEW text \in String,
         S!Holds(o, text), alive' = alive \cup {o}
  PROVE  /\ StringsInv'
         /\ \A p \in Objects \ {o} : Content(p)' = Content(p)
         /\ Content(o)' = text /\ m_data'[o] # 0
<1> DEFINE a == S!Fresh
<1> DEFINE old == m_data[o]
<1>1. a \in Nat \ {0} /\ a \notin DOMAIN heap
  BY FreshAddress
<1>2. /\ m_data' = [m_data EXCEPT ![o] = a]
      /\ m_size' = [m_size EXCEPT ![o] = Len(text)]
  BY DEF S!Holds
<1>3. /\ DOMAIN heap' = (DOMAIN heap \ {old}) \cup {a}
      /\ heap'[a] = text
      /\ \A b \in DOMAIN heap \ {old} : heap'[b] = heap[b]
  <2>1. heap' = [b \in (DOMAIN heap \ {old}) \cup {a} |->
                   IF b = a THEN text ELSE [c \in DOMAIN heap \ {old} |-> heap[c]][b]]
    BY DEF S!Holds, S!With, S!Without
  <2> HIDE DEF a, old
  <2> QED  BY <1>1, <2>1
<1>4. \A p \in Objects : m_data[p] \in Nat /\ m_size[p] \in Nat
  BY Buffers
<1>5. Len(text) \in Nat
  BY LenProperties DEF String
<1> HIDE DEF a, old
<1>6. m_data' \in [Objects -> Nat] /\ m_size' \in [Objects -> Nat] /\ alive' \subseteq Objects
  BY <1>1, <1>2, <1>5 DEF StringsInv, StringsTyped
<1>7. /\ m_data'[o] = a /\ m_size'[o] = Len(text)
      /\ \A p \in Objects \ {o} : m_data'[p] = m_data[p] /\ m_size'[p] = m_size[p]
  BY <1>2 DEF StringsInv, StringsTyped
<1>8. IsFiniteSet(DOMAIN heap')
  <2> DEFINE used == DOMAIN heap
  <2>1. IsFiniteSet(used)
    BY DEF StringsInv, StringsTyped
  <2> HIDE DEF used
  <2>2. IsFiniteSet(used \ {old})
    BY <2>1, FS_RemoveElement
  <2>3. IsFiniteSet((used \ {old}) \cup {a})
    BY <2>2, FS_AddElement
  <2> QED  BY <1>3, <2>3 DEF used
<1>9. \A b \in DOMAIN heap' : heap'[b] \in String
  BY <1>3 DEF StringsInv, StringsTyped
<1>10. \A p \in Objects \ alive' : m_data'[p] = 0
  BY <1>7 DEF StringsInv, StringsTyped
<1>11. \A p \in Objects \ {o} : m_data[p] # 0 =>
         m_data[p] \in DOMAIN heap \ {old} /\ m_data[p] # a
  BY <1>1, Buffers DEF old
<1>12. DOMAIN heap' = {m_data'[p] : p \in alive'} \ {0}
  <2>1. DOMAIN heap = {m_data[p] : p \in alive} \ {0}
    BY DEF StringsInv, S!Owned, S!nullptr
  <2>2. ASSUME NEW b \in DOMAIN heap'  PROVE b \in {m_data'[p] : p \in alive'} \ {0}
    <3>1. CASE b = a
      BY <1>1, <1>7, <3>1
    <3>2. CASE b # a
      <4>1. PICK p \in alive : m_data[p] = b /\ b # 0 /\ b # old
        BY <1>3, <2>1, <3>2
      <4>2. p \in Objects \ {o}
        BY <4>1 DEF old, StringsInv, StringsTyped
      <4> QED  BY <1>7, <4>1, <4>2
    <3> QED  BY <3>1, <3>2
  <2>3. ASSUME NEW p \in alive', m_data'[p] # 0  PROVE m_data'[p] \in DOMAIN heap'
    BY <1>3, <1>6, <1>7, <1>11, <2>3
  <2> QED  BY <2>2, <2>3
<1>13. \A p, q \in Objects : m_data'[p] = m_data'[q] => p = q \/ m_data'[p] = 0
  <2>1. ASSUME NEW p \in Objects, NEW q \in Objects, m_data'[p] = m_data'[q], p # q
        PROVE  m_data'[p] = 0
    <3>1. CASE p = o
      <4>1. m_data[q] = a
        BY <1>7, <2>1, <3>1
      <4> QED  BY <1>1, <1>11, <2>1, <3>1, <4>1
    <3>2. CASE q = o
      <4>1. m_data[p] = a
        BY <1>7, <2>1, <3>2
      <4> QED  BY <1>1, <1>11, <2>1, <3>2, <4>1
    <3>3. CASE p # o /\ q # o
      BY <1>7, <2>1, <3>3, Buffers
    <3> QED  BY <3>1, <3>2, <3>3
  <2> QED  BY <2>1
<1>14. \A p \in Objects : IF m_data'[p] = 0 THEN m_size'[p] = 0
                                           ELSE m_size'[p] = Len(heap'[m_data'[p]])
  <2>1. ASSUME NEW p \in Objects \ {o}, m_data[p] # 0
        PROVE  m_size'[p] = Len(heap'[m_data'[p]])
    <3>1. heap'[m_data[p]] = heap[m_data[p]]
      BY <1>3, <1>11, <2>1
    <3> QED  BY <1>7, <2>1, <3>1, Buffers
  <2>2. ASSUME NEW p \in Objects \ {o}, m_data[p] = 0  PROVE m_size'[p] = 0
    BY <1>7, <2>2, Buffers
  <2> QED  BY <1>1, <1>3, <1>7, <2>1, <2>2
<1>15. StringsInv'
  BY <1>6, <1>8, <1>9, <1>10, <1>12, <1>13, <1>14
  DEF StringsInv, StringsTyped, S!Owned, S!nullptr
<1>16. \A p \in Objects \ {o} : Content(p)' = Content(p)
  BY <1>3, <1>7, <1>11 DEF Content
<1>17. Content(o)' = text /\ m_data'[o] # 0
  BY <1>1, <1>3, <1>7 DEF Content
<1> QED  BY <1>15, <1>16, <1>17

\* A String that gives its buffer back.
LEMMA HoldsNothingEffect ==
  ASSUME StringsInv, NEW o \in Objects, S!HoldsNothing(o),
         alive \ {o} \subseteq alive', alive' \subseteq alive \cup {o}
  PROVE  /\ StringsInv'
         /\ \A p \in Objects \ {o} : Content(p)' = Content(p)
         /\ Content(o)' = <<>> /\ m_data'[o] = 0
<1> DEFINE old == m_data[o]
<1>2. /\ m_data' = [m_data EXCEPT ![o] = 0]
      /\ m_size' = [m_size EXCEPT ![o] = 0]
  BY DEF S!HoldsNothing, S!nullptr
<1>3. /\ DOMAIN heap' = DOMAIN heap \ {old}
      /\ \A b \in DOMAIN heap \ {old} : heap'[b] = heap[b]
  <2>1. heap' = [c \in DOMAIN heap \ {old} |-> heap[c]]
    BY DEF S!HoldsNothing, S!Without
  <2> HIDE DEF old
  <2> QED  BY <2>1
<1> HIDE DEF old
<1>6. m_data' \in [Objects -> Nat] /\ m_size' \in [Objects -> Nat] /\ alive' \subseteq Objects
  BY <1>2 DEF StringsInv, StringsTyped
<1>7. /\ m_data'[o] = 0 /\ m_size'[o] = 0
      /\ \A p \in Objects \ {o} : m_data'[p] = m_data[p] /\ m_size'[p] = m_size[p]
  BY <1>2 DEF StringsInv, StringsTyped
<1>8. IsFiniteSet(DOMAIN heap')
  <2> DEFINE used == DOMAIN heap
  <2>1. IsFiniteSet(used)
    BY DEF StringsInv, StringsTyped
  <2> HIDE DEF used
  <2>2. IsFiniteSet(used \ {old})
    BY <2>1, FS_RemoveElement
  <2> QED  BY <1>3, <2>2 DEF used
<1>9. \A b \in DOMAIN heap' : heap'[b] \in String
  BY <1>3 DEF StringsInv, StringsTyped
<1>10. \A p \in Objects \ alive' : m_data'[p] = 0
  BY <1>7 DEF StringsInv, StringsTyped
<1>11. \A p \in Objects \ {o} : m_data[p] # 0 => m_data[p] \in DOMAIN heap \ {old}
  BY Buffers DEF old
<1>12. DOMAIN heap' = {m_data'[p] : p \in alive'} \ {0}
  <2>1. DOMAIN heap = {m_data[p] : p \in alive} \ {0}
    BY DEF StringsInv, S!Owned, S!nullptr
  <2>2. ASSUME NEW b \in DOMAIN heap'  PROVE b \in {m_data'[p] : p \in alive'} \ {0}
    <3>1. PICK p \in alive : m_data[p] = b /\ b # 0 /\ b # old
      BY <1>3, <2>1
    <3>2. p \in Objects \ {o}
      BY <3>1 DEF old, StringsInv, StringsTyped
    <3> QED  BY <1>7, <3>1, <3>2
  <2>3. ASSUME NEW p \in alive', m_data'[p] # 0  PROVE m_data'[p] \in DOMAIN heap'
    BY <1>3, <1>6, <1>7, <1>11, <2>3
  <2> QED  BY <2>2, <2>3
<1>13. \A p, q \in Objects : m_data'[p] = m_data'[q] => p = q \/ m_data'[p] = 0
  <2>1. ASSUME NEW p \in Objects, NEW q \in Objects, m_data'[p] = m_data'[q], p # q
        PROVE  m_data'[p] = 0
    BY <1>7, <2>1, Buffers
  <2> QED  BY <2>1
<1>14. \A p \in Objects : IF m_data'[p] = 0 THEN m_size'[p] = 0
                                           ELSE m_size'[p] = Len(heap'[m_data'[p]])
  <2>1. ASSUME NEW p \in Objects \ {o}, m_data[p] # 0
        PROVE  m_size'[p] = Len(heap'[m_data'[p]])
    <3>1. heap'[m_data[p]] = heap[m_data[p]]
      BY <1>3, <1>11, <2>1
    <3> QED  BY <1>7, <2>1, <3>1, Buffers
  <2>2. ASSUME NEW p \in Objects \ {o}, m_data[p] = 0  PROVE m_size'[p] = 0
    BY <1>7, <2>2, Buffers
  <2> QED  BY <1>7, <2>1, <2>2
<1>15. StringsInv'
  BY <1>6, <1>8, <1>9, <1>10, <1>12, <1>13, <1>14
  DEF StringsInv, StringsTyped, S!Owned, S!nullptr
<1>16. \A p \in Objects \ {o} : Content(p)' = Content(p)
  BY <1>3, <1>7, <1>11 DEF Content
<1>17. Content(o)' = <<>> /\ m_data'[o] = 0
  BY <1>7 DEF Content
<1> QED  BY <1>15, <1>16, <1>17

\* A String whose text is overwritten by one of the same size.
LEMMA InPlaceEffect ==
  ASSUME StringsInv, NEW o \in Objects, NEW text \in String, m_data[o] # 0,
         Len(text) = m_size[o], heap' = [heap EXCEPT ![m_data[o]] = text],
         UNCHANGED <<alive, m_data, m_size>>
  PROVE  /\ StringsInv'
         /\ \A p \in Objects \ {o} : Content(p)' = Content(p)
         /\ Content(o)' = text
<1> DEFINE a == m_data[o]
<1>1. a \in DOMAIN heap
  BY Buffers
<1>2. /\ DOMAIN heap' = DOMAIN heap /\ heap'[a] = text
      /\ \A b \in DOMAIN heap \ {a} : heap'[b] = heap[b]
  BY <1>1
<1>3. \A p \in Objects \ {o} : m_data[p] # 0 => heap'[m_data[p]] = heap[m_data[p]]
  BY <1>2, Buffers
<1>4. StringsTyped'
  BY <1>2 DEF StringsInv, StringsTyped
<1>5. \A p \in Objects : IF m_data[p] = 0 THEN m_size[p] = 0
                                         ELSE m_size[p] = Len(heap'[m_data[p]])
  <2>1. ASSUME NEW p \in Objects \ {o}, m_data[p] # 0
        PROVE  m_size[p] = Len(heap'[m_data[p]])
    BY <1>3, <2>1, Buffers
  <2>2. ASSUME NEW p \in Objects, m_data[p] = 0  PROVE m_size[p] = 0
    BY <2>2, Buffers
  <2> QED  BY <1>2, <2>1, <2>2
<1>6. StringsInv'
  BY <1>2, <1>4, <1>5 DEF StringsInv, S!Owned, S!nullptr
<1>7. \A p \in Objects \ {o} : Content(p)' = Content(p)
  BY <1>3 DEF Content
<1>8. Content(o)' = text
  BY <1>2 DEF Content
<1> QED  BY <1>6, <1>7, <1>8

\* A String that takes over the buffer of another one.
LEMMA MoveEffect ==
  ASSUME StringsInv, NEW o \in Objects, NEW p \in Objects \ {o}, S!move(o, p)
  PROVE  /\ StringsInv'
         /\ \A q \in Objects \ {o, p} : Content(q)' = Content(q)
         /\ Content(o)' = Content(p) /\ Content(p)' = <<>>
<1> DEFINE old == m_data[o]
<1>1. /\ m_data' = [m_data EXCEPT ![o] = m_data[p], ![p] = 0]
      /\ m_size' = [m_size EXCEPT ![o] = m_size[p], ![p] = 0]
      /\ alive' = alive \cup {o} /\ p \in alive
  BY DEF S!move, S!nullptr
<1>2. /\ DOMAIN heap' = DOMAIN heap \ {old}
      /\ \A b \in DOMAIN heap \ {old} : heap'[b] = heap[b]
  <2>1. heap' = [c \in DOMAIN heap \ {old} |-> heap[c]]
    BY DEF S!move, S!Without
  <2> HIDE DEF old
  <2> QED  BY <2>1
<1> HIDE DEF old
<1>3. m_data' \in [Objects -> Nat] /\ m_size' \in [Objects -> Nat] /\ alive' \subseteq Objects
  BY <1>1 DEF StringsInv, StringsTyped
<1>4. /\ m_data'[o] = m_data[p] /\ m_size'[o] = m_size[p]
      /\ m_data'[p] = 0 /\ m_size'[p] = 0
      /\ \A q \in Objects \ {o, p} : m_data'[q] = m_data[q] /\ m_size'[q] = m_size[q]
  BY <1>1 DEF StringsInv, StringsTyped
<1>5. IsFiniteSet(DOMAIN heap')
  <2> DEFINE used == DOMAIN heap
  <2>1. IsFiniteSet(used)
    BY DEF StringsInv, StringsTyped
  <2> HIDE DEF used
  <2>2. IsFiniteSet(used \ {old})
    BY <2>1, FS_RemoveElement
  <2> QED  BY <1>2, <2>2 DEF used
<1>6. \A b \in DOMAIN heap' : heap'[b] \in String
  BY <1>2 DEF StringsInv, StringsTyped
<1>7. \A q \in Objects \ alive' : m_data'[q] = 0
  BY <1>1, <1>4 DEF StringsInv, StringsTyped
<1>8. \A q \in Objects \ {o} : m_data[q] # 0 =>
        m_data[q] \in DOMAIN heap' /\ heap'[m_data[q]] = heap[m_data[q]]
  BY <1>2, Buffers DEF old
<1>9. DOMAIN heap' = {m_data'[q] : q \in alive'} \ {0}
  <2>1. DOMAIN heap = {m_data[q] : q \in alive} \ {0}
    BY DEF StringsInv, S!Owned, S!nullptr
  <2>2. ASSUME NEW b \in DOMAIN heap'  PROVE b \in {m_data'[q] : q \in alive'} \ {0}
    <3>1. PICK q \in alive : m_data[q] = b /\ b # 0 /\ b # old
      BY <1>2, <2>1
    <3>2. q \in Objects \ {o}
      BY <3>1 DEF old, StringsInv, StringsTyped
    <3>3. CASE q = p
      BY <1>1, <1>4, <3>1, <3>3
    <3>4. CASE q # p
      BY <1>1, <1>4, <3>1, <3>2, <3>4
    <3> QED  BY <3>3, <3>4
  <2>3. ASSUME NEW q \in alive', m_data'[q] # 0  PROVE m_data'[q] \in DOMAIN heap'
    <3>1. q \in Objects
      BY <1>3
    <3> QED  BY <1>4, <1>8, <2>3, <3>1
  <2> QED  BY <2>2, <2>3
<1>10. \A q, r \in Objects : m_data'[q] = m_data'[r] => q = r \/ m_data'[q] = 0
  <2>1. ASSUME NEW q \in Objects, NEW r \in Objects, m_data'[q] = m_data'[r], q # r
        PROVE  m_data'[q] = 0
    <3>1. CASE q = p \/ r = p
      BY <1>4, <2>1, <3>1
    <3>2. CASE q = o /\ r # p
      <4>1. r \in Objects \ {p} /\ m_data[r] = m_data[p]
        BY <1>4, <2>1, <3>2
      <4> QED  BY <1>4, <3>2, <4>1, Buffers
    <3>3. CASE r = o /\ q # p
      <4>1. q \in Objects \ {p} /\ m_data[q] = m_data[p]
        BY <1>4, <2>1, <3>3
      <4> QED  BY <1>4, <2>1, <3>3, <4>1, Buffers
    <3>4. CASE q \notin {o, p} /\ r \notin {o, p}
      BY <1>4, <2>1, <3>4, Buffers
    <3> QED  BY <3>1, <3>2, <3>3, <3>4
  <2> QED  BY <2>1
<1>11. \A q \in Objects : IF m_data'[q] = 0 THEN m_size'[q] = 0
                                           ELSE m_size'[q] = Len(heap'[m_data'[q]])
  <2>1. ASSUME NEW q \in Objects \ {o}
        PROVE  IF m_data[q] = 0 THEN m_size[q] = 0 ELSE m_size[q] = Len(heap'[m_data[q]])
    BY <1>8, Buffers
  <2>2. ASSUME NEW q \in Objects \ {o, p}
        PROVE  IF m_data'[q] = 0 THEN m_size'[q] = 0 ELSE m_size'[q] = Len(heap'[m_data'[q]])
    BY <1>4, <2>1
  <2>3. IF m_data'[o] = 0 THEN m_size'[o] = 0 ELSE m_size'[o] = Len(heap'[m_data'[o]])
    BY <1>4, <2>1
  <2> QED  BY <1>4, <2>2, <2>3
<1>12. StringsInv'
  BY <1>3, <1>5, <1>6, <1>7, <1>9, <1>10, <1>11
  DEF StringsInv, StringsTyped, S!Owned, S!nullptr
<1>13. \A q \in Objects \ {o, p} : Content(q)' = Content(q)
  BY <1>4, <1>8 DEF Content
<1>14. Content(o)' = Content(p) /\ Content(p)' = <<>>
  BY <1>4, <1>8 DEF Content
<1> QED  BY <1>12, <1>13, <1>14

\* Letters of another case are letters, and as many.
LEMMA RecasedText ==
  ASSUME NEW t \in String, NEW case \in {1, 2}
  PROVE  S!Recased(t, case) \in String /\ Len(S!Recased(t, case)) = Len(t)
<1> DEFINE pair(i) == {q \in Cased : t[i] \in {q[1], q[2]}}
<1> DEFINE char(i) == IF pair(i) = {} THEN t[i] ELSE (CHOOSE q \in pair(i) : TRUE)[case]
<1>1. DOMAIN t = 1..Len(t) /\ Len(t) \in Nat
  BY LenProperties DEF String
<1>2. ASSUME NEW i \in 1..Len(t)  PROVE char(i) \in Letters
  <2>1. CASE pair(i) = {}
    <3>1. t[i] \in Letters
      BY ElementOfSeq DEF String
    <3> QED  BY <2>1, <3>1
  <2>2. CASE pair(i) # {}
    <3> DEFINE q == CHOOSE q \in pair(i) : TRUE
    <3>1. q \in pair(i)
      BY <2>2
    <3> HIDE DEF q
    <3>2. q \in Cased
      BY <3>1
    <3>3. q[1] \in Letters /\ q[2] \in Letters
      BY <3>2 DEF Letters
    <3>4. q[case] \in Letters
      BY <3>3
    <3> QED  BY <2>2, <3>4 DEF q
  <2> QED  BY <2>1, <2>2
<1>3. S!Recased(t, case) = [i \in 1..Len(t) |-> char(i)]
  BY <1>1 DEF S!Recased
<1> HIDE DEF char
<1>4. S!Recased(t, case) \in [1..Len(t) -> Letters]
  BY <1>2, <1>3
<1>5. S!Recased(t, case) \in Seq(Letters)
  BY <1>1, <1>4, TableIsSeq
<1>6. Len(S!Recased(t, case)) = Len(t)
  <2>1. DOMAIN S!Recased(t, case) = 1..Len(t)
    BY <1>3
  <2> QED  BY <1>1, <1>5, <2>1, LenProperties
<1> QED  BY <1>5, <1>6 DEF String

\* What is copied is equal to what it was copied from.
LEMMA CopyEffect ==
  ASSUME StringsInv, NEW o \in Objects, NEW p \in Objects \ {o}, S!copy(o, p)
  PROVE  /\ StringsInv'
         /\ \A q \in Objects \ {o} : Content(q)' = Content(q)
         /\ S!isEqual(o, p)'
<1>1. o \in alive /\ p \in alive /\ alive' = alive
  BY DEF S!copy
<1>2. /\ S!Text(p) = Content(p) /\ Content(p) \in String
      /\ m_size[o] \in Nat /\ m_size[p] \in Nat
  BY TextIsContent, Buffers
<1>3. CASE m_size[o] > 0 /\ m_size[o] = m_size[p]
  <2>1. m_data[o] # 0 /\ m_data[p] # 0
    BY <1>2, <1>3, Buffers
  <2>2. heap[m_data[p]] \in String /\ Len(heap[m_data[p]]) = m_size[o]
    BY <1>3, <2>1, Buffers
  <2>3. heap' = [heap EXCEPT ![m_data[o]] = heap[m_data[p]]] /\ UNCHANGED <<alive, m_data, m_size>>
    BY <1>3 DEF S!copy
  <2>4. /\ StringsInv'
        /\ \A q \in Objects \ {o} : Content(q)' = Content(q)
        /\ Content(o)' = heap[m_data[p]]
    BY <2>1, <2>2, <2>3, InPlaceEffect
  <2>5. Content(o)' = Content(p)'
    BY <2>1, <2>4 DEF Content
  <2>6. S!Text(o)' = Content(o)' /\ S!Text(p)' = Content(p)'
    BY <2>4, TextIsContentNext
  <2> QED  BY <1>3, <2>1, <2>3, <2>4, <2>5, <2>6 DEF S!isEqual, S!nullptr
<1>4. CASE ~ (m_size[o] > 0 /\ m_size[o] = m_size[p]) /\ m_data[p] = 0
  <2>1. S!HoldsNothing(o)
    BY <1>4 DEF S!copy, S!nullptr
  <2>2. /\ StringsInv'
        /\ \A q \in Objects \ {o} : Content(q)' = Content(q)
        /\ Content(o)' = <<>> /\ m_data'[o] = 0
    BY <1>1, <2>1, HoldsNothingEffect
  <2>3. /\ m_data' = [m_data EXCEPT ![o] = 0]
        /\ m_size' = [m_size EXCEPT ![o] = 0]
    BY <2>1 DEF S!HoldsNothing, S!nullptr
  <2>4. m_data'[p] = 0 /\ m_size'[p] = 0 /\ m_size'[o] = 0
    BY <1>4, <2>3, Buffers DEF StringsInv, StringsTyped
  <2>5. S!Text(o)' = Content(o)' /\ S!Text(p)' = Content(p)'
    BY <2>2, TextIsContentNext
  <2>6. Content(p)' = <<>>
    BY <2>4 DEF Content
  <2> QED  BY <2>2, <2>4, <2>5, <2>6 DEF S!isEqual, S!nullptr
<1>5. CASE ~ (m_size[o] > 0 /\ m_size[o] = m_size[p]) /\ m_data[p] # 0
  <2>1. S!Holds(o, S!Text(p)) /\ alive' = alive \cup {o}
    BY <1>1, <1>5 DEF S!copy, S!nullptr
  <2>2. /\ StringsInv'
        /\ \A q \in Objects \ {o} : Content(q)' = Content(q)
        /\ Content(o)' = S!Text(p) /\ m_data'[o] # 0
    BY <1>2, <2>1, HoldsEffect
  <2>3. /\ m_data' = [m_data EXCEPT ![o] = S!Fresh]
        /\ m_size' = [m_size EXCEPT ![o] = Len(S!Text(p))]
    BY <2>1 DEF S!Holds
  <2>4. m_data'[p] # 0 /\ m_size'[p] = m_size[p] /\ m_size'[o] = Len(S!Text(p))
    BY <1>5, <2>3 DEF StringsInv, StringsTyped
  <2>5. Len(S!Text(p)) = m_size[p]
    BY <1>2, <1>5, Buffers DEF Content
  <2>6. S!Text(o)' = Content(o)' /\ S!Text(p)' = Content(p)'
    BY <2>2, TextIsContentNext
  <2> QED  BY <1>2, <2>2, <2>4, <2>5, <2>6 DEF S!isEqual, S!nullptr
<1> QED  BY <1>3, <1>4, <1>5

\* Every step keeps what is above, and changes one text or moves one.
LEMMA StringsStep ==
  ASSUME StringsInv, S!Next
  PROVE  StringsInv' /\ S!ValueStep
<1> DEFINE Alone(o) == \A p \in Objects \ {o} : Content(p)' = Content(p)
<1> DEFINE Moved(o, p) == /\ Content(o)' = Content(p) /\ Content(p)' = <<>>
                          /\ \A q \in Objects \ {o, p} : Content(q)' = Content(q)
<1>1. ASSUME NEW o \in Objects, NEW text \in String, S!Holds(o, text), alive' = alive \cup {o}
      PROVE  StringsInv' /\ Alone(o)
  BY <1>1, HoldsEffect
<1>2. ASSUME NEW o \in Objects, S!HoldsNothing(o),
             alive \ {o} \subseteq alive', alive' \subseteq alive \cup {o}
      PROVE  StringsInv' /\ Alone(o)
  BY <1>2, HoldsNothingEffect
<1>3. \A t \in Texts : t \in String
  BY StringsAssumption DEF String
<1>4. \A p \in Objects : S!Text(p) \in String
  BY TextIsContent
<1> HIDE DEF Alone
<1>5. ASSUME NEW o \in Objects, NEW t \in Texts, S!constructSized(o, t)
      PROVE  StringsInv' /\ Alone(o)
  BY <1>1, <1>3, <1>5 DEF S!constructSized, S!Begin
<1>6. ASSUME NEW o \in Objects, NEW t \in Texts, S!construct(o, t)
      PROVE  StringsInv' /\ Alone(o)
  <2>1. alive' = alive \cup {o} /\ (S!HoldsNothing(o) \/ S!Holds(o, t))
    BY <1>6 DEF S!construct, S!Begin
  <2> QED  BY <1>1, <1>2, <1>3, <2>1
<1>7. ASSUME NEW o \in Objects, S!constructNull(o) \/ S!copyNull(o) \/ S!destroy(o)
      PROVE  StringsInv' /\ Alone(o)
  <2>1. S!HoldsNothing(o) /\ alive \ {o} \subseteq alive' /\ alive' \subseteq alive \cup {o}
    BY <1>7 DEF S!constructNull, S!copyNull, S!destroy, S!Begin
  <2> QED  BY <1>2, <2>1
<1>8. ASSUME NEW o \in Objects, NEW t \in Texts, S!copyText(o, t)
      PROVE  StringsInv' /\ Alone(o)
  <2>1. S!Holds(o, t) /\ alive' = alive \cup {o}
    BY <1>8 DEF S!copyText
  <2> QED  BY <1>1, <1>3, <2>1
<1>9. ASSUME NEW o \in Objects, NEW case \in {1, 2}, S!recase(o, case)
      PROVE  StringsInv' /\ Alone(o)
  <2> DEFINE text == S!Recased(heap[m_data[o]], case)
  <2>1. m_data[o] # 0 /\ m_data[o] \in DOMAIN heap /\ UNCHANGED <<alive, m_data, m_size>>
    BY <1>9, Buffers DEF S!recase, S!nullptr
  <2>2. heap[m_data[o]] \in String /\ m_size[o] = Len(heap[m_data[o]])
    BY <2>1, Buffers
  <2>3. text \in String /\ Len(text) = m_size[o]
    BY <2>2, RecasedText
  <2>4. heap' = [heap EXCEPT ![m_data[o]] = text]
    BY <1>9, <2>1 DEF S!recase
  <2> HIDE DEF text
  <2> QED  BY <2>1, <2>3, <2>4, InPlaceEffect DEF Alone
<1>10. ASSUME NEW o \in Objects, NEW p \in Objects, S!constructCopy(o, p)
       PROVE  StringsInv' /\ Alone(o)
  <2>1. alive' = alive \cup {o} /\ (S!HoldsNothing(o) \/ S!Holds(o, S!Text(p)))
    BY <1>10 DEF S!constructCopy, S!Begin
  <2> QED  BY <1>1, <1>2, <1>4, <2>1
<1>11. ASSUME NEW o \in Objects, NEW p \in Objects, S!rejoin(o, p)
       PROVE  StringsInv' /\ Alone(o)
  <2> DEFINE parts == S!split(S!Text(p))
  <2>1. parts \in Seq(String)
    BY <1>4, SplitText
  <2>2. S!join(parts) \in String
    <3> HIDE DEF parts
    <3> QED  BY <2>1, JoinText
  <2>3. alive' = alive \cup {o} /\ (S!HoldsNothing(o) \/ S!Holds(o, S!join(parts)))
    BY <1>11 DEF S!rejoin
  <2> HIDE DEF parts
  <2> QED  BY <1>1, <1>2, <2>2, <2>3
<1>12. ASSUME NEW o \in Objects, NEW p \in Objects \ {o}, S!copy(o, p)
       PROVE  StringsInv' /\ Alone(o)
  BY <1>12, CopyEffect DEF Alone
<1>13. ASSUME NEW o \in Objects, NEW p \in Objects \ {o}, S!move(o, p)
       PROVE  StringsInv' /\ Moved(o, p)
  BY <1>13, MoveEffect
<1> HIDE DEF Moved
<1>14. /\ StringsInv'
       /\ \E o \in Objects : Alone(o) \/ \E p \in Objects \ {o} : Moved(o, p)
  <2>1. CASE \E o \in Objects :
               \/ \E t \in Texts : S!constructSized(o, t)
               \/ \E t \in S!CTexts : S!construct(o, t) \/ S!copyText(o, t)
               \/ S!constructNull(o) \/ S!copyNull(o) \/ S!destroy(o)
               \/ \E case \in {1, 2} : S!recase(o, case)
    <3>1. \A t \in S!CTexts : t \in Texts
      BY DEF S!CTexts
    <3> QED  BY <1>5, <1>6, <1>7, <1>8, <1>9, <2>1, <3>1, ZenonT(60)
  <2>2. CASE \E o \in Objects : \E p \in Objects \ {o} :
               S!constructCopy(o, p) \/ S!copy(o, p) \/ S!move(o, p) \/ S!rejoin(o, p)
    <3>1. PICK o \in Objects : \E p \in Objects \ {o} :
            S!constructCopy(o, p) \/ S!copy(o, p) \/ S!move(o, p) \/ S!rejoin(o, p)
      BY <2>2
    <3>2. PICK p \in Objects \ {o} :
            S!constructCopy(o, p) \/ S!copy(o, p) \/ S!move(o, p) \/ S!rejoin(o, p)
      BY <3>1
    <3>3. StringsInv' /\ (Alone(o) \/ Moved(o, p))
      BY <1>10, <1>11, <1>12, <1>13, <3>2
    <3> QED  BY <3>2, <3>3
  <2> QED  BY <2>1, <2>2, ZenonT(60) DEF S!Next
<1>15. \A o \in Objects : S!Text(o) = Content(o) /\ S!Text(o)' = Content(o)'
  BY <1>14, TextIsContent, TextIsContentNext
<1>16. \E o \in Objects :
         \/ \A p \in Objects \ {o} : S!Text(p)' = S!Text(p)
         \/ \E p \in Objects \ {o} :
              /\ S!Text(o)' = S!Text(p) /\ S!Text(p)' = <<>>
              /\ \A q \in Objects \ {o, p} : S!Text(q)' = S!Text(q)
  <2>1. PICK o \in Objects : Alone(o) \/ \E p \in Objects \ {o} : Moved(o, p)
    BY <1>14
  <2>2. CASE Alone(o)
    BY <1>15, <2>2 DEF Alone
  <2>3. CASE \E p \in Objects \ {o} : Moved(o, p)
    <3>1. PICK p \in Objects \ {o} : Moved(o, p)
      BY <2>3
    <3>2. /\ S!Text(o)' = S!Text(p) /\ S!Text(p)' = <<>>
          /\ \A q \in Objects \ {o, p} : S!Text(q)' = S!Text(q)
      BY <1>15, <3>1 DEF Moved
    <3> QED  BY <3>2, Zenon
  <2> QED  BY <2>1, <2>2, <2>3
<1>17. ASSUME NEW o \in Objects, NEW p \in Objects, S!copy(o, p)
       PROVE  S!isEqual(o, p)'
  <2>1. CASE o = p
    BY <2>1 DEF S!isEqual
  <2>2. CASE o # p
    BY <1>17, <2>2, CopyEffect
  <2> QED  BY <2>1, <2>2
<1> QED  BY <1>14, <1>16, <1>17, Zenon DEF S!ValueStep

\* A step that changes nothing keeps the invariant.
LEMMA StringsStutter ==
  ASSUME StringsInv, UNCHANGED S!vars  PROVE StringsInv'
<1>1. UNCHANGED <<alive, m_data, m_size, heap>>
  BY DEF S!vars
<1> QED  BY <1>1 DEF StringsInv, StringsTyped, S!Owned

\* The first state is one of these.
LEMMA StringsStart ==
  ASSUME S!Init  PROVE StringsInv
<1>1. DOMAIN heap = {} /\ alive = {}
  BY DEF S!Init
<1>2. /\ m_data = [o \in Objects |-> 0] /\ m_size = [o \in Objects |-> 0]
  BY DEF S!Init, S!nullptr
<1>3. StringsTyped
  BY <1>1, <1>2, FS_EmptySet DEF StringsTyped
<1>4. S!Owned
  BY <1>1, <1>2 DEF S!Owned, S!nullptr
<1> QED  BY <1>3, <1>4 DEF StringsInv

(***************************************************************************)
(* Through any sequence of constructions, copies, moves, assignments,      *)
(* changes of case, splits and joins of String.cpp, every buffer belongs   *)
(* to one String, and a String is a value.                                 *)
(***************************************************************************)
THEOREM StringsAreValuesHolds == S!Spec => StringsAreValues
<1>1. S!Init => StringsInv
  BY StringsStart
<1>2. StringsInv /\ [S!Next]_(S!vars) => StringsInv'
  BY StringsStep, StringsStutter
<1>3. StringsInv' /\ StringsInv /\ [S!Next]_(S!vars) => [S!Owned' /\ S!ValueStep]_stringsVars
  BY StringsStep DEF StringsInv, S!vars, stringsVars
<1> QED  BY <1>1, <1>2, <1>3, PTL DEF S!Spec, StringsAreValues

-----------------------------------------------------------------------------
(* Log: the length of a line.                                               *)
Glyphs == Printable \cup {"ESC", "[", "0", "1", "3", "7", "9", ";", "m", ".", "]", " ", "NUL", "NL"}

\* Short texts.
LEMMA Two ==
  ASSUME NEW Q, NEW a \in Q, NEW b \in Q
  PROVE  <<a, b>> \in Seq(Q) /\ Len(<<a, b>>) = 2
OBVIOUS

\* A text of four.
LEMMA Four ==
  ASSUME NEW Q, NEW a \in Q, NEW b \in Q, NEW c \in Q, NEW e \in Q
  PROVE  <<a, b, c, e>> \in Seq(Q) /\ Len(<<a, b, c, e>>) = 4
OBVIOUS

\* A text of five.
LEMMA Five ==
  ASSUME NEW Q, NEW a \in Q, NEW b \in Q, NEW c \in Q, NEW e \in Q, NEW f \in Q
  PROVE  <<a, b, c, e, f>> \in Seq(Q) /\ Len(<<a, b, c, e, f>>) = 5
OBVIOUS

\* The length of two texts put together.
LEMMA Concat ==
  ASSUME NEW Q, NEW s \in Seq(Q), NEW t \in Seq(Q)
  PROVE  s \o t \in Seq(Q) /\ Len(s \o t) = Len(s) + Len(t)
BY ConcatProperties

\* The signs that the program itself puts in a line.
LEMMA Signs ==
  /\ "ESC" \in Glyphs /\ "[" \in Glyphs /\ "0" \in Glyphs /\ "1" \in Glyphs
  /\ "3" \in Glyphs /\ "7" \in Glyphs /\ "9" \in Glyphs /\ ";" \in Glyphs
  /\ "m" \in Glyphs /\ "." \in Glyphs /\ "]" \in Glyphs /\ " " \in Glyphs
  /\ "NUL" \in Glyphs /\ "NL" \in Glyphs
BY DEF Glyphs

\* The fixed pieces of a line.
LEMMA Pieces ==
  /\ L!CSI \in Seq(Glyphs) /\ Len(L!CSI) = 2
  /\ L!CLEAR \in Seq(Glyphs) /\ Len(L!CLEAR) = 4
  /\ L!BLACK_BOLD_S \in Seq(Glyphs)
  /\ L!Date \in Seq(Glyphs) /\ L!Millis \in Seq(Glyphs) /\ L!Close \in Seq(Glyphs)
  /\ <<L!NL, L!NUL>> \in Seq(Glyphs) /\ Len(<<L!NL, L!NUL>>) = 2
<1>1. L!CSI \in Seq(Glyphs) /\ Len(L!CSI) = 2
  BY Signs, Two DEF L!CSI
<1>2. <<"0", "m">> \in Seq(Glyphs) /\ Len(<<"0", "m">>) = 2
  BY Signs, Two
<1>3. L!CLEAR \in Seq(Glyphs) /\ Len(L!CLEAR) = 4
  <2> DEFINE t == <<"0", "m">>
  <2>1. t \in Seq(Glyphs) /\ Len(t) = 2 /\ L!CLEAR = L!CSI \o t
    BY <1>2 DEF L!CLEAR
  <2> HIDE DEF t
  <2>2. Len(L!CSI \o t) = Len(L!CSI) + Len(t) /\ L!CSI \o t \in Seq(Glyphs)
    BY <1>1, <2>1, Concat
  <2> QED  BY <1>1, <2>1, <2>2
<1>4. <<"1", ";", "3", "0", "m">> \in Seq(Glyphs)
  BY Signs, Five
<1>5. L!BLACK_BOLD_S \in Seq(Glyphs)
  BY <1>1, <1>4, ConcatProperties DEF L!BLACK_BOLD_S
<1>6. L!Date \in Seq(Glyphs)
  <2>1. L!Date \in [1..20 -> Glyphs] /\ 20 \in Nat
    BY Signs DEF L!Date
  <2> QED  BY <2>1, TableIsSeq
<1>7. L!Millis \in Seq(Glyphs)
  BY Signs, Four DEF L!Millis
<1>8. L!Close \in Seq(Glyphs)
  BY Signs, Two DEF L!Close
<1>9. <<L!NL, L!NUL>> \in Seq(Glyphs) /\ Len(<<L!NL, L!NUL>>) = 2
  BY Signs, Two DEF L!NL, L!NUL
<1> QED  BY <1>1, <1>3, <1>5, <1>6, <1>7, <1>8, <1>9

\* The colour of a level has at most seven characters.
LEMMA ColorLength ==
  ASSUME NEW level \in L!Levels
  PROVE  L!color(level) \in Seq(Glyphs) /\ Len(L!color(level)) <= 7
<1>1. CASE level \in {"NONE", "INFO"}
  <2>1. CASE level = "NONE"
    <3>1. L!color(level) = <<>>
      BY <2>1 DEF L!color
    <3> QED  BY <3>1
  <2>2. CASE level = "INFO"
    <3>1. L!color(level) = <<>>
      BY <2>2 DEF L!color, L!colors_map
    <3> QED  BY <3>1
  <2> QED  BY <1>1, <2>1, <2>2
<1>2. CASE level = "ERR"
  <2> DEFINE t == <<"0", ";", "3", "1", "m">>
  <2>1. L!color(level) = L!CSI \o t
    BY <1>2 DEF L!color, L!colors_map
  <2>2. t \in Seq(Glyphs) /\ Len(t) = 5
    BY Signs, Five
  <2> HIDE DEF t
  <2>3. Len(L!CSI \o t) = Len(L!CSI) + Len(t) /\ L!CSI \o t \in Seq(Glyphs)
    BY <2>2, Pieces, Concat
  <2> QED  BY <2>1, <2>2, <2>3, Pieces
<1>3. CASE level = "NOTICE"
  <2> DEFINE t == <<"1", ";", "3", "7", "m">>
  <2>1. L!color(level) = L!CSI \o t
    BY <1>3 DEF L!color, L!colors_map
  <2>2. t \in Seq(Glyphs) /\ Len(t) = 5
    BY Signs, Five
  <2> HIDE DEF t
  <2>3. Len(L!CSI \o t) = Len(L!CSI) + Len(t) /\ L!CSI \o t \in Seq(Glyphs)
    BY <2>2, Pieces, Concat
  <2> QED  BY <2>1, <2>2, <2>3, Pieces
<1> QED  BY <1>1, <1>2, <1>3 DEF L!Levels

\* There is a timestamp, or none.
LEMMA TimestampLength ==
  ASSUME NEW level \in L!Levels
  PROVE  /\ L!timestamp(level) \in Seq(Glyphs)
         /\ L!timestamp(level) = <<>> \/ L!timestamp(level) = L!timestamp("INFO")
<1>1. L!timestamp("INFO") = L!Date \o L!BLACK_BOLD_S \o L!Millis \o L!CLEAR \o L!Close
  BY DEF L!timestamp
<1>2. L!timestamp("INFO") \in Seq(Glyphs)
  <2>1. L!Date \o L!BLACK_BOLD_S \in Seq(Glyphs)
    BY Pieces, Concat
  <2>2. L!Date \o L!BLACK_BOLD_S \o L!Millis \in Seq(Glyphs)
    BY <2>1, Pieces, Concat
  <2>3. L!Date \o L!BLACK_BOLD_S \o L!Millis \o L!CLEAR \in Seq(Glyphs)
    BY <2>2, Pieces, Concat
  <2> QED  BY <1>1, <2>3, Pieces, Concat
<1>3. L!timestamp(level) = <<>> \/ L!timestamp(level) = L!timestamp("INFO")
  BY DEF L!timestamp
<1>4. L!timestamp(level) \in Seq(Glyphs)
  <2>1. CASE L!timestamp(level) = <<>>
    BY <2>1
  <2>2. CASE L!timestamp(level) = L!timestamp("INFO")
    BY <1>2, <2>2
  <2> QED  BY <1>3, <2>1, <2>2
<1> QED  BY <1>3, <1>4

\* What is left for the text, after the timestamp.
LEMMA RoomLeft ==
  ASSUME NEW level \in L!Levels
  PROVE  /\ L!Room(level) \in Nat \ {0}
         /\ L!Room(level) = kMaxBufferSize - Len(L!timestamp(level)) - 32
<1>1. /\ L!timestamp("INFO") \in Seq(Glyphs) /\ Len(L!timestamp("INFO")) \in Nat
      /\ L!timestamp(level) \in Seq(Glyphs) /\ Len(L!timestamp(level)) \in Nat
  BY TimestampLength, LenProperties DEF L!Levels
<1>2. Len(L!timestamp(level)) <= Len(L!timestamp("INFO"))
  <2>1. CASE L!timestamp(level) = <<>>
    BY <1>1, <2>1
  <2>2. CASE L!timestamp(level) = L!timestamp("INFO")
    BY <1>1, <2>2
  <2> QED  BY <2>1, <2>2, TimestampLength
<1>3. L!Room(level) = kMaxBufferSize - Len(L!timestamp(level)) - 32
  BY DEF L!Room
<1> QED  BY <1>1, <1>2, <1>3, LogAssumption

\* A text that is cut takes the whole room, with the NUL at its end.
LEMMA TruncatedLength ==
  ASSUME NEW text \in Seq(Printable), NEW room \in Nat \ {0}
  PROVE  L!Truncated(text, room) \in Seq(Glyphs) /\ Len(L!Truncated(text, room)) <= room
<1>1. text \in Seq(Glyphs) /\ Len(text) \in Nat
  <2>1. Printable \subseteq Glyphs
    BY DEF Glyphs
  <2> QED  BY <2>1, SeqMonotonic, LenProperties
<1>2. CASE Len(text) < room
  BY <1>1, <1>2 DEF L!Truncated
<1>3. CASE ~ (Len(text) < room)
  <2> DEFINE cut == SubSeq(text, 1, room - 1)
  <2>1. \A i \in 1..(room - 1) : text[i] \in Glyphs
    BY <1>1, <1>3, ElementOfSeq
  <2>2. cut \in Seq(Glyphs) /\ Len(cut) = room - 1
    BY <1>1, <1>3, <2>1, SubSeqProperties
  <2>3. <<"NUL">> \in Seq(Glyphs) /\ Len(<<"NUL">>) = 1
    BY DEF Glyphs
  <2>4. L!Truncated(text, room) = cut \o <<"NUL">>
    BY <1>3 DEF L!Truncated, L!NUL
  <2> HIDE DEF cut
  <2>5. cut \o <<"NUL">> \in Seq(Glyphs) /\ Len(cut \o <<"NUL">>) = Len(cut) + Len(<<"NUL">>)
    BY <2>2, <2>3, ConcatProperties
  <2> QED  BY <2>2, <2>3, <2>4, <2>5
<1> QED  BY <1>2, <1>3

\* The 32 characters that print() leaves free hold the rest of the line.
LEMMA LineFits ==
  ASSUME NEW level \in L!Levels, NEW text \in Seq(Printable)
  PROVE  Len(L!Buffer(level, text)) <= kMaxBufferSize
<1> DEFINE stamp == L!timestamp(level)
<1> DEFINE colour == L!color(level)
<1> DEFINE cut == L!Truncated(text, L!Room(level))
<1> DEFINE end == <<L!NL, L!NUL>>
<1>1. stamp \in Seq(Glyphs) /\ Len(stamp) \in Nat
  BY TimestampLength, LenProperties
<1>2. colour \in Seq(Glyphs) /\ Len(colour) <= 7 /\ Len(colour) \in Nat
  BY ColorLength, LenProperties
<1>3. L!Room(level) \in Nat \ {0} /\ L!Room(level) = kMaxBufferSize - Len(stamp) - 32
  BY RoomLeft
<1>4. cut \in Seq(Glyphs) /\ Len(cut) <= L!Room(level) /\ Len(cut) \in Nat
  BY <1>3, TruncatedLength, LenProperties
<1>5. L!CLEAR \in Seq(Glyphs) /\ Len(L!CLEAR) = 4 /\ end \in Seq(Glyphs) /\ Len(end) = 2
  BY Pieces
<1>6. L!Buffer(level, text) = stamp \o colour \o cut \o L!CLEAR \o end
  BY DEF L!Buffer
<1> HIDE DEF stamp, colour, cut, end
<1>7. Len(stamp \o colour \o cut \o L!CLEAR \o end)
        = Len(stamp) + Len(colour) + Len(cut) + 4 + 2
  <2>1. /\ stamp \o colour \in Seq(Glyphs)
        /\ Len(stamp \o colour) = Len(stamp) + Len(colour)
    BY <1>1, <1>2, Concat
  <2>2. /\ stamp \o colour \o cut \in Seq(Glyphs)
        /\ Len(stamp \o colour \o cut) = Len(stamp \o colour) + Len(cut)
    BY <1>4, <2>1, Concat
  <2>3. /\ stamp \o colour \o cut \o L!CLEAR \in Seq(Glyphs)
        /\ Len(stamp \o colour \o cut \o L!CLEAR) = Len(stamp \o colour \o cut) + 4
    <3> DEFINE before == stamp \o colour \o cut
    <3>1. before \in Seq(Glyphs)
      BY <2>2
    <3> HIDE DEF before
    <3>2. /\ before \o L!CLEAR \in Seq(Glyphs)
          /\ Len(before \o L!CLEAR) = Len(before) + Len(L!CLEAR)
      BY <1>5, <3>1, Concat
    <3> QED  BY <1>5, <3>2 DEF before
  <2>4. Len(stamp \o colour \o cut \o L!CLEAR \o end)
          = Len(stamp \o colour \o cut \o L!CLEAR) + 2
    BY <1>5, <2>3, Concat
  <2> QED  BY <2>1, <2>2, <2>3, <2>4
<1>8. kMaxBufferSize \in Nat
  BY LogAssumption
<1> QED  BY <1>1, <1>2, <1>3, <1>4, <1>6, <1>7, <1>8

(***************************************************************************)
(* Whatever is printed, at any level, the line that print() puts together  *)
(* with its timestamp, its colour and its end stays in the buffer.         *)
(***************************************************************************)
THEOREM InBufferHolds == L!Spec => []L!InBuffer
<1>1. L!Init => L!InBuffer
  BY LogAssumption DEF L!Init, L!InBuffer
<1>2. L!InBuffer /\ [L!Next]_(L!vars) => L!InBuffer'
  <2> SUFFICES ASSUME L!InBuffer, [L!Next]_(L!vars)  PROVE L!InBuffer'
    OBVIOUS
  <2>1. ASSUME NEW level \in L!Levels, NEW text \in Formatted, L!print(level, text)
        PROVE  L!InBuffer'
    <3>1. text \in Seq(Printable)
      BY LogAssumption
    <3>2. m_buf' = L!Buffer(level, text)
      BY <2>1 DEF L!print
    <3> QED  BY <3>1, <3>2, LineFits DEF L!InBuffer
  <2>2. ASSUME NEW level \in L!Levels, NEW text \in Formatted, NEW verbose,
               L!ignore(level, text, verbose)
        PROVE  L!InBuffer'
    <3>1. m_buf' = <<>>
      BY <2>2 DEF L!ignore
    <3> QED  BY <3>1, LogAssumption DEF L!InBuffer
  <2>3. CASE UNCHANGED m_buf
    BY <2>3 DEF L!InBuffer
  <2>4. L!setColors \/ L!add \/ L!destroy \/ UNCHANGED L!vars => UNCHANGED m_buf
    BY DEF L!setColors, L!add, L!destroy, L!vars
  <2> QED  BY <2>1, <2>2, <2>3, <2>4, Zenon DEF L!Next
<1> QED  BY <1>1, <1>2, PTL DEF L!Spec

-----------------------------------------------------------------------------
(* ParseError: while the loop runs, the lines before the error have been   *)
(* read, and the last of them ends where the next one begins.              *)
Newlines(n) == {i \in 1..n : json[i] = X!NL}

LookingInv ==
  /\ charsRead <= errorOffset
  /\ charsRead > 0 => json[charsRead] = X!NL
  /\ linesRead = Cardinality(Newlines(charsRead))

\* The line at hand, of which "end" is the place behind it.
IsLine(line, end) ==
  /\ line \in Seq(FileCharacters)
  /\ Len(line) < end
  /\ \A i \in 1..Len(line) : line[i] = json[end - 1 - Len(line) + i]

FoundInv ==
  LET start == charsRead - Len(lastLine)
  IN  /\ start <= errorOffset + 1 /\ errorOffset < charsRead
      /\ \A i \in 1..Len(lastLine) : lastLine[i] # X!NL
      /\ charsRead <= Len(json) => json[charsRead] = X!NL
      /\ charsRead <= Len(json) + 1
      /\ linesRead = 1 + Cardinality(Newlines(errorOffset))
      /\ column = errorOffset + 2 - start
      /\ \/ context = <<lastLine>>
         \/ /\ context = <<context[1], lastLine>> /\ context[1] # <<>>
            /\ IsLine(context[1], start - 1) /\ json[start - 1] = X!NL

ErrorInv ==
  /\ json \in Seq(FileCharacters) /\ errorOffset \in 0..Len(json)
  /\ charsRead \in Nat /\ linesRead \in Nat
  /\ search \in {"looking", "found", "shown"}
  /\ charsRead > 0 => IsLine(lastLine, charsRead)
  /\ charsRead = 0 => lastLine = <<>>
  /\ search = "looking" => LookingInv
  /\ search # "looking" => FoundInv /\ charsRead > 0
  /\ search = "shown" =>
       logged = Append(context, [i \in 1..column |-> IF i = column THEN "^" ELSE " "])

\* A line goes up to the next newline, or to the end.
LEMMA NextLine ==
  ASSUME json \in Seq(FileCharacters), NEW k \in 0..Len(json),
         NEW got, got = X!GetLine(k + 1)
  PROVE  /\ got.t \in Seq(FileCharacters) /\ Len(got.t) \in Nat
         /\ k + Len(got.t) + 1 <= Len(json) + 1
         /\ \A i \in 1..Len(got.t) : got.t[i] = json[k + i] /\ json[k + i] # X!NL
         /\ \/ got.eof = TRUE /\ k + Len(got.t) + 1 = Len(json) + 1
            \/ /\ got.eof = FALSE /\ k + Len(got.t) + 1 <= Len(json)
               /\ json[k + Len(got.t) + 1] = X!NL
<1> DEFINE ends == {i \in (k + 1)..Len(json) : json[i] = X!NL}
<1> DEFINE first == CHOOSE i \in ends : \A j \in ends : i <= j
<1>1. Len(json) \in Nat /\ \A i \in 1..Len(json) : json[i] \in FileCharacters
  BY LenProperties, ElementOfSeq
<1>2. got = IF ends = {} THEN [t |-> SubSeq(json, k + 1, Len(json)), eof |-> TRUE]
            ELSE [t |-> SubSeq(json, k + 1, first - 1), eof |-> FALSE]
  BY DEF X!GetLine
<1>3. ASSUME NEW n \in k..Len(json)
      PROVE  LET piece == SubSeq(json, k + 1, n)
             IN  /\ piece \in Seq(FileCharacters) /\ Len(piece) = n - k
                 /\ \A i \in 1..Len(piece) : piece[i] = json[k + i]
  <2>1. \A i \in (k + 1)..n : json[i] \in FileCharacters
    BY <1>1
  <2>2. k + 1 \in Int /\ n \in Int
    BY <1>1
  <2> QED  BY <1>1, <2>1, <2>2, SubSeqProperties
<1>4. CASE ends = {}
  <2>1. got.t = SubSeq(json, k + 1, Len(json)) /\ got.eof = TRUE
    BY <1>2, <1>4
  <2>2. Len(json) \in k..Len(json)
    BY <1>1
  <2>3. \A i \in (k + 1)..Len(json) : json[i] # X!NL
    BY <1>4
  <2> HIDE DEF ends
  <2>4. /\ got.t \in Seq(FileCharacters) /\ Len(got.t) = Len(json) - k
        /\ \A i \in 1..Len(got.t) : got.t[i] = json[k + i]
    BY <1>3, <2>1, <2>2
  <2>5. ASSUME NEW i \in 1..Len(got.t)  PROVE json[k + i] # X!NL
    <3>1. k + i \in (k + 1)..Len(json)
      BY <1>1, <2>4
    <3> QED  BY <2>3, <3>1
  <2>6. k + Len(got.t) + 1 = Len(json) + 1
    BY <1>1, <2>4
  <2> QED  BY <1>1, <2>1, <2>4, <2>5, <2>6
<1>5. CASE ends # {}
  <2>1. \E i \in ends : \A j \in ends : i <= j
    <3>1. ends \subseteq Nat
      BY <1>1
    <3> HIDE DEF ends
    <3> QED  BY <1>5, <3>1, LeastNat
  <2>2. first \in ends /\ \A j \in ends : first <= j
    <3> HIDE DEF ends
    <3> QED  BY <2>1
  <2> HIDE DEF first
  <2>3. first \in (k + 1)..Len(json) /\ json[first] = X!NL
    BY <2>2
  <2>4. \A i \in (k + 1)..(first - 1) : json[i] # X!NL
    BY <1>1, <2>2, <2>3
  <2>5. got.t = SubSeq(json, k + 1, first - 1) /\ got.eof = FALSE
    BY <1>2, <1>5
  <2>6. first - 1 \in k..Len(json)
    BY <1>1, <2>3
  <2>7. /\ got.t \in Seq(FileCharacters) /\ Len(got.t) = first - 1 - k
        /\ \A i \in 1..Len(got.t) : got.t[i] = json[k + i]
    BY <1>3, <2>5, <2>6
  <2> HIDE DEF ends
  <2>8. ASSUME NEW i \in 1..Len(got.t)  PROVE json[k + i] # X!NL
    <3>1. k + i \in (k + 1)..(first - 1)
      BY <1>1, <2>3, <2>7
    <3> QED  BY <2>4, <3>1
  <2>9. k + Len(got.t) + 1 = first
    BY <1>1, <2>3, <2>7
  <2> QED  BY <1>1, <2>3, <2>5, <2>7, <2>8, <2>9
<1> QED  BY <1>4, <1>5

\* The newlines of a line more, and of a part of a line.
LEMMA CountNewlines ==
  ASSUME json \in Seq(FileCharacters), NEW k \in 0..Len(json), NEW n \in k..Len(json),
         \A i \in (k + 1)..(n - 1) : json[i] # X!NL
  PROVE  /\ Cardinality(Newlines(k)) \in Nat
         /\ n > k /\ json[n] = X!NL => Cardinality(Newlines(n)) = Cardinality(Newlines(k)) + 1
         /\ n = k \/ json[n] # X!NL => Newlines(n) = Newlines(k)
<1>1. Len(json) \in Nat /\ k \in Nat /\ n \in Nat /\ k <= n
  BY LenProperties
<1>2. IsFiniteSet(Newlines(k))
  <2>1. Newlines(k) \subseteq 1..k
    BY DEF Newlines
  <2>2. IsFiniteSet(1..k)
    BY <1>1, FS_Interval
  <2> QED  BY <2>1, <2>2, FS_Subset
<1>3. Cardinality(Newlines(k)) \in Nat
  BY <1>2, FS_CardinalityType
<1>4. ASSUME n > k, json[n] = X!NL
      PROVE  Cardinality(Newlines(n)) = Cardinality(Newlines(k)) + 1
  <2>1. Newlines(n) = Newlines(k) \cup {n}
    BY <1>1, <1>4 DEF Newlines
  <2>2. n \notin Newlines(k)
    BY <1>1, <1>4 DEF Newlines
  <2> QED  BY <1>2, <2>1, <2>2, FS_AddElement
<1>5. ASSUME n = k \/ json[n] # X!NL  PROVE Newlines(n) = Newlines(k)
  <2>1. \A i \in (k + 1)..n : json[i] # X!NL
    BY <1>1, <1>5
  <2> QED  BY <1>1, <2>1 DEF Newlines
<1> QED  BY <1>3, <1>4, <1>5

\* The first state is one of these.
LEMMA ErrorInit == X!Init => ErrorInv
<1> SUFFICES ASSUME X!Init  PROVE ErrorInv
  OBVIOUS
<1>1. /\ json \in Files /\ errorOffset \in 0..Len(json)
      /\ lastLine = <<>> /\ charsRead = 0 /\ linesRead = 0 /\ search = "looking"
  BY DEF X!Init
<1>2. json \in Seq(FileCharacters)
  BY <1>1, FilesAssumption
<1>3. Newlines(0) = {}
  BY DEF Newlines
<1>4. LookingInv
  BY <1>1, <1>3, FS_EmptySet DEF LookingInv
<1> QED  BY <1>1, <1>2, <1>4 DEF ErrorInv

\* One round of the loop.
LEMMA ErrorRound == ASSUME ErrorInv, X!convertOffset  PROVE ErrorInv'
<1> DEFINE got == X!GetLine(charsRead + 1)
<1> DEFINE text == got.t
<1> DEFINE size == Len(got.t)
<1>1. /\ search = "looking" /\ lastLine' = text
      /\ charsRead' = charsRead + size + 1 /\ linesRead' = linesRead + 1
      /\ json' = json /\ errorOffset' = errorOffset
  BY DEF X!convertOffset
<1>2. \/ /\ charsRead' > errorOffset
         /\ column' = errorOffset + size + 1 - charsRead' + 1
         /\ context' = IF lastLine = <<>> THEN <<text>> ELSE <<lastLine, text>>
         /\ search' = "found"
      \/ /\ ~ (charsRead' > errorOffset)
         /\ search' = IF got.eof THEN "not found" ELSE "looking"
  BY DEF X!convertOffset, X!Reached
<1>3. json \in Seq(FileCharacters) /\ errorOffset \in 0..Len(json) /\ Len(json) \in Nat
  BY LenProperties DEF ErrorInv
<1>4. /\ charsRead \in Nat /\ linesRead \in Nat
      /\ charsRead > 0 => IsLine(lastLine, charsRead)
      /\ charsRead = 0 => lastLine = <<>>
  BY DEF ErrorInv
<1>5. /\ charsRead <= errorOffset /\ (charsRead > 0 => json[charsRead] = X!NL)
      /\ linesRead = Cardinality(Newlines(charsRead))
  BY <1>1 DEF ErrorInv, LookingInv
<1>6. charsRead \in 0..Len(json)
  BY <1>3, <1>4, <1>5
<1>7. /\ text \in Seq(FileCharacters) /\ size \in Nat
      /\ charsRead + size + 1 <= Len(json) + 1
      /\ \/ got.eof = TRUE /\ charsRead + size + 1 = Len(json) + 1
         \/ /\ got.eof = FALSE /\ charsRead + size + 1 <= Len(json)
            /\ json[charsRead + size + 1] = X!NL
  BY <1>3, <1>6, NextLine
<1>8. \A i \in 1..size : text[i] = json[charsRead + i] /\ json[charsRead + i] # X!NL
  BY <1>3, <1>6, NextLine
<1> DEFINE eof == got.eof
<1>9. size = Len(text)
  OBVIOUS
<1> HIDE DEF got, text, size
<1>10. charsRead' \in Nat /\ charsRead' > 0 /\ linesRead' \in Nat
  BY <1>1, <1>4, <1>7
<1>11. ASSUME NEW i \in 1..size
       PROVE  text[i] = json[charsRead' - 1 - size + i]
  <2>1. charsRead' - 1 - size + i = charsRead + i
    BY <1>1, <1>4, <1>7
  <2> QED  BY <1>8, <2>1
<1>12. IsLine(lastLine, charsRead)'
  <2>1. Len(lastLine') = size /\ size < charsRead'
    BY <1>1, <1>4, <1>7, <1>9
  <2> QED  BY <1>1, <1>7, <1>11, <2>1 DEF IsLine
<1>13. ASSUME NEW i \in (charsRead + 1)..(charsRead + size)  PROVE json[i] # X!NL
  <2>1. i - charsRead \in 1..size /\ charsRead + (i - charsRead) = i
    BY <1>4, <1>7
  <2> QED  BY <1>8, <2>1
<1>14. CASE ~ (charsRead' > errorOffset)
  <2>1. eof = FALSE /\ charsRead' \in charsRead..Len(json) /\ charsRead' > charsRead
    BY <1>1, <1>3, <1>4, <1>7, <1>14
  <2>2. search' = "looking" /\ json[charsRead'] = X!NL
    BY <1>1, <1>2, <1>7, <1>14, <2>1
  <2>3. \A i \in (charsRead + 1)..(charsRead' - 1) : json[i] # X!NL
    <3>1. charsRead' - 1 = charsRead + size
      BY <1>1, <1>4, <1>7
    <3> QED  BY <1>13, <3>1
  <2>4. Cardinality(Newlines(charsRead')) = Cardinality(Newlines(charsRead)) + 1
    BY <1>3, <1>6, <2>1, <2>2, <2>3, CountNewlines
  <2>5. Newlines(charsRead)' = Newlines(charsRead')
    BY <1>1 DEF Newlines
  <2>6. charsRead' <= errorOffset'
    BY <1>1, <1>3, <1>10, <1>14
  <2>7. LookingInv'
    BY <1>1, <1>5, <2>2, <2>4, <2>5, <2>6 DEF LookingInv
  <2> QED  BY <1>1, <1>3, <1>10, <1>12, <2>2, <2>7 DEF ErrorInv
<1>15. CASE charsRead' > errorOffset
  <2>1. /\ column' = errorOffset + size + 1 - charsRead' + 1
        /\ context' = (IF lastLine = <<>> THEN <<text>> ELSE <<lastLine, text>>)
        /\ search' = "found"
    BY <1>2, <1>15
  <2>2. charsRead' - Len(lastLine') = charsRead + 1
    BY <1>1, <1>4, <1>7, <1>9
  <2>3. linesRead' = 1 + Cardinality(Newlines(errorOffset))
    <3>1. errorOffset \in charsRead..Len(json) /\ errorOffset <= charsRead + size
      BY <1>1, <1>3, <1>4, <1>5, <1>7, <1>15
    <3>2. \A i \in (charsRead + 1)..errorOffset : json[i] # X!NL
      BY <1>3, <1>4, <1>7, <1>13, <3>1
    <3>3. errorOffset = charsRead \/ json[errorOffset] # X!NL
      BY <1>3, <1>4, <3>1, <3>2
    <3>4. \A i \in (charsRead + 1)..(errorOffset - 1) : json[i] # X!NL
      BY <1>3, <1>4, <3>2
    <3>5. Newlines(errorOffset) = Newlines(charsRead) /\ Cardinality(Newlines(charsRead)) \in Nat
      BY <1>3, <1>6, <3>1, <3>3, <3>4, CountNewlines
    <3> QED  BY <1>1, <1>5, <3>5
  <2>4. \/ context' = <<lastLine'>>
        \/ /\ context' = <<context'[1], lastLine'>> /\ context'[1] # <<>>
           /\ IsLine(context'[1], charsRead) /\ json[charsRead] = X!NL
    <3>1. CASE lastLine = <<>>
      BY <1>1, <2>1, <3>1
    <3>2. CASE lastLine # <<>>
      <4>1. context' = <<lastLine, text>>
        BY <2>1, <3>2
      <4>2. context'[1] = lastLine /\ context' = <<context'[1], lastLine'>>
        BY <1>1, <4>1
      <4>3. charsRead > 0
        BY <1>4, <3>2
      <4> QED  BY <1>1, <1>4, <1>5, <3>2, <4>2, <4>3
    <3> QED  BY <3>1, <3>2
  <2>5. /\ charsRead' - Len(lastLine') - 1 = charsRead
        /\ column' = errorOffset + 2 - (charsRead + 1)
        /\ charsRead + 1 <= errorOffset + 1
    BY <1>1, <1>3, <1>4, <1>5, <1>7, <2>1, <2>2
  <2>6. Newlines(errorOffset)' = Newlines(errorOffset)
    BY <1>1 DEF Newlines
  <2>7. \A i \in 1..Len(lastLine') : lastLine'[i] # X!NL
    BY <1>1, <1>8, <1>9
  <2>8. charsRead' <= Len(json') + 1 /\ (charsRead' <= Len(json') => json'[charsRead'] = X!NL)
    BY <1>1, <1>3, <1>4, <1>7
  <2>9. IsLine(context'[1], charsRead) => IsLine(context[1], charsRead - Len(lastLine) - 1)'
    BY <1>1, <2>5 DEF IsLine
  <2>10. FoundInv'
    BY <1>1, <1>3, <1>15, <2>2, <2>3, <2>4, <2>5, <2>6, <2>7, <2>8, <2>9 DEF FoundInv
  <2> QED  BY <1>1, <1>3, <1>10, <1>12, <2>1, <2>10 DEF ErrorInv
<1> QED  BY <1>14, <1>15

\* What ConfigFile::read adds.
LEMMA ErrorRead == ASSUME ErrorInv, X!read  PROVE ErrorInv'
<1>1. /\ search = "found" /\ search' = "shown"
      /\ logged' = Append(context, [i \in 1..(IF column > 0 THEN column ELSE 1) |->
                     IF i = (IF column > 0 THEN column ELSE 1) THEN "^" ELSE " "])
      /\ json' = json /\ errorOffset' = errorOffset /\ lastLine' = lastLine
      /\ charsRead' = charsRead /\ linesRead' = linesRead
      /\ column' = column /\ context' = context
  BY DEF X!read
<1>2. FoundInv /\ charsRead > 0 /\ json \in Seq(FileCharacters) /\ errorOffset \in 0..Len(json)
  BY <1>1 DEF ErrorInv
<1>3. lastLine \in Seq(FileCharacters) /\ charsRead \in Nat
  BY <1>2 DEF ErrorInv, IsLine
<1>4. column > 0
  <2>1. Len(lastLine) \in Nat /\ Len(json) \in Nat
    BY <1>2, <1>3, LenProperties
  <2>2. /\ charsRead - Len(lastLine) <= errorOffset + 1
        /\ column = errorOffset + 2 - (charsRead - Len(lastLine))
    BY <1>2 DEF FoundInv
  <2> QED  BY <1>2, <1>3, <2>1, <2>2
<1>5. logged' = Append(context', [i \in 1..column' |-> IF i = column' THEN "^" ELSE " "])
  BY <1>1, <1>4
<1>6. FoundInv' = FoundInv /\ IsLine(lastLine, charsRead)' = IsLine(lastLine, charsRead)
  BY <1>1 DEF FoundInv, IsLine, Newlines
<1> QED  BY <1>1, <1>2, <1>5, <1>6 DEF ErrorInv

\* Every step keeps the invariant.
LEMMA ErrorStep == ErrorInv /\ [X!Next]_(X!vars) => ErrorInv'
<1>1. ASSUME ErrorInv, UNCHANGED X!vars  PROVE ErrorInv'
  BY <1>1 DEF X!vars, ErrorInv, LookingInv, FoundInv, IsLine, Newlines
<1> QED  BY <1>1, ErrorRound, ErrorRead DEF X!Next

\* The state when the lines have been shown.
LEMMA ShownFacts ==
  ASSUME ErrorInv, search = "shown", NEW size, size = Len(lastLine)
  PROVE  /\ size \in Nat /\ Len(json) \in Nat /\ charsRead \in Nat
         /\ json \in Seq(FileCharacters) /\ errorOffset \in 0..Len(json)
         /\ charsRead - size <= errorOffset + 1 /\ errorOffset < charsRead
         /\ charsRead <= Len(json) + 1
         /\ column = errorOffset + 2 - (charsRead - size)
         /\ charsRead <= Len(json) => json[charsRead] = X!NL
         /\ linesRead = 1 + Cardinality({i \in 1..errorOffset : json[i] = X!NL})
         /\ \A i \in 1..size : lastLine[i] # X!NL
         /\ \A i \in 1..size : lastLine[i] = json[charsRead - 1 - size + i]
         /\ \/ context = <<lastLine>>
            \/ /\ context = <<context[1], lastLine>> /\ context[1] # <<>>
               /\ IsLine(context[1], charsRead - size - 1) /\ json[charsRead - size - 1] = X!NL
<1>1. /\ FoundInv /\ charsRead \in Nat /\ json \in Seq(FileCharacters)
      /\ errorOffset \in 0..Len(json) /\ IsLine(lastLine, charsRead)
  BY DEF ErrorInv
<1>2. size \in Nat /\ Len(json) \in Nat
  BY <1>1, LenProperties DEF IsLine
<1>3. /\ charsRead - size <= errorOffset + 1 /\ errorOffset < charsRead
      /\ charsRead <= Len(json) + 1
      /\ column = errorOffset + 2 - (charsRead - size)
      /\ charsRead <= Len(json) => json[charsRead] = X!NL
      /\ \A i \in 1..size : lastLine[i] # X!NL
  BY <1>1 DEF FoundInv
<1>4. linesRead = 1 + Cardinality({i \in 1..errorOffset : json[i] = X!NL})
  BY <1>1 DEF FoundInv, Newlines
<1>5. \A i \in 1..size : lastLine[i] = json[charsRead - 1 - size + i]
  BY <1>1 DEF IsLine
<1>6. \/ context = <<lastLine>>
      \/ /\ context = <<context[1], lastLine>> /\ context[1] # <<>>
         /\ IsLine(context[1], charsRead - size - 1) /\ json[charsRead - size - 1] = X!NL
  <2> USE DEF FoundInv
  <2> HIDE DEF IsLine
  <2> QED  BY <1>1
<1> QED  BY <1>1, <1>2, <1>3, <1>4, <1>5, <1>6

\* A place counted from the end of a line, and from its beginning.
LEMMA SamePlaces ==
  ASSUME NEW f, NEW g, NEW n \in Nat, NEW end, NEW place \in Int, end = place + 1,
         \A i \in 1..n : f[i] = g[end - 1 - n + i]
  PROVE  \A i \in 1..n : f[i] = g[place - n + i]
<1> SUFFICES ASSUME NEW i \in 1..n  PROVE f[i] = g[place - n + i]
  OBVIOUS
<1>1. end - 1 - n + i = place - n + i
  OBVIOUS
<1> QED  BY <1>1

\* ParseError counts as this module does.
LEMMA ErrorCardinality == \A T : X!Cardinality(T) = Cardinality(T)
BY DEF X!Cardinality, Cardinality

\* The line and the mark are where they belong.
LEMMA LinePlaced ==
  ASSUME ErrorInv, search = "shown", NEW before,
         before = <<>> \/ /\ IsLine(before, charsRead - Len(lastLine) - 1)
                          /\ json[charsRead - Len(lastLine) - 1] = X!NL
  PROVE  X!Located(lastLine, column, before) /\ column \in Nat /\ column > 0
<1> DEFINE size == Len(lastLine)
<1> DEFINE length == Len(json)
<1>1. /\ size \in Nat /\ length \in Nat /\ charsRead \in Nat
      /\ json \in Seq(FileCharacters) /\ errorOffset \in 0..length
      /\ charsRead - size <= errorOffset + 1 /\ errorOffset < charsRead
      /\ charsRead <= length + 1
      /\ column = errorOffset + 2 - (charsRead - size)
      /\ charsRead <= length => json[charsRead] = X!NL
      /\ linesRead = 1 + Cardinality({i \in 1..errorOffset : json[i] = X!NL})
      /\ \A i \in 1..size : lastLine[i] # X!NL
      /\ \A i \in 1..size : lastLine[i] = json[charsRead - 1 - size + i]
  BY ShownFacts
<1>2. before = <<>> \/ /\ IsLine(before, charsRead - size - 1)
                       /\ json[charsRead - size - 1] = X!NL
  OBVIOUS
<1> HIDE DEF size, length
<1>3. /\ errorOffset \in Nat /\ errorOffset <= length
      /\ column \in Int /\ column > 0 /\ charsRead = errorOffset - column + 2 + size
      /\ charsRead - size - 1 = errorOffset - column + 1
  BY <1>1
<1>4. \A i \in 1..(column - 1) : lastLine[i] = json[errorOffset - column + 1 + i]
  <2> SUFFICES ASSUME NEW i \in 1..(column - 1)
               PROVE  lastLine[i] = json[errorOffset - column + 1 + i]
    OBVIOUS
  <2>1. size \in Nat /\ charsRead \in Nat /\ errorOffset < charsRead
    BY <1>1
  <2>2. column - 1 <= size
    BY <1>3, <2>1
  <2>3. i \in Int /\ i >= 1 /\ i <= column - 1
    BY <1>3
  <2>4. i \in 1..size
    BY <1>3, <2>1, <2>2, <2>3
  <2>5. charsRead - 1 - size + i = errorOffset - column + 1 + i
    BY <1>3, <2>1, <2>3
  <2>6. lastLine[i] = json[charsRead - 1 - size + i]
    BY <1>1, <2>4
  <2> QED  BY <2>5, <2>6
<1>5. ASSUME errorOffset + 1 # charsRead
      PROVE  /\ column \in 1..size /\ lastLine[column] = json[errorOffset + 1]
             /\ errorOffset < length /\ json[errorOffset + 1] # X!NL
  <2>1. column \in 1..size /\ charsRead - 1 - size + column = errorOffset + 1
    BY <1>1, <1>3, <1>5
  <2>2. lastLine[column] = json[errorOffset + 1] /\ lastLine[column] # X!NL
    BY <1>1, <2>1
  <2>3. errorOffset < length
    BY <1>1, <1>3, <1>5
  <2> QED  BY <2>1, <2>2, <2>3
<1>6. ASSUME errorOffset + 1 = charsRead
      PROVE  /\ column = size + 1
             /\ ~ (errorOffset < length /\ json[errorOffset + 1] # X!NL)
  <2>1. column = size + 1
    BY <1>1, <1>3, <1>6
  <2>2. ASSUME errorOffset < length  PROVE json[errorOffset + 1] = X!NL
    <3>1. charsRead <= length
      BY <1>1, <1>3, <1>6, <2>2
    <3> QED  BY <1>1, <1>6, <3>1
  <2> QED  BY <2>1, <2>2
<1>7. IF errorOffset < length /\ json[errorOffset + 1] # X!NL
        THEN column <= size /\ lastLine[column] = json[errorOffset + 1]
        ELSE column = size + 1
  <2>1. CASE errorOffset + 1 # charsRead
    <3>1. column <= size
      BY <1>1, <1>5, <2>1
    <3> QED  BY <1>5, <2>1, <3>1
  <2>2. CASE errorOffset + 1 = charsRead
    BY <1>6, <2>2
  <2> QED  BY <2>1, <2>2
<1>8. before # <<>> => json[errorOffset - column + 1] = X!NL
  BY <1>2, <1>3
<1>9. \A i \in 1..Len(before) : before[i] = json[errorOffset - column - Len(before) + i]
  <2>1. CASE before = <<>>
    BY <2>1
  <2>2. CASE before # <<>>
    <3> DEFINE end == charsRead - size - 1
    <3>1. IsLine(before, end)
      BY <1>2, <2>2
    <3> HIDE DEF end
    <3>2. \A i \in 1..Len(before) : before[i] = json[end - 1 - Len(before) + i]
      BY <3>1 DEF IsLine
    <3>3. Len(before) \in Nat
      BY <3>1, LenProperties DEF IsLine
    <3>4. end = (errorOffset - column) + 1 /\ errorOffset - column \in Int
      BY <1>3 DEF end
    <3> QED  BY <3>2, <3>3, <3>4, SamePlaces
  <2> QED  BY <2>1, <2>2
<1>10. column \in Nat
  BY <1>3
<1>11. linesRead = 1 + X!Cardinality({i \in 1..errorOffset : json[i] = X!NL})
  BY <1>1, ErrorCardinality
<1>12. IF errorOffset < Len(json) /\ json[errorOffset + 1] # X!NL
         THEN column <= Len(lastLine) /\ lastLine[column] = json[errorOffset + 1]
         ELSE column = Len(lastLine) + 1
  BY <1>7 DEF size, length
<1>13. X!Located(lastLine, column, before)
  BY <1>4, <1>8, <1>9, <1>11, <1>12, Zenon DEF X!Located
<1> QED  BY <1>3, <1>10, <1>13

\* A line and a mark.
LEMMA AppendOne ==
  ASSUME NEW a, NEW b, NEW both, both = Append(<<a>>, b)
  PROVE  Len(both) = 2 /\ both[1] = a /\ both[2] = b
<1>1. <<a>> \in Seq({a, b}) /\ Len(<<a>>) = 1 /\ <<a>>[1] = a
  OBVIOUS
<1> DEFINE one == <<a>>
<1> HIDE DEF one
<1>2. Len(both) = Len(one) + 1 /\ both[Len(one) + 1] = b
      /\ \A i \in 1..Len(one) : both[i] = one[i]
  BY <1>1, AppendProperties DEF one
<1>3. Len(one) = 1 /\ one[1] = a
  BY <1>1 DEF one
<1> QED  BY <1>2, <1>3

\* Two lines and a mark.
LEMMA AppendTwo ==
  ASSUME NEW a, NEW b, NEW c, NEW all, all = Append(<<a, b>>, c)
  PROVE  Len(all) = 3 /\ all[1] = a /\ all[2] = b /\ all[3] = c
<1>1. <<a, b>> \in Seq({a, b, c}) /\ Len(<<a, b>>) = 2
      /\ <<a, b>>[1] = a /\ <<a, b>>[2] = b
  OBVIOUS
<1> DEFINE two == <<a, b>>
<1> HIDE DEF two
<1>2. Len(all) = Len(two) + 1 /\ all[Len(two) + 1] = c
      /\ \A i \in 1..Len(two) : all[i] = two[i]
  BY <1>1, AppendProperties DEF two
<1>3. Len(two) = 2 /\ two[1] = a /\ two[2] = b
  BY <1>1 DEF two
<1> QED  BY <1>2, <1>3

\* What is shown of such a state.
LEMMA ErrorPlace == ErrorInv => X!ErrorLocated
<1> SUFFICES ASSUME ErrorInv, search = "shown"  PROVE X!ErrorLocated
  BY DEF ErrorInv, X!ErrorLocated
<1> DEFINE mark == [i \in 1..column |-> IF i = column THEN "^" ELSE " "]
<1>1. logged = Append(context, mark)
  BY DEF ErrorInv
<1>2. column \in Nat
  <2>1. <<>> = <<>>
    OBVIOUS
  <2> QED  BY <2>1, LinePlaced
<1>3. Len(mark) = column
  BY <1>2
<1> HIDE DEF mark
<1> DEFINE before == IF Len(logged) = 2 THEN <<>> ELSE logged[1]
<1>4. /\ logged[Len(logged) - 1] = lastLine /\ logged[Len(logged)] = mark
      /\ \/ before = <<>>
         \/ /\ IsLine(before, charsRead - Len(lastLine) - 1)
            /\ json[charsRead - Len(lastLine) - 1] = X!NL
  <2>1. \/ context = <<lastLine>>
        \/ /\ context = <<context[1], lastLine>> /\ context[1] # <<>>
           /\ IsLine(context[1], charsRead - Len(lastLine) - 1)
           /\ json[charsRead - Len(lastLine) - 1] = X!NL
    BY ShownFacts
  <2>2. CASE context = <<lastLine>>
    <3>1. logged = Append(<<lastLine>>, mark)
      BY <1>1, <2>2
    <3>2. Len(logged) = 2 /\ logged[1] = lastLine /\ logged[2] = mark
      BY <3>1, AppendOne
    <3> QED  BY <3>2
  <2>3. CASE /\ context = <<context[1], lastLine>>
             /\ IsLine(context[1], charsRead - Len(lastLine) - 1)
             /\ json[charsRead - Len(lastLine) - 1] = X!NL
    <3> DEFINE first == context[1]
    <3>1. context = <<first, lastLine>> /\ IsLine(first, charsRead - Len(lastLine) - 1)
      BY <2>3
    <3> HIDE DEF first
    <3>2. logged = Append(<<first, lastLine>>, mark)
      BY <1>1, <3>1
    <3>3. Len(logged) = 3 /\ logged[1] = first /\ logged[2] = lastLine /\ logged[3] = mark
      BY <3>2, AppendTwo
    <3>4. before = first
      BY <3>3
    <3> HIDE DEF before
    <3> QED  BY <2>3, <3>1, <3>3, <3>4
  <2> QED  BY <2>1, <2>2, <2>3
<1> DEFINE shown == logged[Len(logged) - 1]
<1>5. /\ before = (IF Len(logged) = 2 THEN <<>> ELSE logged[1])
      /\ shown = logged[Len(logged) - 1]
  OBVIOUS
<1>6. X!Located(lastLine, column, before)
  <2> HIDE DEF before
  <2> QED  BY <1>4, LinePlaced
<1>7. lastLine = logged[Len(logged) - 1] /\ column = Len(logged[Len(logged)])
  BY <1>3, <1>4
<1>8. X!Located(logged[Len(logged) - 1], Len(logged[Len(logged)]),
             IF Len(logged) = 2 THEN <<>> ELSE logged[1])
  <2> HIDE DEF before
  <2> QED  BY <1>5, <1>6, <1>7
<1> HIDE DEF before, shown
<1>9. search # "not found"
  OBVIOUS
<1> QED  BY <1>8, <1>9 DEF X!ErrorLocated

(***************************************************************************)
(* Of a configuration of any length with an error at any place, the line   *)
(* is named that has it, it is shown with the one before, and the mark     *)
(* stands under the character (Json.cpp, ConfigFile.cpp).                  *)
(***************************************************************************)
THEOREM ErrorShownHolds == X!Spec => []ErrorShown
BY ErrorInit, ErrorStep, ErrorPlace, PTL DEF X!Spec, ErrorShown

-----------------------------------------------------------------------------
(* Startup: before main() has read its arguments there is no file and no    *)
(* variable, and an absolute data directory is the working directory.  The  *)
(* files are opened one after another.                                      *)
Opened ==
  /\ pc = "main" => files = P!none
  /\ pc = "nonces" => DOMAIN files = {"config"}
  /\ pc = "render" => DOMAIN files = {"config", "nonces"}

StartupInv ==
  /\ P!FilesInPlace
  /\ Opened
  /\ pc = "main" => variables = P!none
  /\ P!Absolute(dataDir) => dataDir \in Directories /\ cwd = dataDir

\* A plain name joined to a directory is in that directory.
LEMMA Joined ==
  ASSUME NEW dir \in Seq(PathSymbols), NEW name \in Seq(PathSymbols),
         \A i \in DOMAIN name : name[i] # "/"
  PROVE  P!Within(dir \o <<"/">> \o name, dir)
<1> DEFINE path == dir \o <<"/">> \o name
<1>1. Len(dir) \in Nat /\ Len(name) \in Nat
  BY LenProperties
<1>2. /\ path \in Seq(PathSymbols)
      /\ Len(path) = Len(dir) + 1 + Len(name)
      /\ \A i \in 1..Len(dir) : path[i] = dir[i]
      /\ path[Len(dir) + 1] = "/"
      /\ \A i \in (Len(dir) + 2)..Len(path) : path[i] = name[i - Len(dir) - 1]
  <2>1. <<"/">> \in Seq(PathSymbols) /\ Len(<<"/">>) = 1
    BY DEF PathSymbols
  <2> QED  BY <1>1, <2>1
<1> HIDE DEF path
<1>3. SubSeq(path, 1, Len(dir) + 1) = dir \o <<"/">> /\ Len(dir) < Len(path)
  BY <1>1, <1>2
<1>4. ASSUME NEW i \in (Len(dir) + 2)..Len(path)  PROVE path[i] # "/"
  BY <1>1, <1>2
<1> QED  BY <1>3, <1>4 DEF P!Within, path

\* From its working directory the program finds what leads to it.
LEMMA Resolved ==
  ASSUME NEW path \in Seq(PathSymbols), cwd \in Seq(PathSymbols), P!Absolute(cwd), P!LeadsTo(path, cwd)
  PROVE  P!Within(P!Resolve(path), cwd)
<1>1. path \in Seq(PathSymbols) /\ Len(path) \in Nat /\ Len(cwd) \in Nat \ {0}
  BY LenProperties DEF P!Absolute
<1>2. CASE \A i \in DOMAIN path : path[i] # "/"
  <2>1. ~ P!Absolute(path)
    BY <1>1, <1>2 DEF P!Absolute
  <2> QED  BY <1>1, <1>2, <2>1, Joined DEF P!Resolve
<1>3. CASE P!Within(path, cwd)
  <2>1. SubSeq(path, 1, Len(cwd) + 1) = cwd \o <<"/">> /\ Len(cwd) < Len(path)
    BY <1>3 DEF P!Within
  <2>2. (cwd \o <<"/">>)[1] = cwd[1] /\ Len(cwd \o <<"/">>) = Len(cwd) + 1
    BY <1>1
  <2>3. path # <<>> /\ path[1] = "/"
    BY <1>1, <2>1, <2>2 DEF P!Absolute
  <2> QED  BY <1>3, <2>3 DEF P!Absolute, P!Resolve
<1> QED  BY <1>2, <1>3 DEF P!LeadsTo

\* ".json" behind a name leads to the same directory.
LEMMA Suffixed ==
  ASSUME NEW path \in Seq(PathSymbols), NEW dir \in Seq(PathSymbols), P!LeadsTo(path, dir)
  PROVE  /\ path \o <<".json">> \in Seq(PathSymbols)
         /\ P!LeadsTo(path \o <<".json">>, dir)
<1> DEFINE longer == path \o <<".json">>
<1>1. path \in Seq(PathSymbols) /\ Len(path) \in Nat /\ Len(dir) \in Nat
  BY LenProperties
<1>2. /\ longer \in Seq(PathSymbols)
      /\ Len(longer) = Len(path) + 1
      /\ \A i \in 1..Len(path) : longer[i] = path[i]
      /\ longer[Len(path) + 1] = ".json"
  <2>1. <<".json">> \in Seq(PathSymbols) /\ Len(<<".json">>) = 1
    BY DEF PathSymbols
  <2> QED  BY <1>1, <2>1
<1> HIDE DEF longer
<1>3. CASE \A i \in DOMAIN path : path[i] # "/"
  <2>1. \A i \in DOMAIN longer : longer[i] # "/"
    BY <1>1, <1>2, <1>3
  <2> QED  BY <1>2, <2>1 DEF P!LeadsTo, longer
<1>4. CASE P!Within(path, dir)
  <2>1. SubSeq(path, 1, Len(dir) + 1) = dir \o <<"/">>
    BY <1>4 DEF P!Within
  <2>2. Len(dir) + 1 <= Len(path)
    BY <1>1, <1>4 DEF P!Within
  <2>3. SubSeq(longer, 1, Len(dir) + 1) = SubSeq(path, 1, Len(dir) + 1)
    BY <1>1, <1>2, <2>2
  <2>4. \A i \in (Len(dir) + 2)..Len(path) : path[i] # "/"
    BY <1>4, Zenon DEF P!Within
  <2>5. ASSUME NEW i \in (Len(dir) + 2)..Len(longer)  PROVE longer[i] # "/"
    <3>1. i \in (Len(dir) + 2)..Len(path) \/ i = Len(path) + 1
      BY <1>1, <1>2
    <3>2. i \in (Len(dir) + 2)..Len(path) => i \in 1..Len(path)
      BY <1>1
    <3> QED  BY <1>2, <2>4, <3>1, <3>2
  <2>6. Len(dir) < Len(longer)
    BY <1>1, <1>2, <2>2
  <2> QED  BY <2>1, <2>3, <2>5, <2>6, <1>2 DEF P!Within, P!LeadsTo, longer
<1> QED  BY <1>3, <1>4 DEF P!LeadsTo

\* A file of the program's own, with DataLocation in front of its name.
LEMMA OwnFile ==
  ASSUME StartupInv, P!Absolute(dataDir), NEW name \in {"config.json", "nonces.json"}
  PROVE  P!Within(P!Resolve(P!location(P!DataLocation, <<name>>)), dataDir)
<1> DEFINE path == dataDir \o <<"/">> \o <<name>>
<1>1. dataDir \in Seq(PathSymbols) /\ cwd = dataDir /\ dataDir # <<>>
  BY StartupAssumption DEF StartupInv, P!Absolute
<1>2. P!location(P!DataLocation, <<name>>) = path
  BY <1>1 DEF P!location, P!DataLocation
<1>3. P!Within(path, dataDir) /\ path \in Seq(PathSymbols)
  <2>1. <<name>> \in Seq(PathSymbols) /\ \A i \in DOMAIN <<name>> : <<name>>[i] # "/"
    BY DEF PathSymbols
  <2>2. <<"/">> \in Seq(PathSymbols)
    BY DEF PathSymbols
  <2>3. path \in Seq(PathSymbols)
    BY <1>1, <2>1, <2>2
  <2> QED  BY <1>1, <2>1, <2>3, Joined
<1> HIDE DEF path
<1> QED  BY <1>1, <1>2, <1>3, Resolved DEF P!LeadsTo

\* Whether the variables are there already or not, a text is expanded as it
\* would be by new ones.
LEMMA Expanding ==
  ASSUME StartupInv, P!Absolute(dataDir), NEW text, NEW extra
  PROVE  P!Expand(text, extra) = P!ExpandIn(text, P!VariablesIn(dataDir, dataDir), extra)
<1>1. cwd = dataDir /\ P!DataLocation = dataDir
  BY DEF StartupInv, P!Absolute, P!DataLocation
<1>2. P!createVariables = P!VariablesIn(dataDir, dataDir)
  BY <1>1 DEF P!createVariables
<1> QED  BY <1>2 DEF P!Expand, StartupInv, P!FilesInPlace

\* Steps that open files leave the directories as they are.
LEMMA StartupKeeps ==
  ASSUME StartupInv, UNCHANGED <<words, dataDir, cwd>>, pc' # "main", Opened',
         variables' \in {variables, P!createVariables},
         P!Absolute(dataDir) /\ ~ P!ConfigGiven =>
           \A f \in DOMAIN files' : P!Within(files'[f], dataDir)
  PROVE  StartupInv'
<1>1. P!createVariables' = P!createVariables
  BY DEF P!createVariables, P!DataLocation
<1>2. P!ConfigGiven' = P!ConfigGiven
  BY DEF P!ConfigGiven, P!value
<1>3. variables' \in {P!none, P!createVariables}
  BY DEF StartupInv, P!FilesInPlace
<1> QED  BY <1>1, <1>2, <1>3 DEF StartupInv, P!FilesInPlace

\* The arguments are read: there is no file yet, and an absolute directory
\* is entered under its own name.
LEMMA StartupProcess == StartupInv /\ P!Process => StartupInv'
<1> SUFFICES ASSUME StartupInv, P!Process  PROVE StartupInv'
  OBVIOUS
<1>1. variables' = P!none /\ files' = P!none /\ pc' = "entry"
  BY DEF P!Process, StartupInv, Opened
<1>2. PICK path : P!setDataDir(path)
  BY DEF P!Process
<1>3. PICK dir : \/ /\ P!Resolve(dir) \in Directories
                    /\ dataDir' = dir
                    /\ cwd' = P!Resolve(dir)
                 \/ UNCHANGED <<dataDir, cwd>>
  BY <1>2 DEF P!setDataDir
<1>4. (P!Absolute(dataDir) => dataDir \in Directories /\ cwd = dataDir)'
  BY <1>3 DEF P!Absolute, P!Resolve, StartupInv
<1>5. P!FilesInPlace'
  BY <1>1 DEF P!FilesInPlace, P!none
<1> QED  BY <1>1, <1>4, <1>5 DEF StartupInv, Opened

\* The file of the configuration.
LEMMA StartupApp == StartupInv /\ P!App => StartupInv'
<1> SUFFICES ASSUME StartupInv, P!App  PROVE StartupInv'
  OBVIOUS
<1>1. UNCHANGED <<words, dataDir, cwd, variables>> /\ pc' # "main" /\ Opened'
  BY DEF P!App, Opened
<1>2. ASSUME P!Absolute(dataDir), ~ P!ConfigGiven, NEW f \in DOMAIN files'
      PROVE  P!Within(files'[f], dataDir)
  <2>1. P!value(<<"--config">>, <<"-c">>) \in {P!null, <<>>}
    BY <1>2 DEF P!ConfigGiven
  <2>2. files' = [n \in {"config"} |->
                    P!Resolve(P!location(P!DataLocation, <<"config.json">>))]
    BY <2>1 DEF P!App
  <2> QED  BY <1>2, <2>2, OwnFile
<1> QED  BY <1>1, <1>2, StartupKeeps

\* The list of nonces.
LEMMA StartupLoad == StartupInv /\ P!load => StartupInv'
<1> SUFFICES ASSUME StartupInv, P!load  PROVE StartupInv'
  OBVIOUS
<1>1. UNCHANGED <<words, dataDir, cwd>> /\ pc' # "main"
      /\ variables' \in {variables, P!createVariables} /\ Opened'
  BY DEF P!load, Opened
<1>2. ASSUME P!Absolute(dataDir), ~ P!ConfigGiven, NEW f \in DOMAIN files'
      PROVE  P!Within(files'[f], dataDir)
  <2>1. PICK fileName \in NoncesFiles :
          files' = [n \in {"config", "nonces"} |->
             IF n = "nonces"
               THEN P!Resolve(IF fileName = P!null \/ fileName = <<>>
                                THEN P!location(P!DataLocation, <<"nonces.json">>)
                                ELSE P!Expand(fileName, P!none))
               ELSE files[n]]
    BY DEF P!load
  <2>2. P!Within(P!Resolve(P!Expand(fileName, P!none)), dataDir)
    <3>1. dataDir \in Directories /\ cwd = dataDir /\ dataDir \in Seq(PathSymbols)
      BY <1>2, StartupAssumption DEF StartupInv
    <3>2. P!Expand(fileName, P!none) \in PathsIn(dataDir)
      BY <1>2, Expanding DEF PathsIn
    <3>3. /\ P!Expand(fileName, P!none) \in Seq(PathSymbols)
          /\ P!LeadsTo(P!Expand(fileName, P!none), dataDir)
      BY <3>1, <3>2, StartupAssumption
    <3> QED  BY <1>2, <3>1, <3>3, Resolved
  <2>3. P!Within(P!Resolve(P!location(P!DataLocation, <<"nonces.json">>)), dataDir)
    BY <1>2, OwnFile
  <2>4. f = "config" => f \in DOMAIN files
    BY DEF P!load, StartupInv, Opened
  <2> QED  BY <1>2, <2>1, <2>2, <2>3, <2>4 DEF StartupInv, P!FilesInPlace
<1> QED  BY <1>1, <1>2, StartupKeeps

\* The image and what is written about it.
LEMMA StartupRender == StartupInv /\ P!render => StartupInv'
<1> SUFFICES ASSUME StartupInv, P!render  PROVE StartupInv'
  OBVIOUS
<1>1. UNCHANGED <<words, dataDir, cwd>> /\ pc' # "main"
      /\ variables' \in {variables, P!createVariables} /\ Opened'
  BY DEF P!render, Opened
<1>2. ASSUME P!Absolute(dataDir), ~ P!ConfigGiven, NEW f \in DOMAIN files'
      PROVE  P!Within(files'[f], dataDir)
  <2>1. PICK name \in ImageNames, infoFile \in InfoFiles :
          files' = [n \in {"config", "nonces", "image", "info"} |->
             CASE n = "image" -> P!Resolve(P!Expand(name, Extra))
               [] n = "info"  -> P!Resolve(IF infoFile \in {P!null, <<>>}
                                             THEN P!Expand(name, Extra) \o <<".json">>
                                             ELSE infoFile)
               [] OTHER       -> files[n]]
    BY DEF P!render
  <2>2. dataDir \in Directories /\ cwd = dataDir /\ dataDir \in Seq(PathSymbols)
    BY <1>2, StartupAssumption DEF StartupInv
  <2> DEFINE m_name == P!Expand(name, Extra)
  <2>3. m_name \in PathsIn(dataDir) /\ infoFile \in PathsIn(dataDir)
    BY <1>2, Expanding DEF PathsIn
  <2>4. /\ m_name \in Seq(PathSymbols) /\ P!LeadsTo(m_name, dataDir)
        /\ infoFile \in Seq(PathSymbols) /\ P!LeadsTo(infoFile, dataDir)
    BY <2>2, <2>3, StartupAssumption
  <2> HIDE DEF m_name
  <2>5. P!Within(P!Resolve(m_name), dataDir)
    BY <1>2, <2>2, <2>4, Resolved
  <2>6. P!Within(P!Resolve(m_name \o <<".json">>), dataDir)
    <3>1. /\ m_name \o <<".json">> \in Seq(PathSymbols)
          /\ P!LeadsTo(m_name \o <<".json">>, dataDir)
      BY <2>2, <2>4, Suffixed
    <3> QED  BY <1>2, <2>2, <3>1, Resolved
  <2>7. P!Within(P!Resolve(infoFile), dataDir)
    BY <1>2, <2>2, <2>4, Resolved
  <2>8. CASE f \in {"config", "nonces"}
    <3>1. f \in DOMAIN files
      BY <2>8 DEF P!render, StartupInv, Opened
    <3>2. files'[f] = files[f]
      BY <2>1, <2>8
    <3> QED  BY <1>2, <3>1, <3>2 DEF StartupInv, P!FilesInPlace
  <2>9. CASE f = "image"
    BY <2>1, <2>5, <2>9 DEF m_name
  <2>10. CASE f = "info"
    BY <2>1, <2>6, <2>7, <2>10 DEF m_name
  <2> QED  BY <1>2, <2>1, <2>8, <2>9, <2>10
<1> QED  BY <1>1, <1>2, StartupKeeps

\* Steps that open no file.
LEMMA StartupEntry == StartupInv /\ (P!Entry \/ UNCHANGED P!vars) => StartupInv'
<1> SUFFICES ASSUME StartupInv, P!Entry \/ UNCHANGED P!vars  PROVE StartupInv'
  OBVIOUS
<1>1. CASE P!Entry
  <2>1. /\ UNCHANGED <<words, dataDir, cwd, variables, files>>
        /\ pc' \in {"end", "config"}
    BY <1>1 DEF P!Entry
  <2>2. Opened'
    BY <2>1 DEF Opened
  <2> QED  BY <2>1, <2>2, StartupKeeps DEF StartupInv, P!FilesInPlace
<1>2. CASE UNCHANGED P!vars
  BY <1>2 DEF P!vars, StartupInv, Opened, P!FilesInPlace, P!ConfigGiven, P!value,
              P!createVariables, P!DataLocation
<1> QED  BY <1>1, <1>2

(***************************************************************************)
(* However --data-dir is given, if it is absolute and the names in the     *)
(* settings are plain or lead there by a variable, every file is in it,    *)
(* and a variable has the value it would be given now (Process.cpp,        *)
(* Env.cpp).                                                               *)
(***************************************************************************)
THEOREM DataDirectoryKeptHolds == P!Spec => []DataDirectoryKept
<1>1. P!Init => StartupInv
  BY DEF P!Init, StartupInv, Opened, P!FilesInPlace, P!Absolute, P!none
<1>2. StartupInv /\ [P!Next]_(P!vars) => StartupInv'
  BY StartupProcess, StartupApp, StartupLoad, StartupRender, StartupEntry DEF P!Next
<1>3. StartupInv => DataDirectoryKept
  BY DEF StartupInv, DataDirectoryKept
<1> QED  BY <1>1, <1>2, <1>3, PTL DEF P!Spec

================================================================================
