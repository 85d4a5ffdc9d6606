---------------------------------- MODULE Dns ----------------------------------
(***************************************************************************)
(* From the host of a request to the address it is sent to:                *)
(* src/base/net/dns/Dns.cpp, DnsRecord.cpp and HttpClient::onResolved of   *)
(* src/base/net/http/HttpClient.cpp.  Every exchange has a Dns of its own, *)
(* which resolves once; that the exchange may be gone by then is part of   *)
(* HttpClient.                                                             *)
(***************************************************************************)
EXTENDS Integers, SequencesExt

CONSTANTS
  Answers,   \* lists of addresses [family, ip, scope] a resolver returns
  port       \* of the request

VARIABLES
  resolver,   \* the getaddrinfo request: "none", "pending" or "done"
  m_status,   \* of the last step of the resolver: 0, or negative
  m_ipv4,     \* the records of the answer, by their type
  m_ipv6,
  answer,     \* what the resolver returned
  peer        \* the address given to uv_tcp_connect

vars == <<resolver, m_status, m_ipv4, m_ipv6, answer, peer>>

UV_EAI_NONAME == -3008
UV_EAI_AGAIN  == -3001   \* any error of the resolver
UV_ENOMEM     == -12     \* any error of uv_getaddrinfo itself

Address(family, ip, scope, p) == [family |-> family, ip |-> ip, scope |-> scope, port |-> p]

NotConnected == Address("none", 0, 0, 0)
nullptr      == Address("null", 0, 0, 0)

\* DnsRecord::DnsRecord keeps the name of an address, without its scope.
DnsRecord(a) == [m_type |-> IF a.family = "INET6" THEN "AAAA" ELSE "A", m_ip |-> a.ip]

defaultRecord == [m_type |-> "Unknown", m_ip |-> 0]

\* DnsRecord::addr
addr(record, p) ==
  CASE record.m_type = "A"    -> Address("INET", record.m_ip, 0, p)
    [] record.m_type = "AAAA" -> Address("INET6", record.m_ip, 0, p)
    [] OTHER                  -> nullptr

\* The loop of Dns::onResolved over the answer, for one of its families;
\* the order of the records does not matter to get(), which draws one.
Records(list, family) == {DnsRecord(a) : a \in {b \in ToSet(list) : b.family = family}}

isEmpty(ipv4, ipv6) == ipv4 = {} /\ ipv6 = {}

\* IPv6 is only taken when it is asked for.
get_asked(prefered, ipv4, ipv6) ==
  IF ipv6 # {} /\ prefered = "AAAA" THEN ipv6
  ELSE IF ipv4 # {} THEN ipv4
  ELSE {defaultRecord}

\* Dns::get: any record of the prefered type, of the other if there is none.
get(prefered, ipv4, ipv6) ==
  IF ipv6 # {} /\ (prefered = "AAAA" \/ ipv4 = {}) THEN ipv6
  ELSE IF ipv4 # {} THEN ipv4
  ELSE {defaultRecord}

-----------------------------------------------------------------------------
\* Dns::Dns
Init ==
  /\ resolver = "none"
  /\ m_status = 0
  /\ m_ipv4 = {} /\ m_ipv6 = {}
  /\ answer = <<>>
  /\ peer = NotConnected

\* HttpClient::connect and Dns::resolve; getaddrinfo may fail at once.
resolve ==
  /\ resolver = "none"
  /\ \/ m_status' = 0 /\ resolver' = "pending"
     \/ m_status' = UV_ENOMEM /\ resolver' = "done"
  /\ UNCHANGED <<m_ipv4, m_ipv6, answer, peer>>

\* Dns::onResolved, when the resolver fails: HttpClient::onResolved returns.
onFailed ==
  /\ resolver = "pending"
  /\ m_status' = UV_EAI_AGAIN
  /\ resolver' = "done"
  /\ UNCHANGED <<m_ipv4, m_ipv6, answer, peer>>

\* Dns::onResolved, with an answer, and HttpClient::onResolved, which
\* connects unless no address of the answer can be used.
onResolved ==
  /\ resolver = "pending"
  /\ resolver' = "done"
  /\ \E list \in Answers :
       LET ipv4 == Records(list, "INET")
           ipv6 == Records(list, "INET6")
       IN  /\ answer' = list
           /\ m_ipv4' = ipv4
           /\ m_ipv6' = ipv6
           /\ m_status' = IF isEmpty(ipv4, ipv6) THEN UV_EAI_NONAME ELSE 0
           /\ IF isEmpty(ipv4, ipv6)
                THEN UNCHANGED peer
                ELSE \E record \in get("A", ipv4, ipv6) : peer' = addr(record, port)

Next == resolve \/ onFailed \/ onResolved

Spec == Init /\ [][Next]_vars

-----------------------------------------------------------------------------
(***************************************************************************)
(* The address that is connected to is never null: it is one the resolver  *)
(* returned, an IPv4 one if there is any, at the port of the request.  An  *)
(* answer with a usable address is used, and any other one leaves a        *)
(* negative status and no connection, so that only the timer ends the      *)
(* exchange (with UV_ETIMEDOUT).                                           *)
(***************************************************************************)
AddressUsable ==
  LET Usable == {a \in ToSet(answer) : a.family \in {"INET", "INET6"}}
      IPv4   == {a \in Usable : a.family = "INET"}
  IN  /\ peer # NotConnected =>
           \E a \in Usable :
             /\ peer.family = a.family /\ peer.ip = a.ip /\ peer.port = port
             /\ IPv4 # {} => a \in IPv4
      /\ resolver = "done" => /\ (Usable # {}) <=> (peer # NotConnected)
                              /\ (m_status < 0) <=> (peer = NotConnected)

===============================================================================
