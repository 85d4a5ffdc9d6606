--------------------------- MODULE NetworkClients ---------------------------
(***************************************************************************)
(* The synchronisation with the HTTP clients it opens: Network::rpcSend    *)
(* starts one for each request (src/Network.cpp), and each of them behaves *)
(* as module Exchange promises.  They share the event loop and the         *)
(* listener, m_httpListener, which the Network object owns and the clients *)
(* hold by weak pointers; otherwise each goes its own way, and a client    *)
(* may outlive its answer and the Network object.                          *)
(***************************************************************************)
EXTENDS Naturals, Sequences

CONSTANTS
  Modulus, MaxRange, Concurrency, PrintTime, MaxHeight, Nonce, Chain, Stored,
  Conforming, MaxFail,       \* of Network
  MaxRequests                \* bound: how many requests are sent

\* As Network's, and the bound.
ASSUME NetworkClientsAssumption ==
  /\ Modulus \in Nat \ {0} /\ MaxRange \in 1..(Modulus - 1)
  /\ Concurrency \in Nat \ {0} /\ PrintTime \in Nat
  /\ MaxHeight \in 0..(Modulus - 1)
  /\ Chain \in [0..MaxHeight -> Nonce] /\ Stored \subseteq Seq(Nonce)
  /\ Conforming \in BOOLEAN /\ MaxFail \in Nat /\ MaxRequests \in Nat

VARIABLES
  m_nonces, m_height, m_pos, m_req, m_data, m_timer, nextId, loop, outcome, fails,
  request,     \* the requests that were sent: the client of request[i] has id i
  listening,   \* of Exchange, for each client, opened or not
  told,
  over

net     == <<m_nonces, m_height, m_pos, m_req, m_data, m_timer, nextId, loop, outcome, fails>>
clients == <<listening, told, over>>
vars    == <<net, request, clients>>

Ids == 1..MaxRequests

\* What a client tells the listener: HttpData::status, negative or not.
Status == {"response", "error"}

\* The exchanges that Network waits for.
Unanswered(i) == told[i] = <<>> /\ ~ over[i]

Wire == {request[i] : i \in {j \in DOMAIN request : Unanswered(j)}}

Net == INSTANCE Network WITH wire <- Wire

Client(i) == INSTANCE Exchange WITH
  listening <- listening[i], told <- told[i], over <- over[i]

-----------------------------------------------------------------------------
Init ==
  /\ request = <<>>
  /\ listening = [i \in Ids |-> TRUE]
  /\ told = [i \in Ids |-> <<>>]
  /\ over = [i \in Ids |-> FALSE]
  /\ Net!Init

\* rpcSend: a request of a type for a range, under the next id.
rpcSend(type, range) ==
  /\ nextId' = nextId + 1
  /\ nextId' \in Ids
  /\ request' = Append(request, [id |-> nextId', type |-> type, range |-> range])

\* A range is requested for the first time or again, or no range is.
getBlockHeadersRange ==
  \/ rpcSend("BLOCK_HEADERS_RANGE", Net!NewRange(m_pos, MaxRange, m_height))
  \/ \E id \in DOMAIN m_req : rpcSend("BLOCK_HEADERS_RANGE", m_req[id])
  \/ UNCHANGED <<nextId, request>>

\* With the Network object its HttpListener is gone, and with that every
\* weak pointer to it.
Expired_never(still) == listening' = still

Expired(still) == listening' = [i \in Ids |-> still[i] /\ outcome' = "running"]

connect ==
  /\ rpcSend("LAST_BLOCK_HEADER", [start |-> 0, end |-> 0])
  /\ UNCHANGED clients
  /\ Net!connect

syncLoop ==
  /\ getBlockHeadersRange
  /\ UNCHANGED clients
  /\ Net!syncLoop

\* Network::onHttpData for the client i, which forgets the listener after a
\* response (on_message_complete) and is closed on an error.  An error is
\* retried where it can be; otherwise the body that has arrived is read, and
\* may be all of the answer, with either status.
onHttpData(i, status) ==
  /\ i \in DOMAIN request
  /\ listening[i] /\ Unanswered(i)
  /\ told' = [told EXCEPT ![i] = <<status>>]
  /\ UNCHANGED over
  /\ getBlockHeadersRange
  /\ \/ status = "error" /\ Net!onTransportError(request[i])
     \/ /\ status = "error" => ~ Net!Retriable(request[i])
        /\ \/ Net!onUnusableReply(request[i])
           \/ Net!onLastBlockHeader(request[i])
           \/ Net!onBlockHeadersRange(request[i])
  /\ Expired([listening EXCEPT ![i] = (status = "error")])

\* App::close on a signal.
close ==
  /\ UNCHANGED <<request, told, over>>
  /\ Net!close
  /\ Expired(listening)

\* A client is deleted: one that has told its outcome, or has nobody to tell.
onClosed_early(i) ==
  /\ i \in DOMAIN request
  /\ ~ over[i]
  /\ over' = [over EXCEPT ![i] = TRUE]
  /\ UNCHANGED <<net, request, listening, told>>

onClosed(i) ==
  /\ outcome # "terminated"
  /\ i \in DOMAIN request
  /\ ~ over[i] /\ (told[i] # <<>> \/ ~ listening[i])
  /\ over' = [over EXCEPT ![i] = TRUE]
  /\ UNCHANGED <<net, request, listening, told>>

ClientStep(i) == onClosed(i) \/ \E status \in Status : onHttpData(i, status)

Next ==
  \/ connect
  \/ syncLoop
  \/ close
  \/ \E i \in Ids : ClientStep(i)

Spec == Init /\ [][Next]_vars

(***************************************************************************)
(* The loop goes on, and a client with a timeout comes to its end, which   *)
(* is what module HttpClient is checked for (EndsInTime).                  *)
(***************************************************************************)
Fairness ==
  /\ WF_vars(connect)
  /\ WF_vars(syncLoop)
  /\ \A i \in Ids : WF_vars(ClientStep(i))

FairSpec == Spec /\ Fairness

-----------------------------------------------------------------------------
(***************************************************************************)
(* Type correctness: the client of a request is known by its number.       *)
(***************************************************************************)
RequestsOK ==
  /\ nextId \in Nat /\ nextId <= MaxRequests
  /\ request \in Seq(Net!Exchanges) /\ Len(request) = nextId
  /\ \A i \in DOMAIN request : request[i].id = i

TypesOK ==
  /\ listening \in [Ids -> BOOLEAN]
  /\ told \in [Ids -> Seq(Status)]
  /\ over \in [Ids -> BOOLEAN]

(***************************************************************************)
(* The clients and the object they report to.  Whoever may still call the  *)
(* listener finds a Network object that waits for the call (Network.cpp,   *)
(* onHttpData), and as long as that object lives no client ends without    *)
(* its call.                                                               *)
(***************************************************************************)
Live(i) ==
  /\ listening[i] => outcome = "running"
  /\ outcome = "running" /\ told[i] = <<>> => listening[i] /\ ~ over[i]

\* A client that is not open yet, as it will begin.
Unopened(i) == told[i] = <<>> /\ ~ over[i] /\ listening[i] = (outcome = "running")

ListenersLive ==
  /\ \A i \in Ids : Live(i)
  /\ \A i \in Ids \ DOMAIN request : Unopened(i)

(***************************************************************************)
(* The inductive invariant: the above, and that of Network with the        *)
(* exchanges that are under way.                                           *)
(***************************************************************************)
IInv == RequestsOK /\ TypesOK /\ ListenersLive /\ Net!IInv

(***************************************************************************)
(* Success is not announced over a request that is still on its way: every *)
(* client has told its outcome, and told it to a living Network object.    *)
(***************************************************************************)
AnsweredBySuccess ==
  Conforming /\ outcome \in {"synced", "upToDate"} => \A i \in DOMAIN request : told[i] # <<>>

(***************************************************************************)
(* Together the parts keep what each of them promises alone: Network       *)
(* behaves as it does with the exchanges it is modelled with, and so it    *)
(* synchronises the list (module NonceSync), and every client behaves as   *)
(* an exchange.                                                            *)
(***************************************************************************)
Exchanges ==
  /\ \A i \in Ids : Client(i)!Init
  /\ [][\A i \in Ids : [Client(i)!Next]_(Client(i)!vars)]_clients

Implements == Net!Spec /\ Net!Implements /\ Exchanges

(***************************************************************************)
(* The synchronisation ends, and every client it opened is deleted, in     *)
(* whatever order they end.                                                *)
(***************************************************************************)
Ends ==
  <>(\/ outcome = "terminated"
     \/ outcome # "running" /\ \A i \in DOMAIN request : over[i])

=============================================================================
