------------------------------- MODULE Network -------------------------------
(***************************************************************************)
(* The block header synchronisation of src/Network.cpp: one object, driven *)
(* by the callbacks of a single-threaded event loop, asks the daemon for   *)
(* its height and then for ranges of block headers, several requests at a  *)
(* time, and assembles the answers, which arrive in any order, into the    *)
(* list of nonces.                                                         *)
(*                                                                         *)
(* An HTTP exchange (module HttpClient) is one element of "wire" from the  *)
(* call of fetch() until its listener has been called or is gone.  Every   *)
(* exchange calls the listener at most once.                               *)
(*                                                                         *)
(* The listener of Network is the application: onSyncDone and onFatalError *)
(* both end in App::close, which destroys the Network object, so that      *)
(* after either call the exchanges still open find their weak_ptr expired  *)
(* and end silently.                                                       *)
(***************************************************************************)
EXTENDS Naturals, Sequences, FiniteSets

CONSTANTS
  Modulus,       \* 2^32: heights, positions and range bounds are uint32_t
  MaxRange,      \* m_daemon.maxRange()
  Concurrency,   \* m_daemon.concurrency()
  PrintTime,     \* m_daemon.printTime(), 0 for no progress timer
  MaxHeight,     \* bound: the greatest height of the daemon's chain
  Nonce,         \* the values of a nonce
  Chain,         \* Chain[h] is the nonce of the daemon's block at height h
  Stored,        \* the lists App may have loaded from the nonces file
  Conforming,    \* TRUE when the daemon returns every header it is asked for,
                 \* under the id of the request
  MaxFail        \* bound: how many exchanges may end in a transport error

\* Daemon's constructor raises concurrency and max_range to at least 1.
ASSUME NetworkAssumption ==
  /\ Modulus \in Nat \ {0}
  /\ MaxRange \in 1..(Modulus - 1)
  /\ Concurrency \in Nat \ {0}
  /\ PrintTime \in Nat
  /\ MaxHeight \in 0..(Modulus - 1)
  /\ Chain \in [0..MaxHeight -> Nonce]
  /\ Stored \subseteq Seq(Nonce)
  /\ Conforming \in BOOLEAN
  /\ MaxFail \in Nat

VARIABLES
  m_nonces,    \* App's list, shared by reference; height h is at h + 1
  m_height,    \* the height to reach
  m_pos,       \* the first height not requested yet
  m_req,       \* outstanding range requests: id -> range
  m_data,      \* headers received so far: height -> nonce
  m_timer,     \* the progress timer exists
  nextId,      \* JsonRequest's static counter
  wire,        \* open HTTP exchanges
  loop,        \* iterations left of the for loop of sync()
  outcome,     \* "running", or the call that ended the Network object
  fails        \* transport errors so far, for the bound MaxFail

net  == <<m_height, m_pos, m_req, m_data, m_timer, nextId, loop>>
vars == <<m_nonces, net, wire, outcome, fails>>

LAST_BLOCK_HEADER   == "LAST_BLOCK_HEADER"
BLOCK_HEADERS_RANGE == "BLOCK_HEADERS_RANGE"

Outcomes == {"upToDate", "fatal", "closed", "terminated"}

UInt32 == 0..(Modulus - 1)

\* The value of a sum of two uint32_t.
Wrap(n) == IF n < Modulus THEN n ELSE n - Modulus

\* m_height + 1, the number of blocks up to a height.
Blocks_offByOne(height) == height
Blocks(height) == Wrap(height + 1)

\* class Range: the end is inclusive, so a range holds up to count + 1 blocks.
Ranges == [start : UInt32, end : UInt32]

NewRange(start, count, max) ==
  LET last == Wrap(start + count)
  IN  [start |-> start, end |-> IF last < max THEN last ELSE max]

\* std::map: insert() keeps the entry that is already there.
Insert(map, new) ==
  [k \in DOMAIN map \cup DOMAIN new |-> IF k \in DOMAIN map THEN map[k] ELSE new[k]]

\* The position after a range.
NextPos_same(range) == range.end
NextPos_skips(range) == Wrap(range.end + 2)
NextPos(range) == Wrap(range.end + 1)

Erase(map, key) == [k \in DOMAIN map \ {key} |-> map[k]]

-----------------------------------------------------------------------------
(***************************************************************************)
(* Sending.  The two overloads of getBlockHeadersRange take the map of     *)
(* outstanding requests and the open exchanges they add to, because their  *)
(* callers have removed an entry before or remove one after the call.      *)
(***************************************************************************)
getBlockHeadersRangeOf(range, req, open) ==
  /\ nextId' = nextId + 1
  /\ m_pos' = NextPos(range)
  /\ m_req' = Insert(req, [id \in {nextId'} |-> range])
  /\ wire' = open \cup {[id |-> nextId', type |-> BLOCK_HEADERS_RANGE, range |-> range]}

getBlockHeadersRange(req, open) ==
  \/ /\ m_pos > m_height
     /\ m_req' = req
     /\ wire' = open
     /\ UNCHANGED <<m_pos, nextId>>
  \/ /\ m_pos <= m_height
     /\ getBlockHeadersRangeOf(NewRange(m_pos, MaxRange, m_height), req, open)

\* The listener is told the outcome and destroys the Network object.
Finish(call, open) ==
  /\ outcome' = call
  /\ wire' = open

-----------------------------------------------------------------------------
Init ==
  /\ m_nonces \in Stored
  /\ m_height = 0
  /\ m_pos = 0
  /\ m_req = [id \in {} |-> 0]
  /\ m_data = [h \in {} |-> 0]
  /\ m_timer = FALSE
  /\ nextId = 0
  /\ wire = {}
  /\ loop = 0
  /\ outcome = "running"
  /\ fails = 0

connect ==
  /\ nextId = 0
  /\ nextId' = 1
  /\ wire' = {[id |-> 1, type |-> LAST_BLOCK_HEADER, range |-> [start |-> 0, end |-> 0]]}
  /\ UNCHANGED <<m_nonces, m_height, m_pos, m_req, m_data, m_timer, loop, outcome, fails>>

sync_fromZero ==
  /\ m_timer' = (PrintTime # 0)
  /\ m_pos' = 0
  /\ loop' = Concurrency

\* sync() up to its loop, whose iterations are the steps of syncLoop.
sync ==
  /\ m_timer' = (PrintTime # 0)
  /\ m_pos' = Wrap(Len(m_nonces))
  /\ loop' = Concurrency

\* One iteration of the loop of sync(); no callback runs in between.
syncLoop ==
  /\ outcome = "running"
  /\ loop > 0
  /\ loop' = loop - 1
  /\ getBlockHeadersRange(m_req, wire)
  /\ UNCHANGED <<m_nonces, m_height, m_data, m_timer, outcome, fails>>

setLastBlockHeader(x, height) ==
  /\ m_height' = height
  /\ \/ /\ height = 0 \/ Len(m_nonces) > Blocks(height)
        /\ Finish("fatal", wire \ {x})
        /\ UNCHANGED <<m_pos, m_timer, loop>>
     \/ /\ height # 0 /\ Len(m_nonces) < Blocks(height)
        /\ sync
        /\ wire' = wire \ {x}
        /\ UNCHANGED outcome
     \/ /\ height # 0 /\ Len(m_nonces) = Blocks(height)
        /\ Finish("upToDate", wire \ {x})
        /\ UNCHANGED <<m_pos, m_timer, loop>>
  /\ UNCHANGED <<m_nonces, m_req, m_data, nextId, fails>>

\* m_data.at(i) throws for a height that never arrived, and nothing catches
\* it: the process terminates.
save(data) ==
  /\ m_timer' = FALSE
  /\ \/ /\ Len(m_nonces)..m_height \subseteq DOMAIN data
        /\ m_nonces' = [i \in 1..(m_height + 1) |->
                          IF i <= Len(m_nonces) THEN m_nonces[i] ELSE data[i - 1]]
        /\ m_data' = [h \in {} |-> 0]
        /\ outcome' = "synced"
     \/ /\ ~ (Len(m_nonces)..m_height \subseteq DOMAIN data)
        /\ m_data' = data
        /\ outcome' = "terminated"
        /\ UNCHANGED m_nonces

\* Nothing is outstanding and nothing is left to request.
Complete_early(req) == m_pos > m_height
Complete_never(req) == DOMAIN req = {} /\ m_pos > m_height + 1
Complete(req) == DOMAIN req = {} /\ m_pos > m_height

\* Room for another request, once one has been answered.
Room(req) == Cardinality(DOMAIN req) < Concurrency

setBlockHeadersRange(x, id, headers) ==
  LET data == Insert(m_data, headers)
      req  == Erase(m_req, id)
      open == wire \ {x}
  IN
  \/ /\ DOMAIN headers = {} \/ id \notin DOMAIN m_req
     /\ Finish("fatal", open)
     /\ UNCHANGED <<m_nonces, net, fails>>
  \/ /\ DOMAIN headers # {} /\ id \in DOMAIN m_req
     /\ \/ /\ Complete(req)
           /\ save(data)
           /\ m_req' = req
           /\ wire' = open
           /\ UNCHANGED <<m_height, m_pos, nextId, loop, fails>>
        \/ /\ ~ Complete(req)
           /\ m_data' = data
           /\ IF Room(req)
                THEN getBlockHeadersRange(req, open)
                ELSE m_req' = req /\ wire' = open /\ UNCHANGED <<m_pos, nextId>>
           /\ UNCHANGED <<m_nonces, m_height, m_timer, loop, outcome, fails>>

-----------------------------------------------------------------------------
(***************************************************************************)
(* onHttpData.  A callback runs when no other does, hence loop = 0.        *)
(***************************************************************************)
Callback(x) ==
  /\ outcome = "running"
  /\ loop = 0
  /\ x \in wire

\* m_req.erase(it) after the new request went out.
Retried_keeps(x) == m_req
Retried(x) == Erase(m_req, x.id)

\* What an exchange that ends with a negative status is sent again for.
Retriable(x) == x.type = BLOCK_HEADERS_RANGE /\ x.id \in DOMAIN m_req

\* A range request ended with a negative status: it is sent again at once,
\* under a new id, and m_pos goes back to the end of that range.
onTransportError(x) ==
  /\ Callback(x)
  /\ Retriable(x)
  /\ fails < MaxFail
  /\ fails' = fails + 1
  /\ getBlockHeadersRangeOf(m_req[x.id], Retried(x), wire \ {x})
  /\ UNCHANGED <<m_nonces, m_height, m_data, m_timer, loop, outcome>>

(***************************************************************************)
(* In every other case the body decides, whatever the status is: another   *)
(* code than 200 is only logged, and so is a negative one of the first     *)
(* request or of a range that is not in m_req.  A body that is complete    *)
(* when the connection ends (UV_EOF) is used like that of a response.      *)
(***************************************************************************)

\* No JSON, a parse error, an RPC error or no result.
onUnusableReply(x) ==
  /\ Callback(x)
  /\ Finish("fatal", wire \ {x})
  /\ UNCHANGED <<m_nonces, net, fails>>

onLastBlockHeader(x) ==
  /\ Callback(x)
  /\ x.type = LAST_BLOCK_HEADER
  /\ \E height \in 0..MaxHeight : setLastBlockHeader(x, height)

\* The headers a daemon may return for a range, and the id it may put in the
\* reply: onHttpData passes on the id of the body, 0 if there is none.
Replies(range) ==
  LET all == range.start..range.end
  IN  IF Conforming THEN {all} ELSE SUBSET all

ReplyIds(x) == IF Conforming THEN {x.id} ELSE DOMAIN m_req \cup {0}

onBlockHeadersRange(x) ==
  /\ Callback(x)
  /\ x.type = BLOCK_HEADERS_RANGE
  /\ \E heights \in Replies(x.range), id \in ReplyIds(x) :
       setBlockHeadersRange(x, id, [h \in heights |-> Chain[h]])

\* A signal or Ctrl+C: App::close destroys the Network object.
close ==
  /\ outcome = "running"
  /\ loop = 0
  /\ nextId > 0
  /\ Finish("closed", wire)
  /\ UNCHANGED <<m_nonces, net, fails>>

\* An exchange that outlives the Network object ends without a callback.
expired(x) ==
  /\ outcome \notin {"running", "terminated"}
  /\ x \in wire
  /\ wire' = wire \ {x}
  /\ UNCHANGED <<m_nonces, net, outcome, fails>>

Answer ==
  \E x \in wire :
    \/ onTransportError(x)
    \/ onUnusableReply(x)
    \/ onLastBlockHeader(x)
    \/ onBlockHeadersRange(x)

Next ==
  \/ connect
  \/ syncLoop
  \/ Answer
  \/ close
  \/ \E x \in wire : expired(x)

Spec == Init /\ [][Next]_vars

(***************************************************************************)
(* libuv runs the loop of sync() to its end and calls every callback that  *)
(* is due; the timer of an HTTP client ends an exchange that stays silent. *)
(* The code resends a failed range without end: that failures stop is the  *)
(* bound MaxFail, an assumption on the daemon.                             *)
(***************************************************************************)
Fairness ==
  /\ WF_vars(connect)
  /\ WF_vars(syncLoop)
  /\ WF_vars(Answer)
  /\ WF_vars(\E x \in wire : expired(x))

FairSpec == Spec /\ Fairness

-----------------------------------------------------------------------------
Exchanges == [id : Nat, type : {LAST_BLOCK_HEADER, BLOCK_HEADERS_RANGE}, range : Ranges]

(***************************************************************************)
(* Type correctness.                                                       *)
(***************************************************************************)
TypeOK ==
  /\ m_nonces \in Seq(Nonce)
  /\ m_height \in 0..MaxHeight
  /\ m_pos \in UInt32
  /\ DOMAIN m_req \subseteq 1..nextId
  /\ m_req \in [DOMAIN m_req -> Ranges]
  /\ DOMAIN m_data \subseteq 0..MaxHeight
  /\ m_data \in [DOMAIN m_data -> Nonce]
  /\ m_timer \in BOOLEAN
  /\ nextId \in Nat
  /\ wire \in SUBSET Exchanges
  /\ loop \in 0..Concurrency
  /\ outcome \in {"running", "synced"} \cup Outcomes
  /\ fails \in 0..MaxFail

(***************************************************************************)
(* m_req and the open exchanges agree: a response or an error of a range   *)
(* exchange always finds its request, and no request waits for an exchange *)
(* that is gone.  An answer whose lookup fails ends the synchronisation    *)
(* (line 108), a failed exchange without its request is not retried (line  *)
(* 77), and a forgotten request keeps m_req.empty() false for ever.        *)
(***************************************************************************)
TrackedExchanges ==
  outcome = "running" /\ Conforming =>
    /\ \A x \in wire : x.type = BLOCK_HEADERS_RANGE =>
         x.id \in DOMAIN m_req /\ m_req[x.id] = x.range
    /\ \A id \in DOMAIN m_req :
         [id |-> id, type |-> BLOCK_HEADERS_RANGE, range |-> m_req[id]] \in wire

(***************************************************************************)
(* The setting "concurrency" is respected: at no time are more range       *)
(* requests outstanding than it says, in spite of a retry that sends the   *)
(* new request before it forgets the old one.                              *)
(***************************************************************************)
ConcurrencyBound == Cardinality(DOMAIN m_req) + loop <= Concurrency

Covered(h) ==
  \/ h \in DOMAIN m_data
  \/ \E id \in DOMAIN m_req : h \in m_req[id].start..m_req[id].end

\* Heights that were requested: below m_pos, or up to the end of a range.
Requested(h) == h < m_pos \/ \E id \in DOMAIN m_req : h <= m_req[id].end

(***************************************************************************)
(* No height is lost: a height that was ever requested has its header in   *)
(* m_data or belongs to a range still outstanding, although a retry moves  *)
(* m_pos back, or forward over heights requested long ago.  This is why    *)
(* "nothing outstanding and m_pos > m_height" means that all is there.     *)
(***************************************************************************)
Coverage ==
  outcome = "running" /\ Conforming =>
    \A h \in Len(m_nonces)..m_height : Requested(h) => Covered(h)

(***************************************************************************)
(* m_data.at() in save() never throws when the daemon returns what it is   *)
(* asked for.                                                              *)
(***************************************************************************)
NoMissingHeader == Conforming => outcome # "terminated"

(***************************************************************************)
(* No range wraps.  Beyond, Range (Network.h:46) ends before it starts, an *)
(* empty request that goes out all the same and takes m_pos back to the    *)
(* beginning: heights are then requested a second time, also those that    *)
(* the list has.  A max_range near 2^32 is enough.                         *)
(***************************************************************************)
RangesFit == m_height + MaxRange < Modulus

(***************************************************************************)
(* The heights requested are those the list lacks, and no height is        *)
(* requested a second time unless an exchange failed.                      *)
(***************************************************************************)
NoDuplicateWork ==
  Conforming /\ RangesFit /\ outcome = "running" /\ fails = 0 =>
    \A i, j \in DOMAIN m_req :
      LET heights == m_req[i].start..m_req[i].end
      IN  /\ heights \subseteq (Len(m_nonces)..m_height) \ DOMAIN m_data
          /\ i # j => heights \cap (m_req[j].start..m_req[j].end) = {}

(***************************************************************************)
(* printSync() prints total - synced, an unsigned difference, from the     *)
(* timer: it never goes below zero while the timer runs, in spite of       *)
(* retries that receive heights again, and whatever the daemon leaves out. *)
(***************************************************************************)
RemainingNotNegative ==
  RangesFit /\ m_timer /\ outcome = "running" =>
    Len(m_nonces) + Cardinality(DOMAIN m_data) <= m_height + 1

(***************************************************************************)
(* When the application is told that the list is complete no exchange is   *)
(* open: nothing of the synchronisation outlives its success.              *)
(***************************************************************************)
SuccessIsQuiet == Conforming /\ outcome \in {"synced", "upToDate"} => wire = {}

(***************************************************************************)
(* Success means that the list reaches the daemon's height.  The one       *)
(* exception is the greatest uint32_t, where m_height + 1 wraps to 0 and   *)
(* an empty list counts as up to date.                                     *)
(***************************************************************************)
ReportsComplete ==
  outcome \in {"synced", "upToDate"} =>
    \/ Len(m_nonces) = m_height + 1
    \/ outcome = "upToDate" /\ m_height = Modulus - 1 /\ m_nonces = <<>>

(***************************************************************************)
(* What makes the above inductive.  Ids and heights stay in their bounds;  *)
(* the first exchange is alone, before anything has been requested, and    *)
(* once it is answered the list lacks a block; m_data holds the chain's    *)
(* own nonces.                                                             *)
(***************************************************************************)
Asking == nextId = 0 \/ \E x \in wire : x.type = LAST_BLOCK_HEADER

Bounded ==
  /\ \A id \in DOMAIN m_req : m_req[id].end <= MaxHeight
  /\ \A x \in wire : x.id \in 1..nextId /\ x.range.end <= MaxHeight

Phases ==
  /\ nextId = 0 => outcome = "running"
  /\ \A x \in wire : x.type = LAST_BLOCK_HEADER => wire = {x}
  /\ Asking => DOMAIN m_req = {} /\ DOMAIN m_data = {} /\ m_pos = 0 /\ loop = 0
  /\ outcome = "running" /\ ~ Asking => Len(m_nonces) <= m_height

FromChain == \A h \in DOMAIN m_data : m_data[h] = Chain[h]

IInv ==
  /\ TypeOK /\ Bounded /\ Phases /\ FromChain
  /\ TrackedExchanges /\ ConcurrencyBound /\ Coverage
  /\ NoMissingHeader /\ SuccessIsQuiet /\ ReportsComplete

(***************************************************************************)
(* What the two properties about the work rest on besides.  Every range is *)
(* one of heights the list lacks, and a header is received for those only. *)
(* The timer starts when the daemon's height is known.                     *)
(***************************************************************************)
Lacking(range) ==
  Len(m_nonces) <= range.start /\ range.start <= range.end /\ range.end <= m_height

Within ==
  RangesFit /\ outcome = "running" /\ ~ Asking =>
    /\ Len(m_nonces) <= m_pos
    /\ \A id \in DOMAIN m_req : Lacking(m_req[id])
    /\ \A x \in wire : Lacking(x.range)
    /\ DOMAIN m_data \subseteq Len(m_nonces)..m_height

(***************************************************************************)
(* As long as nothing has failed, m_pos has passed all that was requested, *)
(* and what was requested is outstanding once or received.                 *)
(***************************************************************************)
Fresh ==
  Conforming /\ RangesFit /\ outcome = "running" /\ ~ Asking /\ fails = 0 =>
    /\ \A h \in DOMAIN m_data : h < m_pos
    /\ \A id \in DOMAIN m_req : m_req[id].end < m_pos
    /\ \A id \in DOMAIN m_req : m_req[id].start..m_req[id].end \cap DOMAIN m_data = {}
    /\ \A i, j \in DOMAIN m_req :
         i # j => m_req[i].end < m_req[j].start \/ m_req[j].end < m_req[i].start

Unarmed == outcome = "running" /\ Asking => ~ m_timer

WorkInv == Within /\ Fresh /\ Unarmed

(***************************************************************************)
(* Every synchronisation ends, and with it every exchange it opened.       *)
(***************************************************************************)
Ends == <>(outcome = "terminated" \/ (outcome # "running" /\ wire = {}))

(***************************************************************************)
(* The synchronisation implements its abstract specification: the list is  *)
(* extended once and completely or left alone, whatever the order of the   *)
(* answers, the failures and the headers the daemon leaves out.            *)
(***************************************************************************)
Sync == INSTANCE NonceSync WITH nonces <- m_nonces, result <- outcome

Implements == Sync!Spec

=============================================================================
