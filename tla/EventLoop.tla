------------------------------ MODULE EventLoop ------------------------------
(***************************************************************************)
(* What keeps the program running and what it leaves behind: the handles   *)
(* of the event loop from App::exec to App::~App.  src/App.cpp with        *)
(* Signals, Console, Timer and Handle, and the exchanges (HttpClient) that *)
(* read into the chunks of NetBuffer's pool.                               *)
(*                                                                         *)
(* libuv's own part is modelled from its use: a closed handle gets its     *)
(* close callback later; uv_run returns when nothing is active and nothing *)
(* closes.  A read gets its buffer ahead of its data, as on Windows; on    *)
(* Unix the two come together.                                             *)
(***************************************************************************)
EXTENDS MemPool

CONSTANTS
  Exchanges,    \* bound: the exchanges the network may start
  Signals,      \* the signals the program handles
  Ignored       \* SIGUSR1, if the system has it: handled by doing nothing

ASSUME EventLoopAssumption == Ignored \subseteq Signals /\ Ignored # Signals

VARIABLES
  app,        \* see Stages
  once,       \* uv_run was called with UV_RUN_ONCE: the offline branch
  signals,    \* the uv_signal_t of each signal: see Handles
  m_tty,      \* the console's handle
  progress,   \* the timer of Network's progress line
  tcp,        \* the handle of each exchange, and with it the HttpClient
  timer,      \* its timeout
  request,    \* what it has asked of libuv: see Requests
  buffer      \* the chunk it was given to read into, <<>> for none

exchange == <<tcp, timer, request, buffer>>
own      == <<signals, m_tty, progress>>
vars     == <<app, once, own, exchange, pool>>

\* Network, Signals and Console exist while the App is "running".
Stages   == {"main", "running", "closed", "left", "destroyed"}
\* "leaking": closed without a callback that deletes it.
Handles  == {"none", "inactive", "active", "closing", "leaking", "leaked", "deleted"}
Requests == {"none", "resolving", "connecting", "reading"}

Unused == {e \in Exchanges : tcp[e] = "none"}

\* Handle::close: nothing for a null pointer or a handle that is closing.
Close(h) == IF h \in {"inactive", "active"} THEN "closing" ELSE h

CloseAll(f) == [x \in DOMAIN f |-> Close(f[x])]

-----------------------------------------------------------------------------
Init ==
  /\ app = "main" /\ once = FALSE
  /\ signals = [s \in Signals |-> "none"]
  /\ m_tty = "none" /\ progress = "none"
  /\ tcp = [e \in Exchanges |-> "none"]
  /\ timer = [e \in Exchanges |-> "none"]
  /\ request = [e \in Exchanges |-> "none"]
  /\ buffer = [e \in Exchanges |-> <<>>]
  /\ PoolInit

\* fetch() for a set of exchanges; T and M are the handles before.
fetch(F, T, M, R) ==
  /\ tcp' = [e \in Exchanges |-> IF e \in F THEN "inactive" ELSE T[e]]
  /\ timer' = [e \in Exchanges |-> IF e \in F THEN "active" ELSE M[e]]
  /\ \E refused \in SUBSET F :
       request' = [e \in Exchanges |-> IF e \in refused THEN "none"
                                       ELSE IF e \in F THEN "resolving" ELSE R[e]]

exec_deaf ==
  /\ app = "main"
  /\ app' = "running"
  /\ signals' = [s \in Signals |-> "inactive"]
  /\ m_tty' \in {"none", "inactive", "active"}
  /\ \E e \in Exchanges : fetch({e}, tcp, timer, request)
  /\ UNCHANGED <<once, progress, buffer, pool>>

\* exec() up to uv_run: Signals; Console with no handle, one that cannot be
\* read, or one that is read; and the branch on isOffline().
exec ==
  /\ app = "main"
  /\ app' = "running"
  /\ signals' = [s \in Signals |-> "active"]
  /\ m_tty' \in {"none", "inactive", "active"}
  /\ \E e \in Exchanges : fetch({e}, tcp, timer, request)
  /\ UNCHANGED <<once, progress, buffer, pool>>

execOffline ==
  /\ app = "main"
  /\ app' = "closed"
  /\ once' = TRUE
  /\ signals' = [s \in Signals |-> Close("active")]
  /\ \E h \in {"none", "inactive", "active"} : m_tty' = Close(h)
  /\ UNCHANGED <<progress, exchange, pool>>

\* App::close destroys Network with its timer, Signals and Console.
close_forgetsTimer ==
  /\ app' = "closed"
  /\ signals' = CloseAll(signals)
  /\ m_tty' = Close(m_tty)
  /\ UNCHANGED progress

close ==
  /\ app' = "closed"
  /\ signals' = CloseAll(signals)
  /\ m_tty' = Close(m_tty)
  /\ progress' = Close(progress)

\* Network's answer to a call of its listener: none, which is all there is
\* once Network is gone; further requests, the first of them with the timer
\* of the progress line; or the end.
onHttpData(T, M, R) ==
  \/ tcp' = T /\ timer' = M /\ request' = R /\ UNCHANGED <<app, own>>
  \/ /\ app = "running"
     /\ \E F \in (SUBSET Unused) \ {{}} : fetch(F, T, M, R)
     /\ progress' \in {progress, IF progress = "none" THEN "active" ELSE progress}
     /\ UNCHANGED <<app, signals, m_tty>>
  \/ app = "running" /\ close /\ tcp' = T /\ timer' = M /\ request' = R

\* HttpContext::close, which tells the listener.
Ended(e) == [tcp EXCEPT ![e] = Close(@)]

onSignal ==
  /\ \E s \in Signals \ Ignored : signals[s] = "active"
  /\ close
  /\ UNCHANGED <<once, exchange, pool>>

\* Console::onRead: Ctrl+C, or the end of the input.
onConsoleCommand ==
  /\ m_tty = "active"
  /\ close
  /\ UNCHANGED <<once, exchange, pool>>

onConsoleEnd_deletes ==
  /\ m_tty = "active"
  /\ m_tty' = "closing"
  /\ UNCHANGED <<app, once, signals, progress, exchange, pool>>

onConsoleEnd ==
  /\ m_tty = "active"
  /\ m_tty' = "leaking"
  /\ UNCHANGED <<app, once, signals, progress, exchange, pool>>

-----------------------------------------------------------------------------
\* The resolver, also of an exchange that is closing or gone: then, and when
\* there is no address or uv_tcp_connect refuses it, nothing follows.
onResolved(e) ==
  /\ request[e] = "resolving"
  /\ \/ tcp[e] = "inactive" /\ tcp' = [tcp EXCEPT ![e] = "active"]
                            /\ request' = [request EXCEPT ![e] = "connecting"]
     \/ request' = [request EXCEPT ![e] = "none"] /\ UNCHANGED tcp
  /\ UNCHANGED <<app, once, own, timer, buffer, pool>>

onConnect(e) ==
  /\ request[e] = "connecting"
  /\ \/ /\ tcp[e] = "active"
        /\ request' = [request EXCEPT ![e] = "reading"]
        /\ UNCHANGED <<app, own, tcp, timer>>
     \/ /\ tcp[e] = "active"
        /\ onHttpData(Ended(e), timer, [request EXCEPT ![e] = "none"])
     \/ /\ tcp[e] = "closing"
        /\ request' = [request EXCEPT ![e] = "none"]
        /\ UNCHANGED <<app, own, tcp, timer>>
  /\ UNCHANGED <<once, buffer, pool>>

onAlloc(e) ==
  /\ request[e] = "reading" /\ tcp[e] = "active" /\ buffer[e] = <<>>
  /\ allocate
  /\ buffer' = [buffer EXCEPT ![e] = Handed]
  /\ UNCHANGED <<app, once, own, tcp, timer, request>>

\* The read callback hands the data on or closes; the chunk is released last.
onRead_keeps(e) ==
  /\ request[e] = "reading" /\ buffer[e] # <<>>
  /\ \/ /\ tcp[e] = "active"
        /\ onHttpData(tcp, timer, request)
        /\ deallocate(buffer[e])
     \/ /\ tcp[e] = "active"
        /\ onHttpData(Ended(e), timer, request)
        /\ UNCHANGED pool
     \/ /\ tcp[e] = "closing"
        /\ deallocate(buffer[e])
        /\ UNCHANGED <<app, own, tcp, timer, request>>
  /\ buffer' = [buffer EXCEPT ![e] = <<>>]
  /\ UNCHANGED once

onRead(e) ==
  /\ request[e] = "reading" /\ buffer[e] # <<>>
  /\ \/ tcp[e] = "active" /\ onHttpData(tcp, timer, request)
     \/ tcp[e] = "active" /\ onHttpData(Ended(e), timer, request)
     \/ tcp[e] = "closing" /\ UNCHANGED <<app, own, tcp, timer, request>>
  /\ deallocate(buffer[e])
  /\ buffer' = [buffer EXCEPT ![e] = <<>>]
  /\ UNCHANGED once

onTimer(e) ==
  /\ timer[e] = "active"
  /\ onHttpData(Ended(e), [timer EXCEPT ![e] = "inactive"], request)
  /\ UNCHANGED <<once, buffer, pool>>

\* The close callback deletes the HttpClient, whose destructor closes the
\* timer.  libuv calls it when nothing is pending on the handle.
onClosed(e) ==
  /\ tcp[e] = "closing" /\ buffer[e] = <<>> /\ request[e] # "connecting"
  /\ tcp' = [tcp EXCEPT ![e] = "deleted"]
  /\ timer' = [timer EXCEPT ![e] = Close(@)]
  /\ request' = [request EXCEPT ![e] = IF @ = "reading" THEN "none" ELSE @]
  /\ UNCHANGED <<app, once, own, buffer, pool>>

\* The other close callbacks, of the timer of an exchange ...
onTimerClosed(e) ==
  /\ timer[e] = "closing"
  /\ timer' = [timer EXCEPT ![e] = "deleted"]
  /\ UNCHANGED <<app, once, own, tcp, request, buffer, pool>>

\* ... and of App's own handles.
AfterClosing(h) == CASE h = "closing" -> "deleted"
                     [] h = "leaking" -> "leaked"
                     [] OTHER -> h

onHandleClosed ==
  /\ app \in {"running", "closed"} /\ ~ once
  /\ \/ \E s \in Signals : /\ signals[s] = "closing"
                           /\ signals' = [signals EXCEPT ![s] = "deleted"]
                           /\ UNCHANGED <<m_tty, progress>>
     \/ /\ m_tty \in {"closing", "leaking"}
        /\ m_tty' = AfterClosing(m_tty)
        /\ UNCHANGED <<signals, progress>>
     \/ /\ progress = "closing"
        /\ progress' = "deleted"
        /\ UNCHANGED <<signals, m_tty>>
  /\ UNCHANGED <<app, once, exchange, pool>>

-----------------------------------------------------------------------------
Pending(h) == h \in {"active", "closing", "leaking"}

Alive ==
  \/ \E s \in Signals : Pending(signals[s])
  \/ Pending(m_tty) \/ Pending(progress)
  \/ \E e \in Exchanges : Pending(tcp[e]) \/ Pending(timer[e]) \/ request[e] # "none"

\* UV_RUN_DEFAULT returns when nothing is left to wait for, ...
uv_run ==
  /\ app \in {"running", "closed"} /\ ~ once
  /\ ~ Alive
  /\ app' = "left"
  /\ UNCHANGED <<once, own, exchange, pool>>

\* ... UV_RUN_ONCE after one iteration, which closes everything closing.
uv_run_once ==
  /\ app = "closed" /\ once
  /\ app' = "left"
  /\ signals' = [s \in Signals |-> AfterClosing(signals[s])]
  /\ m_tty' = AfterClosing(m_tty)
  /\ UNCHANGED <<once, progress, exchange, pool>>

\* App::~App
destroyApp ==
  /\ app = "left"
  /\ app' = "destroyed"
  /\ destroy
  /\ UNCHANGED <<once, own, exchange>>

Callback(e) ==
  \/ onResolved(e) \/ onConnect(e) \/ onAlloc(e) \/ onRead(e)
  \/ onTimer(e) \/ onClosed(e) \/ onTimerClosed(e)

Next ==
  \/ exec \/ execOffline
  \/ onSignal \/ onConsoleCommand \/ onConsoleEnd
  \/ \E e \in Exchanges : Callback(e)
  \/ onHandleClosed
  \/ uv_run \/ uv_run_once \/ destroyApp

Spec == Init /\ [][Next]_vars

(***************************************************************************)
(* What libuv guarantees: timers fire, closed handles get their callbacks, *)
(* reads that have a buffer end, and a resolver thread returns.            *)
(***************************************************************************)
Fairness ==
  /\ WF_vars(onHandleClosed)
  /\ WF_vars(uv_run) /\ WF_vars(uv_run_once) /\ WF_vars(destroyApp)
  /\ \A e \in Exchanges :
       /\ WF_vars(onResolved(e)) /\ WF_vars(onConnect(e)) /\ WF_vars(onRead(e))
       /\ WF_vars(onTimer(e)) /\ WF_vars(onClosed(e)) /\ WF_vars(onTimerClosed(e))

FairSpec == Spec /\ Fairness

-----------------------------------------------------------------------------
(***************************************************************************)
(* Type correctness.                                                       *)
(***************************************************************************)
TypeOK ==
  /\ app \in Stages
  /\ once \in BOOLEAN
  /\ signals \in [Signals -> Handles]
  /\ m_tty \in Handles
  /\ progress \in Handles
  /\ tcp \in [Exchanges -> Handles]
  /\ timer \in [Exchanges -> Handles]
  /\ request \in [Exchanges -> Requests]
  /\ m_data \in Nat
  /\ m_free \subseteq Chunks
  /\ DOMAIN buffer = Exchanges
  /\ \A e \in Exchanges : buffer[e] = <<>> \/ buffer[e] \in DOMAIN m_used

(***************************************************************************)
(* The pool's books: every chunk is either free or in use, never both, an  *)
(* address stands for the chunk that lies there, and exactly the chunks    *)
(* that connections read into are in use.                                  *)
(***************************************************************************)
PoolBooks ==
  /\ \A p \in DOMAIN m_used : m_used[p] \in Chunks \ m_free /\ Address(m_used[p]) = p
  /\ \A i \in Chunks \ m_free : Address(i) \in DOMAIN m_used
  /\ \A p \in DOMAIN m_used : \E e \in Exchanges : buffer[e] = p

(***************************************************************************)
(* Two connections never read into the same chunk, however reads, closings *)
(* and growing of the pool interleave.                                     *)
(***************************************************************************)
NoSharedChunk ==
  \A e, f \in Exchanges : buffer[e] = buffer[f] => e = f \/ buffer[e] = <<>>

(***************************************************************************)
(* A callback that can come finds the object it belongs to: App::close     *)
(* destroys Signals, Console and Network from inside one of their          *)
(* callbacks, and an HttpClient goes with its timer.  No object keeps a    *)
(* pointer to a handle that has been deleted.                              *)
(***************************************************************************)
OwnersAlive ==
  /\ "active" \in {m_tty, progress} \cup {signals[s] : s \in Signals} => app = "running"
  /\ "deleted" \in {m_tty, progress} \cup {signals[s] : s \in Signals} => app # "running"
  /\ \A e \in Exchanges : timer[e] = "active" => tcp[e] # "deleted"

(***************************************************************************)
(* When the loop has been left, nothing is left: every handle is closed,   *)
(* so that uv_loop_close succeeds, and every chunk is free, which          *)
(* NetBuffer::destroy asserts.                                             *)
(***************************************************************************)
NothingLeft ==
  app = "left" =>
    /\ Whole
    /\ {m_tty, progress} \cup {signals[s] : s \in Signals}
         \cup {tcp[e] : e \in Exchanges} \cup {timer[e] : e \in Exchanges}
       \subseteq {"none", "deleted", "leaked"}

(***************************************************************************)
(* What makes the above inductive.  The handles of App follow its stage    *)
(* and those of an exchange each other: a connection that is not closed    *)
(* has a timer that will close it, and only a connection that can be read  *)
(* has a buffer.                                                           *)
(***************************************************************************)
AppHandles ==
  /\ app = "main" => /\ \A s \in Signals : signals[s] = "none"
                     /\ m_tty = "none" /\ progress = "none" /\ Unused = Exchanges
                     /\ ~ once
  /\ app = "running" => /\ \A s \in Signals : signals[s] = "active"
                        /\ m_tty \in {"none", "inactive", "active", "leaking", "leaked"}
                        /\ progress \in {"none", "active"}
                        /\ ~ once
  /\ app \in {"closed", "left", "destroyed"} =>
       /\ \A s \in Signals : signals[s] \in {"closing", "deleted"}
       /\ m_tty \in {"none", "closing", "leaking", "leaked", "deleted"}
       /\ progress \in {"none", "closing", "deleted"}
  /\ once => Unused = Exchanges /\ progress = "none"

Coupled(t, m, r) ==
  /\ t \in {"none", "inactive", "active", "closing", "deleted"}
  /\ t = "none" => m = "none" /\ r = "none"
  /\ t \in {"inactive", "active"} => m = "active"
  /\ t = "closing" => m \in {"active", "inactive"}
  /\ t = "deleted" => m \in {"closing", "deleted"}
  /\ r \in {"connecting", "reading"} => t \in {"active", "closing"}

ExchangeHandles ==
  \A e \in Exchanges :
    /\ Coupled(tcp[e], timer[e], request[e])
    /\ buffer[e] # <<>> => request[e] = "reading"

IInv ==
  /\ TypeOK /\ PoolBooks /\ NoSharedChunk /\ AppHandles /\ ExchangeHandles
  /\ OwnersAlive /\ NothingLeft

(***************************************************************************)
(* uv_run does not return while the App still waits for something: the     *)
(* exit code has been set by App::close.                                   *)
(***************************************************************************)
LeavesClosed == [][app # "left" /\ app' = "left" => app = "closed"]_vars

(***************************************************************************)
(* A program that has been told to stop does stop, whatever the daemon     *)
(* does with the connections that are open.                                *)
(***************************************************************************)
Leaves == app = "closed" ~> app = "destroyed"

=============================================================================
