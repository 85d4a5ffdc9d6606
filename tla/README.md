# TLA+ models of xmrig-nonces-heatmap

The program asks a Monero daemon for the headers of all blocks, keeps their
nonces in a JSON file and renders them as a heatmap. It is small and has one
thread, but nearly all of it runs as callbacks of libuv: what is hard is the
order in which answers, errors, timeouts and signals arrive, and what is left
on disk when the process ends at the wrong moment. That is the core of the
models here. Around it are the tools the program is made of, where it is the
inputs that are hard. Paths are relative to `src/src/` unless they begin with
`README.md`, which is the program's own.

## The system

| Component | State | Operations | Interacts with | Hard behaviour |
|---|---|---|---|---|
| `Network` | height to reach, next position, outstanding ranges `m_req`, received headers `m_data`, progress timer | `connect`, `onHttpData` (reply or error), `sync`, `save`, timer | starts exchanges with `fetch()`, extends `Nonces`' list by reference, calls `INetworkListener` | answers in any order, retries that rewind the position, integers that wrap, an end inferred from two counters |
| `HttpClient`, `HttpContext`, `Dns`, `Storage` | storage map, TCP handle, resolver, timer, parser, weak reference to the listener | `fetch`, resolver, connect, read, timer and close callbacks | calls `IHttpListener`, uses the vendored parser | a timeout racing a connection or a response, a listener that disappears, a callback that never comes |
| `HttpsClient` | OpenSSL's session, two BIOs, whether the certificate was accepted | `handshake`, `read`, `flush`, `verify` | between the socket and the parser of `HttpClient` | records cut and joined by reads, what is left in a BIO |
| `Dns`, `DnsRecord` | records by type, status | `resolve`, `onResolved`, `get` | the resolver, `HttpClient` | answers with mixed families, empty ones |
| `HttpContext`'s header callbacks | last name, last value, whether a value came last, header map | `onHeaderField`, `onHeaderValue`, `on_headers_complete` | driven by the parser | names and values cut by the network |
| `App` with `Nonces`, `ConfigFile`, `Json::save` | list in memory, exit code, two files | `exec`, `close`, `onSyncDone`, `onFatalError`, `onSignal`, `render` | owns `Network`, reads and writes both files | kills and failed writes between truncation and writing, exchanges that outlive `Network` |
| the event loop: `Signals`, `Console`, `Timer`, `Handle` | the handles libuv knows of | start, close, close callbacks, leaving `uv_run` | every other callback | objects destroyed inside of their own callbacks, a handle nobody closes |
| `MemPool`, `NetBuffer` | free and used chunks | `allocate`, `deallocate`, `resize` | every read | exhaustion, double release |
| `Config`, `Daemon`, `Job` | the settings | `parse`, `getJSON` | file rewritten at every start | what is read, defaulted, narrowed or changed is written back |
| `Json`, `ConfigFile` | none | `convertOffset`, `read` | the place of an error in the file | first column, last line, off by one |
| `Process`, `Arguments`, `Env`, `Entry` | command line, data directory, working directory, variables | `add`, `setDataDir`, `location`, `expand` | every file name | one directory applied twice, a value that holds a variable |
| `Heatmap` | range, width, x | `render`, `saveInfo` | reads the list, writes the image | rounding, division by zero, limits |
| `Log`, `ConsoleLog` | one buffer for all lines | `print`, `add`, `destroy` | everything that prints | lengths at the end of the buffer |
| `String` | pointer and size | construction, copy, move, `split`, `join`, case | nearly all | ownership, "no string" beside the empty one |
| `Cvt` | none | `toHex`, `fromHex` | the fingerprint of a certificate | arithmetic without branches |
| `Platform`, `Chrono`, `Tags`, vendored libraries | none of the program's own | | | |

What makes each of them correct:

- `Network`: every height that was requested is received or outstanding; the
  list is extended once, completely, with the chain's nonces and without a gap,
  or not at all; no lookup fails; the configured concurrency is respected; where
  no range wraps nothing is done twice without a failure; it ends.
- `HttpClient`: its listener is told exactly one outcome, a true one, unless it
  has disappeared; with a timeout the exchange ends whatever else never happens.
- `HttpsClient`: it is an `HttpClient`; the request goes only to a server that
  was accepted; nothing up to the request and nothing that could be read waits in
  a BIO while the session works.
- `Dns`: what is connected to is an address of the answer.
- Header callbacks: the result does not depend on how the response was cut.
- `App`: a nonces file that can be read is the beginning of the chain and is
  given up only for a longer one; exit code 0 means that the user stopped the
  program, or that image and file hold the whole list as far as the writes of the
  run succeeded, at which the code does not look.
- The event loop: a callback finds its object; a program told to stop leaves
  with every handle closed and every chunk free; no two connections share one.
- `Config`: the next run understands what this one wrote as this one did.
- `Startup`: all four files are where the three directories say.
- `Heatmap`: the image shows the blocks asked for, each in a column inside of it,
  and every nonce between the limits but the lowest few. A list longer
  than a float counts (2^24 blocks) may lose its last columns: `ColumnsFit` is
  stated up to there, and TLC finds it violated without that condition. The
  check of the image's size is right up to 2^29 blocks, which `ImageFits` says:
  with 2^31 blocks in as many rows its product is 2^64, and the image passes.
  TLC finds that, scaled down, when the condition is left out.
- `String`: one owner for each buffer, and a copy is a value of its own.
- `Log`: the buffer is never written beyond its end, and a line that fits is shown
  whole, with its colours or without a trace of them.
- `Cvt`, the place of an error, `Env`: what a reference definition says.

`PROJECT.json` lists the places in the code where each of these could go wrong
(`hazards`) with the properties that would show it.

## The modules

| Module | Models | Source |
|---|---|---|
| `NonceSync` | what one synchronisation promises | the contract of `INetworkListener` |
| `Network` | the synchronisation itself | `Network.cpp`, `Network.h` |
| `MCNetwork` | instances for TLC | |
| `NetworkProofs` | theorems about `Network` | |
| `NetworkClients`, `MCNetworkClients` | the synchronisation together with the HTTP clients it opens | `Network.cpp`, `base/net/http/Fetch.cpp`, `HttpContext.cpp`, `HttpListener.h` |
| `NetworkClientsProofs` | theorems about `NetworkClients` | |
| `Exchange` | what one HTTP exchange promises | the contract of `IHttpListener` |
| `HttpClient` | one exchange | `base/net/http`, `base/net/dns`, `base/net/tools/Storage.h` |
| `HttpClientProofs` | theorems about `HttpClient` | |
| `HttpsClient` | one exchange over TLS | `base/net/https/HttpsClient.cpp` |
| `HttpsClientProofs` | theorems about `HttpsClient` | |
| `Dns` | from a host to an address | `base/net/dns` |
| `HttpHeaders` | how headers are put together | `base/net/http/HttpContext.cpp` |
| `Archive` | what the nonces file promises over many runs | |
| `App`, `MCApp` | the life of the process, run after run | `App.cpp`, `Nonces.cpp`, `base/io/json/Json_unix.cpp`, `ConfigFile.cpp` |
| `AppProofs` | theorems about `App` | |
| `MemPool` | the chunks that are read into | `base/net/tools/MemPool.h`, `NetBuffer.cpp` |
| `EventLoop` | the handles of one run, and their use of the pool | `App.cpp`, `base/io/Signals.cpp`, `Console.cpp`, `base/tools/Timer.cpp`, `Handle.h`, `HttpClient.cpp` |
| `EventLoopProofs` | theorems about `EventLoop` and `MemPool` | |
| `Config` | settings, their file and its editing | `config/Config.cpp`, `Daemon.cpp`, `Job.cpp`, `base/io/json/Json.cpp` |
| `ParseError` | where the configuration is wrong | `base/io/json/Json.cpp`, `ConfigFile.cpp` |
| `Startup` | from the command line to the files | `main.cpp`, `Process.cpp`, `Arguments.cpp`, `Entry.cpp` |
| `Env` | variables in file names | `base/io/Env.cpp` |
| `Strings` | ownership of texts | `base/tools/String.cpp` |
| `Log` | a line of the log | `base/io/log` |
| `Cvt` | hexadecimal digits | `base/tools/Cvt.cpp` |
| `Tools` | the tools beside each other: their variables, constants with assumptions, and what is claimed of each | |
| `MCTools` | one specification of all of them for TLC | |
| `ToolsProofs` | theorems about `Dns`, `Config`, `HttpHeaders`, `Strings`, `Log`, `ParseError` and `Startup` | |
| `Heatmap`, `MCHeatmap` | the blocks, the size and the pixels of an image | `Heatmap.cpp`, `Job.h` |
| `HeatmapProofs` | theorems about `Heatmap` | |

How they fit together. `App` owns the network and represents it by `NonceSync`
(its steps are actions of `App`), which `Network` implements. `Network` starts
exchanges and represents each by an element of `wire` from `fetch()` to the one
call of its listener, which is what `Exchange` promises and `HttpClient`
implements; `NetworkClients` puts the two together. `HttpsClient` implements `HttpClient`. `HttpHeaders` is the part of
the parser callbacks that decides whether a reply has the content type `Network`
accepts; in `HttpClient` a response is a status, in `Network` a usable or an
unusable reply. `EventLoop` looks at the same run as `App`, `Network` and
`HttpClient` from the side of libuv: it leaves out what the callbacks compute
and keeps which of them can come. It extends `MemPool`, whose only users are the
connections; `Startup` extends `Env`. The remaining tools are called and return:
nothing of the program interleaves with them.

A definition whose name ends in a second name after an underscore (`exec_deaf`,
`Retried_keeps`) is a variant of the one before the underscore with a plausible
mistake in it. No specification uses it; it is there to show that the runs would
notice.

### Network

The variables have the names of the members. `wire` holds the open exchanges,
`nextId` is the static counter of `JsonRequest`, `loop` the iterations that the
loop of `sync()` has left, `outcome` the call that ended the object. One action
is one callback: `onTransportError` (a negative status of a range that is in
`m_req`, sent again at once), `onUnusableReply`, `onLastBlockHeader`,
`onBlockHeadersRange`. The last three do not ask for the status: apart from the
retry, `onHttpData` only logs a status that is not 200 and goes on with the body
(`Network.cpp:73-98`). The iterations of the loop of `sync()` are steps of their own, during which no
callback runs. The two overloads of `getBlockHeadersRange` take the maps they
change as parameters, because their callers erase an entry before the call in one
case and after it in the other, and the order shows: the retry inserts before it
erases. `close` is `App::close` on a signal, `expired` an exchange that ends when
the object is gone. Heights are `uint32_t`; `Modulus` stands for 2^32 and every
sum wraps. `Conforming = FALSE` lets the daemon leave out headers and answer
under the id of another request.

`max_range` is a `uint32_t` without a limit, so that the end of a range may wrap
below its start (`Network.h:46`). Such a range is empty, goes out all the same,
and takes `m_pos` back. No height is lost by that, but work is done again and the
rest of the progress line falls below zero: `NoDuplicateWork` and
`RemainingNotNegative` are stated for `RangesFit`, and TLC finds both violated
without it. With the default of 1000 it will hold for thousands of years.

### NetworkClients

`Network` next to one `Exchange` for every request, instead of an abstract set of
open exchanges. `request` lists what was sent: `JsonRequest` counts its ids from
1, so that the client of `request[i]` has id `i`. `listening`, `told` and `over`
are the variables of `Exchange` as functions of the client, and `Client(i)` is the
instance for client `i`. `wire` is no variable here: `Wire` is the set of requests
whose client has neither told an outcome nor been deleted, and `Net` is `Network`
with that set for its `wire`.

What couples the parts is the listener. `m_httpListener` belongs to the Network
object and the clients hold it weakly: when `App::close` destroys the object, every
client loses it in the same step (`Expired`). A response takes the listener from
its client (`on_message_complete`), an error leaves it to a client that is about to
be deleted. What a client tells decides about the retry and nothing else: the body
of a reply that ends with the connection (`UV_EOF`) has arrived, and for the height
it is read and may start the synchronisation (`onLastBlockHeader` with the status
`"error"`), while the same reply to a range is thrown away and asked for again.
An action is a callback of the loop with all it does: the outcome that the client
tells, `Network::onHttpData`, which may open the next client, and the end of the
object. Each conjoins the action of `Network` of that name, so that the
steps of the callbacks refine `Network` as they stand; what has to be shown is that
the clients keep up with them: that a client which still listens has an object
to call, that none ends unheard while it lives, and that deleting a client never
takes away an exchange `Network` counts on. That the conjunction does not forbid
what the code does is seen from `Ends`, and from the actions that the run fires.

### HttpClient

One object from `fetch()` to its deletion. `handle` is the TCP handle, whose
close callback deletes the object; `stored` its entry in the storage map, by
which `close()` decides whether anything is left to do; `told` the calls of the
listener. Everything that can come in any order is an action: the resolver, also
after the object is gone; the connection, its failure and its cancellation by
`uv_close`; a part of a response, its end, its end together with more, another
message, something that is not HTTP, an end of file or an error; the timer; the
close callback; the listener's disappearance. What may never come has no
fairness: the resolver, the connection and the daemon.

### HttpsClient

The class derives from `HttpClient`, and so does the model: `Plain` is an
instance of `HttpClient`, and an action of `HttpsClient` is one of `Plain` with
what OpenSSL does in the same callback, or leaves it alone. `m_read` holds the
records that have come and are not consumed, `m_write` what is to be sent. A read
brings any number of records; `SSL_connect` consumes the handshake up to its end
and leaves the rest, the loop of `SSL_read` (`looping`) takes the data of one
record a step. `sent` is everything written to the socket. A record that came in
the same read as the end of the handshake waits for the next read (`rest`): the
code leaves the function there, which does no harm because the request had not
been sent when it came. A handshake that fails is noticed by no code; the timer
ends it, which is why `EndsInTime` is checked again.

`flush` is called when `SSL_connect` wants more and when the request has been
written, and nowhere else. What OpenSSL writes at other times stays in `m_write`:
the `"alert"` of a handshake or a record it refuses, the `"keys"` of a server
whose certificate is refused, and the `"answer"` to a key update.
`NothingHeldBack` therefore says what does not wait: while the session works,
anything but such an answer, so neither a part of the handshake nor the request.
That is what the exchange depends on; that the server is not told why it ends is
what the code does, and the model with it.

### Dns

The answer is a sequence of addresses `[family, ip, scope]`. `onResolved` sorts
them into two lists and drops other families; `get` prefers IPv4 and returns a
record that cannot be connected to when both lists are empty, which no caller
reaches because the status is negative then. A `DnsRecord` keeps the name of an
address and makes a new one of it: the scope of an IPv6 address is lost.
`AddressUsable` says that the connection goes to an address of the answer, up to
its scope.

### HttpHeaders

The parser (`Piece`, `LastPiece`, `EndOfHeaders`) reports pieces of names and
values, at least one each, of any length including none when a read ended just
before the delimiter; the three callbacks are translated as they are.

### App

A run is a sequence of steps from `App` (the constructor) to `exit`. Files are
written in two steps, as `Json::save` does: truncated, then written; a kill in
between or a write that fails leaves the file `torn`, which no parser reads. The
image is a file like the others, `Absent`, `Torn` or `Whole` with the list it
shows: `render` throws before it has touched the file, or writes it with
`lodepng_save_file`, which looks at `fopen` only, so that a write that fails leaves
a torn image and the exit code 0. `intact` says that no write of this run has failed.
The exit code of a killed process is 137 by convention. `MaxFaults` bounds kills and
failed writes together, `MaxRuns` the number of runs.

`ExitStatus` says what code 0 is worth, then: the list is not empty; if all
writes succeeded, the image and the nonces file hold all of it; and if not, the
image holds it or cannot be read, but never shows an earlier list. Without the
condition `intact` the claim is false: a disk that is full when the image or the
list is written leaves a damaged file behind exit code 0, and TLC finds that.

### EventLoop and MemPool

The variables are the handles: of the signals, the console, the progress timer,
and of every exchange its TCP handle and its timeout. A handle goes from `active`
to `closing` to `deleted`, and its close callback is an action. At the end of its input
the console closes its handle without a callback that deletes it (`leaking`,
`leaked`): the loop still waits for it, and its memory stays until the process
ends. `App::close` is called from a signal, the console, or
an answer to the network, and destroys the objects of all three. What an exchange
was told or a daemon answered is nondeterministic: any callback may start new
exchanges, up to the number in `Exchanges`, as retries do. `uv_run` is left when
no handle is active or closing.

`buffer` is the chunk a connection was given and has not returned. libuv asks for
it ahead of the data on Windows and together with it on Unix, so that here it may
be held over other callbacks. A chunk has a number, which `MemPool` keeps in its
sets, and an address, which the connection has; `deallocate` looks the number up
by the address.

### Config

A setting is what the program's members hold; a document is a function from keys
to JSON values, a value a type and a number (strings are numbered). Objects
(`daemon`, `heatmap`) may be replaced by something else. The user changes one key
at a time while the program is not running; the program reads the file, and with
autosave writes back what `getJSON` says. `Width16` stands for 2^16, `IntMax` for
the greatest `int`: a number above it is read by `getUint` and not by `getInt`.

### Startup and Env

A text is a sequence of symbols, in which `/`, `=`, `$`, `{`, `}` have their own
and a name is one symbol: what the code compares, cuts and searches. Three
directories decide where the four files are: the executable's, the one the
program was started in, `--data-dir`. `Env` replaces the variables one after
another in the order of a `std::map`, in the text that holds the earlier values;
it finds the ones to replace once, in the original text. The variables are created
once and kept. The environment is empty in `Startup`; in the run of `Env` alone
one variable comes from it, and one that is set to nothing counts as not set. A
name that a setting puts elsewhere is elsewhere, so the settings
hold names that are plain or lead to the data directory by a variable.

### Strings

`heap` is what is at every allocated address, `m_data` and `m_size` the two
members of every object. `Owned` says that the heap holds exactly the buffers of
the objects, `ValueStep` that an operation gives its target the value it should
have and leaves every other object's alone, except for the one it moves from.

### Log

A line is put together in `m_buf` from the date, the colours and the text, and
each part is limited by what is left of `kMaxBufferSize`, which is 80 in the
run. Four levels stand for all: with a colour and without, with a timestamp and
without, and one of the messages that are printed only with `verbose`.

### Cvt, Env and ParseError

`Cvt` computes digits with the code's own operations on bits; what wraps in an
`unsigned int` wraps at 2^16, since every result is cut to a byte. It and `Env`
are compared with definitions that say what the results should be. `ParseError`
is a state machine: a step is one round of the loop of `convertOffset` with
`std::getline`, and the last step is what `ConfigFile::read` shows. The claim is
about the place in the file: whose line is shown, with what number and above it,
and what stands over the mark.

### Heatmap

The drawing is sequential: `render` chooses the range and the size or throws,
`nonces_heatmap` gives every nonce between the limits its column and row or
divides by zero, `writepng` succeeds or throws (a write that fails
unnoticed is a success here, and is in `App`). `points` is what the image
library is given; it leaves out what lies outside of the image. `get_iterator`
works on positions instead of iterators. `Modulus` stands for 2^32 and
`Modulus * Modulus` for `size_t`. A quotient of floats is computed as such:
operands and result are rounded to `Mantissa` bits, halves to even (SSE
arithmetic; an x87 build may keep more bits). Where the code converts an infinite
float, `BlocksPerPixel` allows every `uint32_t`.

## Runs

| Run | Shows | Bounds, and why they are enough |
|---|---|---|
| `network` | the safety of the synchronisation | ranges of up to 3 blocks, three requests at a time, two failures: one range waits while three are answered in any order; a range fails twice, or two ranges fail and the position is moved back past both. `Modulus` is 14 and the last height 13, so that `m_height + 1` and the end of a range wrap. The initial lists include an empty one, a stale one, one of three blocks, whose ranges wrap to below its end, and one longer than the chain. |
| `network_clients` | the synchronisation and its clients together: no client calls an object that is gone or ends unheard, the clients' requests are the exchanges `Network` is modelled with, each client behaves as `Exchange`, the synchronisation implements `NonceSync`, also with a daemon that leaves out headers or confuses ids, and it ends with every client deleted | 5 blocks, ranges of two, two requests at a time, one failure; `MaxRequests` is 6: one for the height, three ranges, a retry, and one of the two ranges it takes `m_pos` back over (with 7, which is as many as there can be, the run passes too, with twice the states); every subset of a range's headers and every id |
| `http_client` | truth and completeness of what a listener hears, refinement of `Exchange`, and the end of every exchange | none: the state space of one exchange is finite |
| `http_client_assert` | the assertion of `Storage::get` fails (finding) | |
| `https` | the request is protected, nothing is held back, refinement of `HttpClient`, and the end of every exchange | five records, which is one handshake record, its end, data and `close_notify` with one to spare, in every order and cutting; with a fingerprint, which has all the cases of a run without one |
| `app` | files, image and exit code over many runs | three runs, two faults, three blocks: a fault in one run, its effect in the next and the recovery in the third |
| `event_loop` | callbacks find their objects, chunks are not shared, a program told to stop leaves cleanly | three exchanges and blocks of two chunks: the pool grows twice while chunks are in use and free; one signal |
| `heatmap` | the blocks shown are those the settings denote, the image fits its arithmetic, and which nonces are lost | a `uint32_t` of 7 bits and a float of 3, so that every limit of the settings has values on both sides, lists of up to 11 blocks are longer than a float counts, and `height * 2` wraps |
| `tools` | the components that work alone | Headers: two and a trailer, the most that meet in the callbacks' state, with every cut. Strings: two objects and seven texts. Log: lines that end before, at and after the limit. Startup: every way to write an option, directories of every kind. Config: any number of edits and runs, values of the right type, of another type and at a limit. Dns: answers of up to three addresses of three families. Env: up to three pieces and values that hold variables. Cvt: every byte. Parse errors: every text of four characters and every offset. |
| `data_dir`, `config_offline`, `config_daemon` | disagreements of the code with the program's README (findings) | as `tools`, the last one with TLS |

`Tools` instantiates the tools once, for `MCTools` and for the proofs. `MCTools`
holds all of them in one specification: a behaviour is one of them, named by
`component`, with the variables of the others at rest.

Fairness. `Network`: the loop of `sync()` is run to its end, and every exchange
is answered or ends, which `EndsInTime` of `HttpClient` shows for a client with a
timer; failures stop after `MaxFail`, which is an assumption about the daemon,
since the code retries without end. `NetworkClients`: the same, for each client of
its own, so that a client cannot be kept waiting by the others. `HttpClient`: an armed timer fires and a
handle that closes is closed, both guaranteed by libuv; nothing is assumed of the
resolver, the connection or the daemon. `HttpsClient`: the same; the timer
has strong fairness there, because the loop of `SSL_read` is several steps in
which it cannot fire, and libuv runs the due timers in every round whatever the
reads are. `EventLoop`: closed handles get their callbacks, timers fire, a resolver
thread returns and `uv_run` is left when nothing is alive; nothing is assumed of
the signals or the console.

Deadlock is not checked where the system really stops: a synchronisation, an
exchange and a run end, and the number of runs of `App` is bounded. In the
runs of `MCTools` it is not checked either, because most of the tools return.

## Proofs

All proofs are checked by TLAPS, for every value of the constants that the named
assumptions of the modules allow.

- `NetworkProofs`. The invariant is `IInv`. `Coverage` is the heart of it: a
  height that was requested, which means that it lies below `m_pos` or below the
  end of an outstanding range, is in `m_data` or in an outstanding range. It is
  what makes `m_req.empty() && m_pos > m_height` mean "all is there", and it
  survives the rewinding of `m_pos` only because the second way of having been
  requested is there. Beside it `IInv` needs that `m_req` and the exchanges agree
  (`TrackedExchanges`), that ids and heights stay within their bounds
  (`Bounded`), that nothing has been requested while the first request is open
  (`Phases`) and that `m_data` holds the chain's own nonces (`FromChain`). From
  it follow that the code's lookup does not throw (`HeadersPresent`), that success
  means a complete list (`SuccessIsComplete`) and leaves nothing open
  (`NothingOutlivesSuccess`), and that `Network` implements `NonceSync`
  (`Refinement`), for a daemon that conforms or not.
  On top of `IInv`, for heights that leave room for a range (`RangesFit`),
  `WorkInv` is inductive: what is requested and received lies
  between the list and the height to reach (`Within`); as long as nothing has
  failed, `m_pos` has passed everything requested, and it is outstanding once or
  received (`Fresh`); the progress timer does not run before the height is known
  (`Unarmed`). It follows that nothing is requested twice without a failure
  (`WorkedOnce`) and that the unsigned rest of the progress line is never negative
  (`ProgressSubtracts`), the latter also with failures and a sloppy daemon.
- `NetworkClientsProofs`. Nothing of `NetworkProofs` is proved again: its lemmas
  are taken over by an instance with `Wire` for `wire`, after a section that shows
  the definitions of the two instances to be the same. `IInv` adds to `Network`'s
  invariant that the requests are numbered (`RequestsOK`), and what holds of every
  client, open or not (`ListenersLive`): who listens has a living object, and while
  it lives a client that has told nothing listens and is not deleted.
  `ClosedExpires` is the step that needs both: the requests differ, so that a
  deleted client takes away its own exchange and no other, and it does so only when
  the object is gone. `Refinement` puts the promises of the parts together, and
  `NothingUnheard` (`AnsweredBySuccess`, from `SuccessIsQuiet` of `Network`) says
  that success is not announced over a request still on its way, for any number
  of requests.
- `HttpClientProofs`. `IInv` adds `ToldOnce` to the properties: a listener that
  can still be called has not seen a complete response. Two lemmas say what
  `close()` and `on_message_complete` do in a state of the invariant; the steps
  and the refinement of `Exchange` use only them.
- `HttpsClientProofs`. `IsAnExchange` shows that every step of `HttpsClient` is
  one of `HttpClient` or a stutter. `TruthfulAndMindful` then takes `HttpClient`'s
  theorem over instead of proving it again. `IInv` adds that a handshake
  and what was sent go with the life of the handle; `Protected` and
  `HoldsNothingBack` follow from it for any number of records, the latter with what can
  be in `m_write` at each stage of the session (`Unsent`).
- `EventLoopProofs`. First the pool: lemmas say what `allocate` and `deallocate`
  do to books that are right (`PoolBooks`), by the arithmetic of an address. The
  invariant ties the handles of `App` to its stage (`AppHandles`) and those of an
  exchange to each other (`ExchangeHandles`): a connection that is not closed has
  a timer that will close it. `ChunksAreOwned`, `CallbacksAreSafe` and `CleanExit`
  are parts of it; `WaitsForClose` is an action property: the loop cannot be left
  before `App::close`, because the signals keep it alive.
- `AppProofs`. `IInv` adds `Loaded`: from loading to the end of the
  synchronisation the list in memory is the one on disk if that is readable, what
  is saved is longer, and when the image is drawn the file holds the list, if no
  write has failed. `Leaving` carries that from the image to the exit code. From
  them follow `HonestExitStatus`, `GivenUpForMore`, an action property,
  and the refinement of `Archive`. That a synchronisation turns a beginning of the
  chain into a longer one is a lemma about `NonceSync`.
- `HeatmapProofs`. The arithmetic is in one lemma, `BelowTheRows`: a distance from
  the greatest nonce that falls below the last row is within `height` of the
  smallest. `IInv` adds the types and that nothing is drawn before the range is
  known. It follows that the range is the denoted one, which nonces are lost, and
  when the code divides by zero. The width is computed in float, and the proofs
  follow it there. The provers know nothing of `2^k`: `PowerCounts` takes it as the
  number of subsets of `1..k`, from which `PowerNext`, `PowerSum` and
  `PowerGrows` follow (each by a least counterexample). On these rest the unit in
  the last place (`UlpOf`), the scale of a quotient (`ScaleOf`), the error of one
  rounding (`HalfEvenNear`) and of a conversion (`FloatNear`). `WidthExact`: while the number of blocks
  is exact, the rounding of the quotient does not cross a whole number, so that
  `ceil` gives the least width that holds all blocks (`ColumnsInside`).
  `WidthBounds`: for any number of blocks the width is at least 1 and at most twice
  as many, so that up to 2^29 blocks the product of the check does not wrap
  (`ImageInside`).
- `ToolsProofs`, one section a tool. Dns: the records are empty exactly when the
  answer has no address of either family, and `get` chooses from one that is not.
  Config: `ConfigInv` says what a document can be, whatever the user wrote
  (`DocumentOK`), and what is read from one (`ConfigOK`); what is written is a
  document again (`Writing`) and is read as the same settings
  (`ConfigReadsBack`), in a build without TLS, since with it `"tls"` is lost (see
  `config_daemon`). HttpHeaders: `HeadersInv` has the place in the message
  (`PlaceInv`), the name and the value kept so far as the parts of the line that
  have been reported (`HeldInv`), and the map as the lines before it, with
  trailers that add and never change (`MapInv`). Strings: `Owned` with the sizes
  of the buffers is inductive; one lemma for each way of changing a String
  (`HoldsEffect`, `HoldsNothingEffect`, `InPlaceEffect`, `MoveEffect`) says what
  happens to its text and that nothing happens to others, and `SplitText`,
  `JoinText` say that the new texts are texts. Log: the lengths of the pieces of a line add up to
  less than the limit (`LineFits`), given that the limit has room for the date
  and a colour. ParseError: while `convertOffset` looks, the characters read end
  with a newline and the lines read are the newlines among them (`LookingInv`);
  `NextLine` says what `getline` returns, and `CountNewlines` that a line more is
  a newline more. When it has found the error, the line at hand ends after it
  (`FoundInv`), and `LinePlaced` turns that into the places of the characters.
  Startup: `StartupInv` adds to the property that an absolute data directory is the
  working directory under the same name, and that there is no variable before the
  arguments are read. So a plain name and one that begins with the directory lead
  into it (`Resolved`), a name joined by `location` is of the second kind
  (`OwnFile`), and a text is expanded with the variables that were kept as with new
  ones (`Expanding`). It is assumed (`StartupAssumption`) that the names in the
  settings come to one of the two kinds: what `Env` makes of a text is not part of
  the proof.

Only model-checked:

- liveness (`Ends`, `EndsInTime`, `Leaves`), which is out of the reach of the provers
  under fairness;
- `ConversionsAgree`: `Env` and `Cvt` are recursive over their texts or work on
  bits, and what a recursion computes for every input takes an induction over data;
- the half of `LinesShown` that is about what a line shows (`LineShown`): the text
  without colours is made by replacing one sequence after another, as often as
  there is one. The other half, `InBuffer`, is proved.

## Findings

- `http_client_assert`: the assertion of `Storage::get` fails when the timeout
  comes before the resolver. A release build ignores the answer; the request
  libuv still works on has been freed by then.
- `data_dir`: a relative `--data-dir` is applied twice. `setDataDir` changes the
  working directory to it, and `location` puts it in front of a file name again,
  so that `config.json` and `nonces.json` are looked for in a directory of the same
  name inside of it.
- `config_daemon`: the documented defaults of `host`, `port` and `name` hold only
  if the whole object is missing or empty; and in a build with TLS `"tls": true`
  has no effect, while `"tls": 1` is turned into `true` by the first autosave.
- `config_offline`: autosave writes `"offline": true` after a run with an
  incomplete daemon object, and completing the object does not undo it.

## Not modelled

- `Platform`, `Chrono`, `Tags`: the user agent, the clock and coloured names.
- The vendored libraries, beyond the contract of their callbacks; with them the
  stamp of the heatmap (`radius`), its colours and the PNG.
- The text of requests and messages, the information file next to the image, and
  the Windows variant of `Json::save`.
- Code that nothing calls: `HttpContext::closeAll` and the server side of
  `HttpContext`, `Timer::setRepeat`, `Cvt::randomBytes`; and
  `XMRIG_SHARED_DATADIR`, a build option that is off.
- Renegotiation of a TLS session, which the code neither asks for nor forbids.
- The product `timeout * 1000` (`Daemon.h:50`), which wraps at seventeen years.
- The chain is constant: nothing in the code detects a reorganisation, and a
  stale list is only an initial state of `MCNetwork`.

## Plan

Done: 1. `NonceSync`, `Network` with proofs; 2. `Exchange`, `HttpClient` with
proofs; 3. `Archive`, `App` with proofs; 4. `HttpHeaders`; 5. `Config`;
6. `Heatmap` with proofs; 7. `MemPool` and `EventLoop` with proofs;
8. `HttpsClient` with proofs; 9. the work of `Network` where ranges fit, with
proofs; 10. `Strings`, `Log`, `Env`, `Startup`, `Cvt`, `ParseError`, `Dns`;
11. proofs about `Dns`, `Config`, `HttpHeaders`, `Strings`, `Log` and
`ParseError`, and about the float arithmetic of `Heatmap`;
12. `NetworkClients`, the composition of `Network` with its clients, with proofs.

Left: nothing that a run or a proof could settle without a change of the code. The
properties that are only model-checked are listed under Proofs.
