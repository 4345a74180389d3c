# Verification of bore

TLA+ models, model-checking configurations and machine-checked proofs for the
TypeScript port of `bore`, a TCP tunnel: a *server* with a control port and a
range of tunnel ports, and a *client* that asks for a tunnel port and forwards
each *visitor* that connects to it to a local port.

## 1. The system

| Component | Source | State it keeps | Operations | Module |
|---|---|---|---|---|
| Server | `src/src/server.ts` | `conns` (id to visitor socket), `listeners`, one session per control connection, one 10 s timer per id | accept loop, `handleConnection` (handshake, Hello, serving loop, Accept), `createListener`, `shutdown` | `Server` |
| Delimited and its codec | `src/src/shared.ts` | unread bytes, `nextIndex`, `isDiscarding`, decoded `frames`, `waiters`, `failure`, `finished`, `detached` | data, end and error events, `recv` with cancellation, `intoParts` | `Delimited` |
| TcpListener | `src/src/deps/tokio.ts` | `queue`, `waiters`, `closed` | connection event, error event, `accept` with cancellation, `close` | `TcpListener`, `Backlog` |
| copyBidirectional, dropStream | `src/src/deps/tokio.ts` | per direction: settled, paused, listeners attached | data, end, error, close, drain, finish events | `CopyBidirectional` |
| Client | `src/src/client.ts`, `deps/tokio.ts` (`tcpConnect`, `resolveAddresses`) | `conn`, `active`, one task per announced id, the walk of each dial over its addresses | `listen`, `handleConnection`, `connectWithTimeout`, abort | `Client` |
| The tunnel as a whole | `server.ts`, `client.ts`, `main.ts` | that of both processes around one control connection | a visitor's way from its arrival to the local service; deaths and losses | `Bore`, implementing `Tunnel` |
| Authenticator, `Client.new` | `src/src/auth.ts`, `client.ts` | the key | `serverHandshake`, `clientHandshake`, `Client.new`; `answer`, `validate` | `Auth`, `Authenticator` |
| Messages | `src/src/shared.ts`, `deps/uuid.ts` | none | `serialize`, `splitVariant`, `deserialize` | `Messages` |
| fastrand | `src/src/deps/fastrand.ts` | the seed | `u16`, `genModU32` | `Fastrand` (the words drawn are arbitrary) |
| Command line | `src/src/main.ts`, `deps/clap.ts` | parsed arguments | `parse`, `run`, `main` | `CommandLine` |
| timeout, sleep | `src/src/deps/tokio.ts` | a timer, an abort signal | | partly: their effect, in the modules that await |
| Mutex | `src/src/deps/sync.ts` | a promise chain | `lock` | not modelled: used by the tests only |
| Logging, errors, entry points | `deps/tracing.ts`, `deps/anyhow.ts`, `index.ts` | log filter | text output | not modelled |

The client opens a control connection, answers the challenge if the server has
a secret, and sends Hello. The server binds a port and serves it: it sends a
Heartbeat, waits up to 500 ms for a visitor, stores the visitor's socket in
`conns` under a fresh uuid, starts a 10 s timer and sends Connection(uuid). The
client opens a second connection, authenticates again, sends Accept(uuid), and
both ends copy bytes between their two sockets. Everything in a process shares
one event loop: what interleaves is what happens between two awaits.

### What is hard, and what makes each part correct

- **Server.** Sessions, timers and shutdown interleave at every await. A
  visitor's socket moves from a listener's queue to `conns` to a proxying
  session; it must have one holder at a time, be open while it is held, be
  found by a prompt Accept, and not be lost by the ending of the session that
  announced it. The registry must be what shutdown needs. A dead client is
  noticed only by a failing write.
- **Delimited.** Frames are cut out of data events that split the stream
  anywhere, with a window of `maxLength + 1` bytes, a resume index, and a
  discarding state. `recv` may be cancelled. `intoParts` hands the socket over
  in mid-stream.
- **TcpListener.** The queue and the waiters are one state in two lists; an
  `accept()` is cancelled twice a second.
- **copyBidirectional.** Two directions share two sockets: half-close,
  back-pressure, resets, and events that came before the copy began.
- **Client.** Tasks fail at any of seven awaits while shutdown destroys their
  sockets. A dial is itself a sequence: a lookup that cannot be cancelled, then
  one address after the other within what is left of one timeout.
- **The tunnel.** Between the arrival of a visitor and its first byte from the
  local service lie a Connection message, a dial, a handshake, an Accept and
  another dial, in two processes, either of which may die, beside a 10 s timer.
  The server joins the visitor to the proxy connection before the client has
  reached the local service.
- **Auth.** Each side decides by its own configuration whether there is a
  handshake; the client sends Hello without awaiting the verdict.
- **Messages, fastrand, tags, command line.** Boundaries: one key or two, 65535
  or 65536, the threshold below which a word is rejected, a text that stops
  being hexadecimal, a flag that takes the next flag as its value.

`PROJECT.json` lists each hazard at its line with the properties that would
catch it.

## 2. The modules

A step of a module is what runs from one event or await to the next: promise
continuations settle before the event loop takes its next event, so they belong
to the step that settles them. Operators called `Mutant: ...` in a comment are
faulty variants of the definition that follows; they show that a property
depends on the code, and no specification uses them.

### Server

One session per `c \in Conn`; `pc[c]` names the await at which
`handleConnection` is suspended (`challenging`, `proving`, `receiving`,
`binding`, `refusing`; `greeting`, `beating`, `accepting`, `announcing`;
`flushing`, `copying`; `done`). `want` is the port its Hello asked for, `tries`
what is left of `createListener`'s attempts; a candidate may be in use by another
tunnel, or by the control listener if `SharedAddress`, that is, if `--bind-tunnels`
and `--bind-addr` are addresses that cannot both have a port. `lsn`, `port` and `queue` are the tunnel
listener of a session, `listeners`, `conns`, `timer` the shared state, `vis`
the sockets of visitors. `issued`, `announced` (the message is written) and
`expired` (the timer has fired) are history. Clients are
arbitrary: they send any message, stay silent, close or reset. `link[c]`
follows a TCP fact the code relies on: the first write after the peer's close
succeeds (`probed`) and provokes the reset that makes later ones fail.

An `error` event without a listener ends a Node process. A visitor's socket has
no error listener until it is copied, nor has a control stream between
`intoParts` and the copy; `VisitorResets` and `ClientResets` model that as
`state = "crashed"`, after which nothing happens. Liveness properties except it.

### Delimited

The stream is a sequence of bytes, 0 being NUL; `arrived` bytes have come in
data events of any size, `consumed` have left the buffer, so the buffer is an
interval and `Decode` is one iteration of `drain`'s loop. A frame is the pair of
its first and last position. `produced` and `delivered` are history.

### TcpListener and Backlog

`Backlog` is what `tokio.ts:236-238` promises to callers: a queue of
connections and a set of calls. `TcpListener` has the waiters' list, and
implements it (`Implements`): waiting calls are the pending promises. `Server`
uses the listener through the two cases of its connection handler,
`ArriveQueued` and `ArriveAccepted`, and `AcceptTimeout`.

### CopyBidirectional

Direction `x` copies from socket `x`. Chunks are counted: `sent` by the peer,
`got` by data events, `wrote` to the other socket, `flushed` to its peer. What a
`net.Socket` does (drain, finish, close) is Node's and described in the module's
header. `Drop` is `dropStream`
on both sockets, which happens in the turn in which the promise settles
(`Event` keeps other events out). Whichever direction ends last, `Drop` follows in
that turn, and its FIN, sent by `end()` or by `dropStream`, finishes only afterwards:
`Complete` speaks of every FIN, before and after `Drop`, and of what `dropStream`
destroys. `lost`, history, tells the sockets that a reset or the client's shutdown
destroyed from those that the code let go of. One socket, `framed`, was read by `Delimited`
before, so its end or its loss may already be past when the copy starts. A past
end is looked up. A past loss is not noticed: the direction settles only if the
other socket is lost as well, so `Released` assumes that both sockets are there
when the copy starts.

### Client

`pc[t]` is the await of task `t`; `remote` and `local` are its sockets and
`active` the set that shutdown works through. `inbox` holds the messages decoded
and not received, which matters between `Client.new` and `listen` and when the
control connection ends. The handshake and the copy are single steps whose
outcomes `Auth` and `CopyBidirectional` justify: a copy ends (`Released`),
unless a socket was lost before it (`stuck`). A dial is followed step by step:
`dial[t]` is the lookup or the address being tried, `rest[t]` the addresses left.
When the timeout fires during the lookup, `dns.lookup` goes on (`abandoned`) and
must not connect when it ends.

### Bore and Tunnel

`Bore` composes both processes around one control connection: the serving loop
(`loop`, `queue`, `cur`), `conns` with its timers, the session of each Accept
stream (`session`, `taken`), the client's tasks, and the messages between them
(`control`, `accept`). Each part is coarser than in its own module: queue and
waiters are `Backlog`'s queue, a handshake is a step, a copy is two halves that
end. `link` says how the control connection ended, which decides whether the
client reads what was on its way, and whether `main` exits with its tasks
(`Exits`) or `listen` returns and they go on.

In a `steady` behaviour nothing dies, is lost, is refused, or is late; in the
others each of these may happen at any moment. `Tunnel` is what the README of
the repository promises to a visitor: it waits, and is then joined once with a
local connection of its own, or closed, or given up. `Bore` implements it
(`Implements`): a visitor's stage and its partners are read off the queue,
`conns`, the sessions and `taken`. A stream that is reset while its task dials the
local port leaves that task `stuck`, as in `Client`: it keeps the local connection,
but not the session or the visitor. Joining is `RecvAccept`; giving up is `Expire`.

### Auth

Both sides of one control connection, from the first message to the reply to
Hello, over two FIFO streams. `cpc` and `spc` are the awaits, or how they
settled. When `quiet`, `recvTimeout` times out only when nothing is under way.
The tag is represented by the secret that made it; what makes that sound is
`validate`, which `Authenticator` has with the screening and the decoding of the
tag's text. HMAC-SHA256 is assumed to tell keys and challenges apart and is not
modelled.

### Messages, Fastrand, Authenticator and CommandLine

Pure algorithms over every input of a bounded set. JSON values are told apart as
far as `deserialize` does. `Fastrand` keeps the arithmetic of Lemire's method
with `PortCount` and `WordCount` in place of 2^16 and 2^32. `Authenticator` keeps
hexadecimal digits in both cases, and a character that is none. `CommandLine`
has the arguments `main.ts` declares, `parse` as a scan over the tokens followed
by the sources of each value, and `run`; an outcome is an exit code or what is
started, and `LineIsRead` restates it without a scan, from which tokens are
values and which are positional. Loops are recursive functions or choices of the
iteration that ends them, never RECURSIVE operators, so that they can be proved about.

`MCServer` and `MCDelimited` define what a .cfg cannot say; `MCAlgorithms` makes
a state (`call`) of each call of a pure algorithm. The other modules are run as they are.

## 3. The runs

| Run | Shows | Bounds, and why they are enough |
|---|---|---|
| `server_safety` | ownership and openness of visitors' sockets, exact registry, announced ids are found, also while the send is awaited, only expiry forgets | 3 clients, 2 visitors, 2 ids, a range of 2 ports one of which is the control port, on one address: a session that announces, two that race for an id, two that race for a port. No control handshake: it adds states before `receiving` only. About 1.35 million states |
| `server_live` | dead clients are released, queues drain, silent clients are dropped; ports are allowed | 2 clients, 1 visitor that may reset, 2 binds, with a secret; the range 0 to 1, a request above it, an ephemeral port, and tunnels on another address than the control port, whose number they may have. About 241,000 states |
| `server_stale` *(violation)* | `NothingForgotten` | |
| `delimited_codec` | frames are exactly the segments of the stream, in order, none skipped; no lost wakeup; handover | all streams of up to 8 bytes over {NUL, other}, limit 2: an oversized chunk with a frame on either side fits |
| `delimited_handoff` *(violation)* | `HandoffLossless` | |
| `tcp_listener` | none lost, waiters exact, implements `Backlog` | 4 connections, 3 callers |
| `copy_streams` | complete streams, the last FIN included, half-close, bounded buffer, no stall, release | 3 chunks each way, high-water mark 2: a pause and what follows it |
| `client_tasks` | `active` exact, ended tasks hold nothing, announced ids served, tasks end | 2 tasks with hosts of up to 2 addresses, with a secret: a first address that fails and one after it |
| `client_stop` *(violation)* | `ShutdownReleases` | |
| `bore_tunnel` | implements `Tunnel`; in a steady behaviour every visitor is served and no local connection is made in vain; nothing hangs | 2 visitors, 2 ids: two connections under way at once in either order, an id that expires or is lost beside one that is served. About 73,000 states |
| `auth_opening` | agreement, both sides decide, the error reported for each mismatch | every pair of 2 secrets or none, timeouts at any moment, or (`quiet`) only when nothing is under way |
| `algorithms` | messages: strict, round trip; candidate ports: in range, unbiased; tags: exactly the right text; lines: read as a reference definition reads them | all scalars, all maps of a key and a scalar, maps of no or two keys; all ranges of 8 ports, all words of 32, two draws; tags of up to 6 characters against a MAC of 4; lines of up to 4 tokens: a flag, its value, `--` and one more. About 81,000 states |

`CHECK_DEADLOCK FALSE` is said where the system may stop: a server or client
after shutdown or a crash, a stream that has ended, a handshake that is decided,
a call that has returned. `tcp_listener` never stops and is checked for
deadlock.

### Violations

Each states what a comment, the README or a test of the repository says:

- `NothingForgotten`: the stale timer removes the entry of `conns` and leaves the
  visitor's socket open, referred to by nothing.
- `HandoffLossless`: frames decoded from proxied bytes before `intoParts` are
  dropped.
- `ShutdownReleases`: a client task that is dialing at shutdown proxies afterwards.

### Fairness

Weak fairness throughout, of what the event loop owes: timers fire, writes
complete or fail, what can be received is. Nothing is assumed of visitors, of
what clients or servers send, or of when anybody closes, except that in
`CopyBidirectional` each peer comes to the end of its stream, and in `Client`,
accordingly, that a copy ends. In `Bore` each visitor and each local service comes
to the end of its stream, an `Accept` and a Connection message on their way are
received, and a control connection that was lost is noticed; `Served` and
`NothingHangs` rest on nothing else, and arrivals, losses and deaths are never
owed. `NothingHangs`, like `TaskEnds`, excepts the task that is `stuck`, which no
steady behaviour has. That writes complete or fail leaves out a client that stays
connected and never reads: it can hold its session in a write. A client that closed answers the next write with
a reset (`Server`): that is what TCP does.

## 4. The proofs

The theorems hold for all values of the constants that satisfy the named
assumptions. All invariants below are checked by TLC first.

- `ServerProofs`. `TypeCorrect`. `OwnershipCorrect`: `SingleOwner`, `HeldIsOpen`
  and `StoredIsTimed` are inductive only together: that an Accept leaves one
  holder needs that a stored socket is under no second id, which needs that ids
  are fresh, that is, that an id in use is timed; that shutdown destroys nothing
  still held needs that holders are disjoint. The steps are grouped by what they
  do to sockets: admit one, move it, release it, or leave all alone (`OwnFrame`).
  `RegistryCorrect`: `listeners` is exactly the set of open listeners.
  `AnnouncedCorrect`: through `Tracked`, which says of every id whose timer runs,
  announced or not, that its visitor is stored, taken or closed, and `Timed`, which
  says that the timer of an id a client may know of runs or has fired: so the id
  finds its visitor from the turn in which the message is handed to the socket, and
  not only once the write has completed. `ForgetCorrect`
  rests on `OwnershipCorrect`'s invariant. `PortsCorrect`: through `Asked`, what a
  binding session asks for is in the range, and `Unbound`, one that still binds
  has no tunnel. It uses nothing of `InUse`: it holds whatever addresses the
  listeners are bound to.
- `DelimitedProofs`. `TypeCorrect`, with the resume index inside the window.
  `OrderCorrect`: through `Queued`, which says how `frames`, `waiters` and
  `pending` hang together. `FramesCorrect`: through `Scan`, which says that what
  was consumed ends at a delimiter unless the codec discards, and that the part
  before `nextIndex` holds none. `HandoffCorrect`: through `Handoff`, which
  relates the last frame produced to what is consumed. `SkippedCorrect`: through
  `Taken`: every segment that ends in the consumed prefix was produced or is too
  long, and while the codec discards, it is inside a run longer than the limit. `WakeupCorrect`: through `Woken`; it holds for one caller at a time,
  which is how the code calls `recv`, and says so as an assumption: with two,
  the end of the stream wakes only the first.
- `TcpListenerProofs`. `TypeCorrect`, `WaitersCorrect` (each waiter once, exactly
  the pending calls), `NoneLostCorrect`, and `Refines`: every handler is a step
  of `Backlog` or a stutter.
- `CopyProofs`. `TypeCorrect` bounds the write buffer by the high-water mark.
  `CompleteCorrect`, `HalfOpenCorrect` and `NoStallCorrect` follow from one
  invariant for each direction: how the counts of its chunks are ordered
  (`Counts`), and which of its ends have happened (`Ends`). `CompleteCorrect` covers
  the direction that ends last, whose FIN comes after `dropStream`: `Ends` says that
  a socket which only the code destroyed has finished, and that a FIN of a direction
  without an error follows its source's end.
- `ClientProofs`. `ActiveCorrect` and `DoneCorrect` follow from an invariant that
  says, for each await, which sockets a task may have and where its dial may be
  (`Stage`), that `active` agrees with the sockets (`Exact`), and that a message is
  in the inbox once, its task not started (`Queue`); `ServedCorrect` says that
  `listen` does not end while the inbox holds a frame.
- `AuthProofs`. `AgreementCorrect` and `ConnectedCorrect`: through
  `Streams`, what may be under way in each direction given the two secrets, and
  `Screened`, how far either side comes with a mismatch. `OutcomeCorrect`: through
  `Course`, the states a quiet exchange passes through for equal secrets, for two
  different ones, and for a secret on one side only.
- `BoreProofs`. `Refines`: `Bore` implements `Tunnel`. Its invariant `Owns`
  says that a visitor is queued once, or stored under one id, or taken by one
  session. `ServesCorrect`, of steady behaviours: through `Undialed`, a task that
  has not dialed has no session, and `Smooth`, every id that is on its way is
  stored and every id a task runs for is stored or proxied, which holds only
  because a steady timer waits for its entry.
- `AlgorithmProofs`. What the runs check on enumerated inputs, for inputs of any
  size; a lemma says it of the algorithm, and `Called` says what a call's inputs
  are.
  - `StrictCorrect` and `RoundTripCorrect`: by the shapes of a JSON value, any map
    of a finite set of keys and any integer included.
  - `UniformCorrect`: for any port count and any number of words not below it. The
    words that the first draw accepts and those that later draws accept are, for a
    span `n`, the words whose low part is at least a threshold congruent to
    `WordCount` modulo `n`; the words of one port are an interval, shown by
    division to hold as many of them for every port; and the rejected words are
    fewer than half. That the draw that ends the loop is the one `U16` picks rests
    on `Least`: a set of naturals with a member has a least one.
  - `TagExactCorrect`: for tags of any length. A text that passes the screen is
    decoded whole (`Halves`), so `Buffer.from` cuts nothing off it.
  - `LineIsReadCorrect`: for lines of any tokens and any length. `Reached` is
    the invariant of the scan's loop: the tokens before `at` are read, none of
    them is wrong, `k` positionals are among them, and `raw` holds for each
    argument what the last of its places says; `Stopped` says that it has come to
    the first token that is wrong. `ReadsOn` is one iteration, `ScanIs` all of them.
    That there is a set of tokens taken as values at all (`TakenDecided`), and that
    the loop has a course (`Course`), is by least counterexample (`NoLeast`), which
    is how induction is done without an induction theorem that takes an operator.
  Nothing is assumed of the bounds but that they are numbers: `MaxDraws`, `MaxTag`
  and `MaxTokens` only keep TLC's runs finite. Of the environment nothing is
  assumed, of the words that are numbers that they include the defaults
  (`NumeralAssumption`), and of `Unset` that it is no token (`UnsetAssumption`).

`SequenceTheorems` has the facts about sequences; a proof module whose state is
lists of things that occur once adds what it needs of `Lists` and `Members`.

Every safety property of a passing run is proved, and each refinement. Only
model-checked is every liveness property, since the prover has no rule for
fairness or ENABLED here: `DeadClientReleased`, `QueueDrains`, `OpeningEnds`,
`Released`, `TaskEnds`, `Served`, `NothingHangs`, `BothDecide`.

Three limits of the code are known from the models and not the subject of a run: a
bind in flight during shutdown opens its tunnel afterwards (`BindOk`
after `Shutdown` in `Server`); a range
that starts at 0 makes 0 a candidate, which `bind` takes as "any port"
(`PortAllowed` names the exception); and the copy that starts with a lost socket,
described under `CopyBidirectional`, `Client` and `Bore`. That a tunnel may have the
control port's number when it is bound to another address is no limit but a set-up
the options allow (`SharedAddress`).

## 5. Not modelled

- The content of proxied data, its byte counts, and the texts of errors.
- HMAC, SHA-256, uuid generation: ids are fresh, tags tell secrets apart.
- Wall-clock time: a timer may fire at any time after it is set. That the 10 s
  of one entry are longer than the 3 s of a handshake is used in one place: a
  steady behaviour of `Bore` lets no stored entry expire.
- The order of microtasks within a turn of the event loop: a handler and the
  continuations it settles are one step.
- The distribution of wyrand's outputs, and what DNS answers.
- `-V`, a bare help, the choice of the command, and the text of help and errors.
- `Mutex` and `duplex`, which only the tests use; `ioErrorKind`, a table of names.
- Logging, error chains, entry points, and the configuration of the tests.

## 6. Plan

Done, in this order:

1. `Server` with `ServerProofs`; 2. `Delimited` with `DelimitedProofs`;
3. `TcpListener`, `Backlog` and the refinement; 4. `CopyBidirectional`;
5. `Client`, with its dials; 6. `Auth`, `Messages`, `Fastrand`;
7. `Bore`, implementing `Tunnel`; 8. `CommandLine` and `Authenticator`;
9. proofs of the safety properties of all of them, and of the pure algorithms for
inputs of any size.

Left:

- A refinement of `Delimited` to an abstract codec, a queue of frames between a
  stream and its readers, in place of its single invariants.
- The listener inside `Server` as a refinement of `Backlog`, so that the two
  models share one abstract specification.
- The order of microtasks around `timeout`: a result, its promise chain and the
  timer in one turn of the event loop.
- `Client` and `Server` in full as the two sides of `Bore`, in place of their
  coarser steps.
- A `Bore` with several control connections and clients that reconnect.
