# Furun VPN: a TLA+ model of the tunnel

Furun VPN is a proxy over TLS. A client (Python, asyncio, with a Qt window) keeps a pool of
TLS tunnels to a server, multiplexes streams over them in a small framed protocol (AUTH,
CONNECT, CONNECT_OK, CONNECT_FAIL, DATA, CLOSE, PING, PONG), and offers them to local
applications as an HTTP proxy. The server opens a TCP connection for each stream and relays.

This directory models the parts where tasks interleave, tunnels die and buffers fill, checks
them with TLC, and proves with TLAPS what the prover can reach of their safety: the invariants of the
server, the tunnels, their pool, the streams, the router and its breaker, the rules, the requests and the
session. Everything on one side
runs on one asyncio loop, so **what lies between two awaits is one action and every await is
a control state** at which other tasks, the peer, timeouts and cancellation may act. That is
the granularity of all modules. `PROJECT.json` maps each definition to the source lines it
stands for.

## Inventory

| Component | Source | State | Operations | Interacts through | Hard behaviour | What makes it correct |
|---|---|---|---|---|---|---|
| Framed writer | `server/forward_proxy.py` 37-69 | lock, transport | `send_frame_locked` | shared by all tasks of a tunnel | stalled peer, cancellation while holding the lock | drains never overlap; every send returns |
| Tunnel server | `server/tunnel_server.py` | per client: `active_streams`, `pending_data`, `deferred_close` | frame handlers, `_handle_connect`, cleanup, `stop` | tables shared by the read loop and stream tasks | pipelined DATA, CLOSE during CONNECT, cancellation at any await | order of bytes, grammar of frames, nothing left behind |
| Forward proxy, relays | `server/forward_proxy.py` 72-320 | `_active_relays`, `_semaphore`, DNS cache | `connect_target`, `relay_target_to_tunnel`, `remove_relay`, `close_all` | called by stream tasks and read loops | check-then-act over awaits; permits over failures | permits conserved, relays backed by a live task |
| Tunnel stream | `client/core/tunnel.py` 57-159 | `_buffer`, `_leftover`, `_buffered_bytes`, `_closed` | `read`, `feed_data`, `close` | read loop feeds, proxy reads | partial reads, close during a wait, cap | no byte lost, EOF last, reader woken |
| Stream reader/writer | `client/core/router.py` 21-103 | feeder task, send queue, `_drained` | `_feed`, `write`, `drain`, `close` | between stream and HTTP relay | close with data queued, sender cancelled in the lock | the whole stream is delivered, then one CLOSE |
| Tunnel client | `client/core/tunnel.py` 162-506 | flags, socket, `_streams`, tasks, connect futures | `connect`, `disconnect`, `create_stream`, `close_stream`, loops | callbacks to the pool; disconnect from three tasks | loops that cancel and await each other; teardown racing every suspended call | teardowns end, callers are woken, streams closed, nothing leaks |
| Tunnel pool | `client/core/tunnel.py` 519-716 | `_tunnels`, `_reconnect_tasks`, `_down_notified` | `connect`, `disconnect`, `create_stream`, `_on_tunnel_lost`, `_reconnect_one` | callbacks from tunnels, to the window | rebuild during losses and redials | each tunnel down has one task that redials it |
| Router | `client/core/router.py` 106-329 | DNS cache, `_proxy_fail` | `route`, `record_stream_result` | pool, rules, breaker | decisions after awaits, stale times | an address that has just failed often enough is not dialled |
| Circuit breaker | `client/core/circuit_breaker.py` | failures, blocks, file | `is_blocked`, `record_*`, `save`, `_load` | router; GUI thread reads | window, cooldown, crash between saves | blocked after 3 failures in the window, and only then; what is not dirty is on disk |
| Rule engine, editor | `client/core/rule_engine.py`, `client/gui/rule_editor.py` | two sorted rule lists, default, file | `match_explicit`, `replace_rules`, load/save, the editor's save | loop thread reads, GUI thread writes | attributes swapped one by one while matching; end of the program in a save | a rule that stays decides; priorities decide; a restart has the last saved rules |
| GeoIP | `client/core/geoip.py` | sorted, merged intervals | `rebuild`, `contains` | router | networks that touch, overlap, contain each other | membership equals a scan of the networks |
| HTTP proxy | `client/core/http_proxy.py` | server, handlers | `_handle*`, `_relay` | router, local sockets | two relay tasks, grace time, either side gone at any await | every handler ends and leaves no task or stream |
| GUI session | `client/gui/main_window.py` 384-854 | `_running`, `_reconnecting`, pool, proxy | connect, auto-reconnect, teardown, exit | two threads, pool callback | overlapping user and automatic actions | one reconnect loop, no dead button, proxy setting restored |
| System proxy | `client/core/system_proxy.py` | `_original_values`, registry | `enable`, `restore` | GUI session | crash between the two | the user's setting comes back |
| Wire protocol | `common/protocol.py` | the read loops' `buf`, `pos` | `pack_frame`, `unpack_frame`, chunking | both sides | frames cut anywhere, impossible lengths, unknown commands | what is sent arrives; the buffer is bounded |
| Rest | widgets, config, crypto, logging, entry points | | | | | not of interest to a model |

The tests in `src/tests` exercise single components with mocked peers; no test lets two tasks
race at chosen awaits. The hazards in `PROJECT.json` are the places where that matters.

## Modules

| Module | Models | Notes |
|---|---|---|
| `FrameWriter` | the promise of `send_frame_locked` to the tasks that share a tunnel | abstract specification |
| `TunnelServer` | `TunnelServer`, `ForwardProxy`, `ForwardRelay` together | implements `FrameWriter` on every tunnel (`FW(c) == INSTANCE FrameWriter WITH ...`) |
| `MCTunnelServer` | the behaviours to which a run of the server is confined | `PermitsSpec`: clients only connect, the server is not stopped |
| `TunnelStream` | the receive buffer, byte-exact | chunks are intervals of byte numbers |
| `StreamFeeder` | `_TunnelStreamReader._feed` on a `TunnelStream` | extends `TunnelStream`, replaces its reader |
| `TunnelClient` | one tunnel of the client | |
| `TunnelPool` | the pool; its tunnels are reduced to the awaits the pool sees | |
| `CircuitBreaker` | the breaker, its throttled saves and its file | operators that `Router` composes; `BreakerSpec` calls them in any order |
| `MCCircuitBreaker` | the symmetry of the breaker's addresses | |
| `Router` | `route` and `record_stream_result` of concurrent handlers, with both caches | extends `CircuitBreaker` and implements its `BreakerSpec` |
| `Session` | the window's coroutines and GUI thread, with start and stop of the proxy and the system proxy | |
| `Framing` | one direction of a tunnel, byte by byte: packing, chunking, the network and both read loops | |
| `GeoIP` | CIDR arithmetic and the interval table | pure operators over every small table |
| `RuleEngine`, `MCRuleEngine` | matching, the editor, the swap and the file, with crashes; rows, names and files of the instance | extends `GeoIP` |
| `Relay` | one request: handler, two relay tasks, sender, closer, feeder, on one stream of a tunnel | |
| `TunnelServerProofs`, `TunnelClientProofs`, `TunnelPoolProofs`, `SessionProofs`, `RelayProofs` | theorems about the module each extends | |
| `FramingProofs` | theorems about the wire, and about `FrameWriter` | an instance of `FrameWriter` beside `Framing` |
| `RouterProofs` | theorems about the breaker, the router and the streams it feeds from | extends `Router` and `StreamFeeder` |
| `RuleEngineProofs` | theorems about the interval table and the rules | extends `RuleEngine` |

How state corresponds to code:

* **TunnelServer.** A key is a (client, stream) pair, as `_make_key` packs it. `active`,
  `deferred`, `pending`, `relays`, `permits` are the code's tables. `task[k]` is the await the
  stream's task is at, from the start of `_handle_connect` to the end of
  `relay_target_to_tunnel`; `reader[c]` is the await of the read loop. The task that runs
  `_handle_connect` and the one it creates for the relay are one `task[k]`: the second takes
  the first one's place in `active_streams` before anything else can run. `cancelled` holds
  tasks on which `cancel()` was called; the next step of such a task is `Cancelled`. What the
  loop and the peers wrote is recorded as sequences of frame kinds (`toClient`) and of DATA
  numbers (`toTarget`): the DATA frames of a stream are numbered as the client sends them, so
  order and gaps can be stated. Time is abstract: a wait with a timeout may end at any moment.
  An answer that is written to a transport that is closing is discarded, as asyncio does. A lookup succeeds, fails, or ends
  the task by an error that `_resolve` does not catch: no answer then, and a finished task in `active_streams`.
* **Clients of the server** send what a `TunnelClient` can send: per stream one CONNECT, DATA,
  at most one CLOSE, in this order, and PINGs. AUTH with a wrong key ends the loop (`ReadEnd`).
* **TunnelStream.** Bytes are numbered 1, 2, 3, ...; a chunk `<<a, b>>` is the bytes a to b, so
  contents, order and accounting are all visible while a state stays small.
* **TunnelClient.** `_connected`, `_authenticated` and `_running` always change together
  between awaits and are one variable. `at[t]` is where each of the three loops is, and the owner; a task that is in
  `disconnect()` is at the loop whose end it awaits, which may be itself. `cancelled` holds the loops that have
  a CancelledError to meet: one that is in `disconnect()` swallows it and goes on (`Awaited`), one that
  runs ends by it (`LoopEnds`), and the read loop in the drain of a PONG may lose it, when the drain
  ends as timed out in the same moment. So one of the loops and the owner may be inside `disconnect()` together, and
  the streams are closed only by one that found no loop left to await.
* **TunnelPool.** `link[t]` is what the pool can tell of a tunnel; the tunnels of every
  `connect()` are new ones (`Batch`). The callback `_on_tunnel_lost` is part of the action at the
  end of `t.disconnect()`.
* **CircuitBreaker, Router.** `failures`, `blocked`, `dirty`, `lastSave` and `disk` are the code's
  fields and file; an entry that is absent is `<<>>` or 0. One clock stands for both of the code's, and
  moves at any await. `streak`, `evicted` (kept with the file) and `saved` are history variables: they record which
  failures a block may rest on, how many of them an eviction forgot, and whether the last save succeeded. The
  state file may be unreadable at a restart, which empties the memory. A handler of `Router` is at one of
  `route`'s awaits, or streams. What rules, `is_special_ip`, `is_china_ip`, the pool and the peers answer
  is a choice. `Restart` is a new `Router`, which each session makes, so the breaker is loaded again.
* **Session.** `task` holds the coroutines given to the loop, each at one of its awaits, with what
  it keeps in locals (the pool it dials, the attempt). `pool` and `proxy` are attributes of the window, so a
  teardown acts on what they are *then*. Status signals are queued and delivered one by one to the GUI
  thread. `registry` is what the system uses, `original` what the program would restore; both of its values are
  set one after the other, and either write may be refused. `busy` holds the closed proxies that have an open connection of an
  application, for which `proxy.stop()` waits (`Held`), as `wait_closed()` does since Python 3.12; before, it did not wait.
  Connections matter to the session only then, so whether there are some is chosen when the server is closed. The exit waits for
  its disconnect for at most 3 s.

* **Framing.** A byte is a number and a header has three (stream, command, length) instead of nine. The network is
  the sequence of all bytes sent and how many were taken. `send_data` divides what is too long, and frames of other
  streams come between the parts. Besides well-formed frames the peer may send unknown commands, headers with
  an impossible length, which the parser skips byte by byte, and single bytes. Of the frames that were handled the model
  keeps what they did: the bytes each stream was fed (`received`) and how many frames meant something (`handled`). `side` says whose read
  loop it is: the client drops the parsed part of the buffer after every read, the server past a threshold.
* **GeoIP, RuleEngine.** A network is an address and a prefix length over `Width` bits, a host name a sequence of
  labels. `engine` holds the three attributes, which `replace_rules` assigns in three steps and a handler reads in
  two. `dialog` is the editor's table and what it made of it, `file` the rules file with its replacement by rename;
  `Restart` may come at any moment. `published` and `durable` are history: the versions since the start and the
  last save that succeeded.
* **Relay.** `pc` has the await of each of six tasks, `cancelled` those with a cancellation to deliver. What the
  application sends is numbered, so order and gaps show in `wire`; what it receives is a count only, as
  `StreamFeeder` follows the bytes of that direction. `lock` is the tunnel's write lock, which other streams take
  too. `tunnel` is wedged when its connection died and the read loop has not noticed yet.

Definitions named in "mutants" of `PROJECT.json` are variants of the definition that follows
them with a plausible bug; no specification uses them. They show that the property could fail.

## Runs

| Run | Instance | Question |
|---|---|---|
| `server_stream` | 1 client, 1 stream, 2 DATA up, 1 chunk down, pending buffer of 1, 1 permit | every course of one stream, with stop(), loss, stall, overflow, timeouts; its task and the PONGs of the read loop implement `FrameWriter` |
| `server_permits` | 2 clients with a stream each, CONNECTs only, 1 permit | a CONNECT that waits for the permit a stalled tunnel of another client holds |
| `streams` | cap 4, payloads and direct reads of 1-3 bytes, 6 bytes, a feeder that reads 2 | all boundaries of `read(n)` and of the cap; the feeder against close |
| `tunnel_client` | 1 call of `create_stream`, 2 connections, optimistic and blocking mode | teardown from its tasks, which cancel and await each other, against a suspended call |
| `tunnel_pool` | 2 tunnels, 2 calls of `connect()` | losses and redials against a rebuild and a shutdown |
| `breaker` | 2 addresses, 1 tracked, threshold 2, cooldown 2, window 6, clock of 7, 2 failures in a row | blocks, evictions, failed saves and restarts in any order |
| `router` | 1 address with a name, 2 handlers, threshold 2, cooldown 2, clock of 3, both caches of size 1 | a decision against what the other handler learns during a lookup |
| `session` | 2 sessions, 2 coroutines, 4 clicks and losses, 2 attempts, registry writes may be refused, applications that use the first proxy | every interleaving of connect, auto-reconnect, disconnect, toggle and exit |
| `framing` | 2 streams, frames of at most 4 bytes (3 of header), reads of at most 3, threshold 2, data of at most 2, 11 bytes, 2 oddities | what arrives, however the bytes are cut and whatever is sent between the frames |
| `rules` | 3-bit addresses: every table of at most three networks; 2 rows of each kind, 2 edits, 2 saves, 1 request, 2 files found at the start | the interval table against a scan; the editor against a handler that matches and against the end of the program |
| `relay` | 1 request, CONNECT or GET, 2 reads from the application, 1 from the stream | every order in which application, server, tunnel and proxy end it |
| `stream_tail` | as `streams` | violated: the tail of a closed stream is delivered |

Why the bounds are enough: a pending buffer of one frame overflows with the second, and a permit of one is contended
for by two. In `server_stream` the writer of a tunnel is contended for by the stream's task and the read loop, which has PONGs to
send. Streams of one tunnel meet only at the write lock and in the snapshot of a cleanup, which takes them one by one;
what two of them share is proved for any number. Clients meet only in the semaphore. It is
the subject of `server_permits`: there a stream of one client waits for the permit that a CONNECT of the
other holds while it sends its answer to a stalled tunnel. So that this run ends in time its clients send no CLOSE and no PING, and
a tunnel or target ends only when its connection was closed or lost (`ConnectsOnly`), which takes away ways to
get a permit back early and leaves the waits, the timeouts, losses and cancellations. In the
client two connections show what an old connection's streams and tasks can do to a new one; one call is enough, as
calls wait for the tunnel and not for each other, and the theorems cover any number.
Two tunnels are the smallest pool in which one can be down and the pool up; two batches show
the old against the new. The breaker's times matter only by their order and by the edges of
cooldown and window, which a clock of seven ticks crosses; the second address is there to evict the first.
In `router` two handlers suffice for one to learn while the other waits; local addresses (`LocalIPs`) are left
out there, since the same address may be made direct by a rule. Two coroutines let every pair of the
session's coroutines meet, two sessions an old one's leftovers and a new one, and four clicks and losses both a
loop that finds another at work and one that sleeps while the user disconnects and connects again; the
theorems on the guard and the proxy setting have no such bounds.

In `framing` a frame can be as long as the limit, one byte below it, or have to be divided; a read takes less than,
exactly or more than a frame; eleven bytes hold three frames or two with noise between them, so a
parser that loses its place meets another header. Three networks are the fewest of which two merge and the
third lies beside, between or within them. Two rows of the editor give equal and different priorities, two edits
a version that is replaced while a handler reads, and two saves one that fails after one that succeeded. In `relay` a
second read from the application is written while the first is being sent, which is what `drain`, `close` and
the sender's cancellation are about; handlers meet only in the pool and the router, which are other modules.

All runs set `CHECK_DEADLOCK FALSE`: streams, calls and connections are bounded, so each
instance comes to a proper end.

### Properties

The server: `InOrderDelivery` (the target gets a prefix of the client's bytes, unless the
stream was given up), `FrameGrammar` (what a client sees of a stream), `OpenIsServed` (a stream
that is open for the client has a task that serves it), `RelayBacked`,
`PermitsConserved`, `GoneIsClean`, `WriterContract`; and that every CONNECT is settled
(`ConnectSettles`), every CLOSE honoured (`CloseHonoured`), every dead connection cleaned up
(`CleanupEnds`), every send returns (`SendsReturn`).

The client's streams: `NothingLost` (the bytes, then the end), `BufferAccounting`, `EndIsReported`
for buffers; `UpIntact` (what the application sent leaves in order, the CLOSE after all of it) and
`NothingIsLeft` (no task, stream or lock of a request whose ends are gone) for a request;
`FramesArrive` and `BufferBounded` for the wire.

Tunnels: `OpenIsRegistered` (an open stream is one the read loop or a teardown will find), `NoAnswerMissed`,
`NoStreamLeaks`, `DeathIsNoticed`, `DeathWakesCallers`, `TeardownEnds` (also when two tasks in `disconnect()` await each
other); `Supervised`, `DialsAlone`,
`OldBatchesClosed`, `StopIsComplete`, `Recovers` for the pool.

Decisions: `BlockIsEarned` (nobody is refused for failures too few, too old or forgiven), its converse
`FailuresBlock` (an address whose last dials all just failed is refused, whatever expired, was saved and loaded since, but for an eviction)
and `CleanMeansSaved` for the breaker; `DeadNotDialled` for the router: no call dials such an address, whatever it knew
when it began and whichever other call learned of the failures. A call whose lookup failed dials by name (`router.py:259`), and no
breaker is asked for a name. `IntervalsExact`, `HighestPriorityWins` (by the numbers of the priorities), `KeptRuleDecides` (a
rule that both versions have decides, while they are swapped) and `RestartKeepsRules` for the rules. The window:
`OriginalKept`, `ReconnectGuard` and `ButtonComesBack`, which has an exception: a teardown that waits for an application for ever.
The comment above each definition says what it means for the code.

### Fairness

asyncio runs every ready task and serves the waiters of its `Lock` and `Semaphore` in order:
weak fairness for steps of ready tasks, strong fairness for taking a lock or permit, which others
may hold in between. A wait with a timeout ends, so the drain of `send_frame_locked`, DNS and TCP
connects, and the drain of a target have weak fairness. Nothing is assumed of a peer: no frame has
to come, no target has to send, end or read. Hence the exceptions in the properties: the
drain at `tunnel_server.py:83` has no timeout, so `CloseHonoured` ends in "done or in the flush". A
loop whose connection is closed reads the finitely many frames it has buffered and then ends, which
is strong fairness of its end. `TunnelPool` assumes that the server, tried again and again, is
reached at some time (`SF` of a successful redial), without which `Recovers` cannot hold; `link` being lost
again is never prevented. In `StreamFeeder` a consumer goes on reading until it is told the end. In
`Session` what a coroutine awaits ends, by success or failure, and queued signals are delivered, and the exit waits no longer than
3 s; but no application has to end its connection, so `proxy.stop()` may wait for ever. In `TunnelClient` a cancelled or
ended loop is strongly fair: before it meets its end it handles the finitely many frames it has read. In `Relay` timers expire and ready tasks run; the
write lock is served in order and every holder's drain is bounded, so a task that waits for it gets it (`SF` of
`SenderSends` and `CloserSends`, as others may hold it in between); the read loop of a tunnel whose connection
died ends in `disconnect()`. Nothing is assumed of the application, which may stop reading for good: that is the
exception in `NothingIsLeft`. `breaker`, `router`, `framing` and `rules` state only safety and need no fairness.

## Proofs

TLC checks the instances above; TLAPS proves the following for any values of the constants, under the
named assumptions of each module: for the server a positive `max_connections`, and `Pong` and `None`
different from each other and from all keys; for the router that names and addresses are different things and
its limits are numbers; for the rules that the rows and files to choose from are rows and files; for the others bounds
that are numbers and sizes that are positive. `WidthAssumption` also says that the powers of two up to the width of
an address are positive numbers: the provers know nothing of `^`, and TLC evaluates the assumption.
Every theorem is about the specification without its fairness.

* `TunnelServerProofs`. `TypeCorrect`: besides types, `TypeOK` says that the read loop's position is about a
  stream of its own client, which every later proof uses to see that an action touches one client's part
  of a table. `RelaysAreBacked` proves `RelayBacked`, which is not inductive alone: that an active
  entry names the live task, and that a task in a state after the CONNECT has its entry and its
  socket, must be carried along (`StreamTables`). `GoneLeavesNothing` proves `GoneIsClean` from
  `CleanupTables`: of what is active, all is in the snapshot still to be processed, because a loop that
  cleans up accepts no CONNECT and no task re-enters itself into `active_streams` after its cancellation.
  `PermitsAreConserved` shows that the set of permit holders has a cardinality that each step changes as it
  changes `permits`; no finiteness of the keys is assumed. `DeliveryIsInOrder` proves `InOrderDelivery` from
  `StreamTables` (a pending buffer and a registered relay exclude each other) and the fact that what was
  written and what is pending is a numbered prefix of what was sent.
  Then the protocol of a stream: `FramesAreGrammatical` proves `FrameGrammar` from `Written`: where a task is tells
  which frames of its stream were written; a frame that is missing was discarded by a connection that is
  not open, and such a connection never opens again, so nothing can follow the gap. `OpenStreamsServed` proves
  `OpenIsServed` from `Served`: whatever ends, cancels or defers a stream happens for a reason in `Excused`, and none of
  those reasons is ever taken back.
  Last `WritesKeepContract`, the refinement. Every step of the server is, on every tunnel, a
  step of `FrameWriter` or a stutter, with the place of a task mapped to idle, waiting or draining. It needs from
  `Written` that the holder of a lock is a task inside a send, and from `StreamTables` that a stream not yet
  used has no task. Fairness is not mapped; `SendsReturn` is checked instead.
* `TunnelClientProofs`: `OpenStreamsRegistered`, `NoAnswerIsMissed`, `NoStreamIsLeaked`. `CallInv` ties the await of
  each `create_stream` to the stream, its future and its answer; `OnlyWhileUp` says that `_streams` has entries only
  while the tunnel is up or some `disconnect()` is still before its clearing of `_streams`. The first is about one
  stream and the second about the tasks that may tear down together; from both, a stream that is waited for or
  handed out is one that the read loop or a teardown will reach.
* `TunnelPoolProofs`: `DownIsSupervised`, `TasksDialAlone`, `OldBatchesAreClosed`, `StopLeavesNothing`. The invariant has
  a part on flags, list and tasks (`GlobalInv`), one on each tunnel by its batch (`TunnelInv`), one on each place of
  the list with its reconnect task and the result of its dial (`SlotInv`), and one on a shutdown that overtook no
  `connect()` (`StopInv`). That a task of an old batch cannot touch a new one rests on the numbering of batches.
* `SessionProofs`: `OriginalIsKept` for any overlap of coroutines, since a step sets the system proxy, restores it,
  or leaves it alone; `GuardHolds`: no loop and no guard, or one loop that holds it (`GuardInv`), where each coroutine's move
  either keeps its part in this or changes the guard with it.
* `FramingProofs`: `BufferIsBounded`, for any sizes of frames and reads and any threshold. What the parser leaves is less
  than a frame, as it waits for no length a frame cannot have, and the parsed part before it is dropped in time.
  `FramesDoArrive` proves `FramesArrive`. `ArrivalInv` divides the wire by marks: between two of them lies a frame of the
  bytes its stream was given next, a command that is not known, or an impossible header (`OnWire`); the read loop has parsed
  up to one of the marks, its buffer is what follows (`ReadTo`); and what a stream still has to send is the rest of what it
  was given, in payloads that fit a frame (`Pieces`). `UnpackLaid` is the central lemma: between two marks `unpack_frame` finds
  nothing while the piece is incomplete and then exactly that piece. The marks are a witness in the invariant, no variable.
  `WriterTypeCorrect` and `DrainsExclude` are about `FrameWriter` for any tasks, assuming that `Nobody` is none.
* `RouterProofs`, the breaker. `BlocksAreEarned` needs to know where `failures` come from: `MemoryOK` says that they are
  an end of `streak`, all failures since the last success, that `streak` is in the order of the clock, and that each block
  is already earned by it. For `FailuresDoBlock`, which proves `FailuresBlock`, it says too what became of the part of `streak` that
  is no longer in `failures` (`Settled`): it is too old to count, was evicted, or is paid for by a block that lasts at least a
  cooldown longer than each of its failures. Then pruning what is older than the window leaves an end again (`WithinProperties`), and a block
  that is set rests on failures which are all in the window. The file is held to the same (`disk`), as a restart
  makes memory of it. `BreakerTypeCorrect` includes that the addresses remembered are finitely many, at most
  `MaxEntries`, which is why the eviction always finds somebody to forget. `CleanIsSaved` proves `CleanMeansSaved`.
* `RouterProofs`, the router. `RouterUsesBreaker` is the refinement `SafeSpec => BreakerSpec`: each of a handler's moves is one
  of the breaker's operations, or leaves it alone, so what is proved of the breaker holds in the client. `RouterTypeCorrect`
  keeps both caches within their limits through pruning, expiry and restart. `DeadIsRefused` proves
  `DeadNotDialled` from `FailuresBlock` and the refinement: a dial is entered only behind a breaker that is asked in the same
  step, also after a lookup, and what it answers is tied to the failures that all calls recorded.
* `RouterProofs`, the streams. `StreamIsIntact` and `BufferIsAccounted` prove `NothingLost` and `BufferAccounting` from
  `StreamInv`: the bytes handed out, the leftover and the queue are three runs of consecutive bytes (`Run`) that adjoin,
  so that every operation moves the border between two of them; what `_buffered_bytes` counts is the
  length of the last two.
* `RuleEngineProofs`, the table. `RebuildIsExact`: whatever finite set of networks a table is rebuilt from, its intervals are
  apart and `contains` finds in it what a scan of the networks would. Sorting gives each interval once and in order (`Ranked`),
  one more interval of those in order keeps the table apart and adds its addresses to it (`Merge`), a network is an
  interval (`NetworkIsInterval`), and of intervals apart only the one that bisection picks can hold the address (`Covers`).
  `TablesAreExact` is `IntervalsExact`, the property of the run.
* `RuleEngineProofs`, the rules. `KeptRulesDecide`, `BestRuleWins` and `RestartFindsRules` for any rules, addresses and
  edits. `EngineIsPublished` says of which version the engine's two lists are at each of the three assignments of
  `replace_rules`; `RequestIsOfWindow` says that what a handler has read of them is of a version that was current
  since it began. Both lists are sorted in every version, so the first match is a best one.
* `RelayProofs`. `UploadIsIntact` proves `UpIntact` for any number of reads. While the writer is open, `WriterOpen` tells from
  the places of the tasks how many of its items are on the wire; once it is closed, `WriterClosed` says that all of them are,
  or that someone else ended the stream, or that no CLOSE can follow.

Induction over a sequence or a count, where a proof needs it, is by minimal counterexample: `MinOfNaturals` (a set of
numbers that is not empty has a least one) follows from the library's theorem on well-founded relations, which has no
operator parameter, and serves for `Within`, `MergedUpTo` and the sorted lists.

Only model-checked: everything temporal, as liveness under fairness is out of the prover's reach. Each invariant of
the passing runs is proved, and so are the action properties.

## What the code does not keep

One run ends in a violation: in `stream_tail` `_feed` tests `stream.closed` before each read, so the tail of a stream that is
closed before the feeder has moved it is lost (`router.py:95`), against the comment at `tunnel.py:97-99` and the
test `test_stream_close_drains_data_received_before_eof`.

A passing run shows what the code does where a document says otherwise:

* `TECHNICAL.md:128-129` names a TLS reject as a trigger that blocks an address at once ("Blocks after first TLS reject; timeout
  requires 3 failures"). `record_tls_reject` only counts, as its own comment says (`circuit_breaker.py:97-105`), and a connection
  that was refused counts as one that timed out. `BlockIsEarned` and `FailuresBlock` state the code's rule, that only failed dials
  block and the threshold's number of them does.
* `TECHNICAL.md:118-122` ranks rules as exact name, wildcard, CIDR, default. Among the rules for names the code ranks by the number
  of the priority only (`rule_engine.py:108`), and the editor lets the user give any number, so a wildcard can decide over the exact
  name; `rules` has such a table (`www.cn` with 0 beside `*.cn` with 1). `HighestPriorityWins` states the code's rule.
* `_teardown` is to "Stop proxy + pool" (`main_window.py:524`). It awaits `proxy.stop()` before it disconnects the pool. On Python 3.12
  and later, which `README.md:35` allows, that waits for every handler (`http_proxy.py:45`), and the handler of an idle CONNECT ends only
  with its stream or its application. A disconnect click then emits no signal, the button stays disabled and the pool
  connected. This is the exception in `ButtonComesBack`, whose second disjunct has no other cause; on older versions of
  Python `wait_closed()` does not wait for handlers.

Seen while modelling and not stated as a property of a run:

* Server: after its pending buffer overflowed, later DATA of the stream is buffered again and flushed behind the gap
  (`tunnel_server.py:231-237`, against the order promised at `forward_proxy.py:263-266`); CONNECTs in flight are not counted by
  the admission check, so more relays than `max_connections` go live (`forward_proxy.py:204`); a task cancelled while
  sending CONNECT_OK leaves its target connection open (`forward_proxy.py:261`); a stream closed by a deferred CLOSE
  keeps its finished task in `active_streams` (`tunnel_server.py:87-91`); a stream the server drops is not announced to
  its client (the exception in `OpenIsServed`).
* Tunnel: a CLOSE read together with the CONNECT_OK makes an accepted target look rejected (`tunnel.py:375`).
* Pool: the teardown inside `connect()` can leave `_down_notified` set, so that a later all-down transition is
  announced to nobody (`tunnel.py:689`); `disconnect()` does not take `_connect_lock`, so a `connect()` it overtakes
  leaves a connected batch behind (`tunnel.py:613`).
* Stream: the unbounded `StreamReader` behind `_feed` defeats the cap of `TunnelStream`.
* Requests: the grace time of a handler starts only when one of its relay tasks has ended, so an application that stays
  connected without reading holds the handler of an ended stream with no limit; an application that closes
  its sending side ends the response too, after the grace time.
* Router and breaker: a rejected host's expiry is counted from before the attempt, which may take longer than
  the TTL (`router.py:306`); a stream's success is credited to the address its name has when it ends
  (`router.py:164`); what was recorded since the last throttled save is lost at exit, and a success alone is never
  saved (`circuit_breaker.py:91, 148`).
* Rules: `match_explicit` reads its two lists one after the other and may take the domain rules of one version and the IP
  rules of the next, although the comment calls it a single consistent snapshot (`rule_engine.py:150`), so only
  `KeptRuleDecides` is a property; saving from the editor enables disabled rules, as it does not pass `enabled` on
  (`rule_editor.py:254-288`); the built-in `*.*.cn` and `*.*.*.cn` match no host, as only the first star is special
  (`rule_engine.py:301`), which `*.cn` makes harmless.
* GeoIP: `contains` compares an IPv6 address as a number with IPv4 intervals (`geoip.py:75`).
* Session: the tray's entry can start a second connect while one is starting, whose late `failed` then clears
  `_running` of the first (`main_window.py:722`); an exit while a session is starting can stop the loop with the
  system proxy set (`main_window.py:839`); after a crash the program's own proxy setting is taken for the
  user's (`system_proxy.py:23`).

## Not modelled, and why

* DNS, TLS and TCP beyond success, failure and loss: libraries. The contents and expiry of the server's DNS cache: a
  hit and a miss are choices; the client's cache is in `Router`.
* The payloads of AUTH and CONNECT (`pack_auth`, `pack_connect`) and the parsing of HTTP requests: straight-line
  conversions of strings, which end in a target or an error answer; a model would repeat them.
* A `connect()` of the pool that begins during its `disconnect()`: the window makes a new pool for each session, so this takes overlapping
  connects. A value of the registry's opened key that cannot be read (`system_proxy.py:24-27`).
* Two CONNECTs for one stream id, and the wraparound of ids: no client sends 2^32 streams through one tunnel.
* The pool's choice of a tunnel for a stream changes only where the search starts next.
* `add_*`, `remove_*`, `clear_rules` and `evaluate*` of the rule engine, `load_china_ip_list` and
  `_TunnelStreamReader.close`: no part of the program calls them. The built-in rules and the China list are data.
* Qt widgets other than the connect button, logging, statistics, configuration files, TLS contexts and the entry
  points have no protocol of their own.

## Plan

The plan is done: the writer's contract, the server, streams, tunnels, pool, router, breaker, session, wire, rules
and requests are modelled and checked, and their safety is proved. What could follow:

1. The composition of `Relay` with the server's relay of the same stream, over a lossless tunnel: end-to-end order and the
   propagation of CLOSE in both directions.
2. The handlers of a proxy as `Relay` has them, in `Session`, where `HandlersEnd` is a choice.
3. Safety parts of the liveness properties as theorems: who holds the write lock can leave it, who waits has a waker.
