---------------------------- MODULE TunnelServer ----------------------------
(* The server: TunnelServer (server/tunnel_server.py) with its ForwardProxy  *)
(* and ForwardRelays (server/forward_proxy.py).  Each client has one tunnel, *)
(* read by a _handle_client loop; each stream has a task that connects to    *)
(* the target (_handle_connect) and then relays it back                      *)
(* (relay_target_to_tunnel).  All run on one asyncio loop, so what lies      *)
(* between two awaits is one action; every await is a control state, where   *)
(* the other tasks, the peers, the timeouts and cancellation may interleave. *)
EXTENDS Integers, Sequences, FiniteSets

CONSTANTS
    Clients,         \* client connections (client_id)
    Streams,         \* stream ids a client uses on its connection
    MaxConnections,  \* config max_connections: semaphore size and relay limit
    MaxPending,      \* MAX_PENDING_BYTES, in frames
    MaxData,         \* bound: DATA frames a client sends on a stream
    MaxDown,         \* bound: chunks a target sends on a stream
    Pong,            \* the read loop as a sender on the tunnel
    None

\* _make_key packs (client_id, stream_id) in one integer; a stream id has 32 bits
\* on the wire, so the packing is injective and a key is a pair.
Keys == Clients \X Streams
Own(c) == {c} \X Streams

ASSUME MaxConnectionsAssumption == MaxConnections \in Nat \ {0}
ASSUME BoundsAssumption == MaxPending \in Nat /\ MaxData \in Nat /\ MaxDown \in Nat
ASSUME SendersAssumption == Pong \notin Keys /\ None \notin Keys /\ Pong # None

VARIABLES
    running,    \* _running, cleared by stop()
    reader,     \* reader[c]: the await where c's _handle_client loop is
    at,         \* at[c]: the stream that await is about, else None
    todo,       \* todo[c]: what is left of the snapshot the cleanup iterates over
    conn,       \* conn[c]: the tunnel's transport
    stalled,    \* clients that have stopped reading their tunnel
    holder,     \* holder[c]: who is inside c's write lock
    active,     \* the keys of all active_streams
    deferred,   \* the keys in all deferred_close
    pending,    \* pending[k]: DATA buffered while the CONNECT is pending
    relays,     \* the keys of _active_relays
    permits,    \* free permits of _semaphore
    task,       \* task[k]: the await where the stream's task is
    cancelled,  \* tasks with a cancellation to be delivered
    socket,     \* socket[k]: the target connection, as this code opened or closed it
    client,     \* client[k]: what the frames received so far say of the stream
    sent,       \* sent[k]: DATA frames received, numbered 1, 2, ...
    toTarget,   \* toTarget[k]: the DATA frames written to the target
    toClient,   \* toClient[k]: the frames of the stream written to the tunnel
    dropped  \* history: streams given up for a full buffer or a slow target

loopVars   == <<reader, at, todo>>
tunnelVars == <<conn, stalled, holder>>
tableVars  == <<active, deferred, pending, relays>>
taskVars   == <<permits, task, cancelled, socket>>
wireVars   == <<client, sent, toTarget, toClient, dropped>>
vars == <<running, loopVars, tunnelVars, tableVars, taskVars, wireVars>>

\* Where a stream's task awaits: ok, fail and failtcp send the answer to the CONNECT
\* (failtcp inside the semaphore), rsend and rclose send DATA and CLOSE.
Connecting == {"start", "dns", "sem", "tcp", "ok", "fail", "failtcp"}
Permitted  == {"tcp", "ok", "failtcp"}          \* inside "async with _semaphore"
Sending    == {"ok", "fail", "failtcp", "rsend", "rclose"}
Relaying   == {"relay", "rsend", "rclose"}      \* in relay_target_to_tunnel
Live       == Connecting \cup {"flush"} \cup Relaying
Frames     == {"OK", "FAIL", "DATA", "CLOSE"}

FrameOf(state) == CASE state = "ok" -> "OK"
                    [] state \in {"fail", "failtcp"} -> "FAIL"
                    [] state = "rsend" -> "DATA"
                    [] OTHER -> "CLOSE"

TypeOK ==
    /\ running \in BOOLEAN
    /\ reader \in [Clients -> {"auth", "read", "drain", "pong", "clean", "await", "gone"}]
    /\ at \in [Clients -> Keys \cup {None}]
    /\ todo \in [Clients -> SUBSET Keys]
    /\ conn \in [Clients -> {"open", "closing", "lost"}]
    /\ stalled \in SUBSET Clients
    /\ holder \in [Clients -> Keys \cup {Pong, None}]
    /\ \A c \in Clients : /\ todo[c] \subseteq Own(c)
                          /\ at[c] \in Own(c) \cup {None}
                          /\ reader[c] \in {"drain", "await"} <=> at[c] # None
                          /\ holder[c] = Pong => reader[c] = "pong"
    /\ active \in SUBSET Keys /\ deferred \in SUBSET Keys /\ relays \in SUBSET Keys
    /\ pending \in [Keys -> Seq(Nat)]
    /\ permits \in Nat
    /\ task \in [Keys -> Live \cup {"none", "done"}]
    /\ cancelled \in SUBSET Keys
    /\ socket \in [Keys -> {"none", "open", "closed"}]
    /\ client \in [Keys -> {"unused", "open", "closed"}]
    /\ sent \in [Keys -> Nat]
    /\ toTarget \in [Keys -> Seq(Nat)]
    /\ toClient \in [Keys -> Seq(Frames)]
    /\ dropped \in SUBSET Keys

Init ==
    /\ running = TRUE
    /\ reader = [c \in Clients |-> "auth"]
    /\ at = [c \in Clients |-> None]
    /\ todo = [c \in Clients |-> {}]
    /\ conn = [c \in Clients |-> "open"]
    /\ stalled = {}
    /\ holder = [c \in Clients |-> None]
    /\ active = {} /\ deferred = {} /\ relays = {} /\ cancelled = {} /\ dropped = {}
    /\ pending = [k \in Keys |-> <<>>]
    /\ permits = MaxConnections
    /\ task = [k \in Keys |-> "none"]
    /\ socket = [k \in Keys |-> "none"]
    /\ client = [k \in Keys |-> "unused"]
    /\ sent = [k \in Keys |-> 0]
    /\ toTarget = [k \in Keys |-> <<>>]
    /\ toClient = [k \in Keys |-> <<>>]

Goto(k, state) == task' = [task EXCEPT ![k] = state]

\* ForwardRelay.close on the relays of the streams S: the target writer is closed.
CloseSockets(S) == socket' = [k \in Keys |-> IF k \in S /\ socket[k] = "open"
                                             THEN "closed" ELSE socket[k]]

\* Mutant: the relay is closed but stays registered.
RemoveRelayKeepsEntry(k) == UNCHANGED relays /\ CloseSockets({k} \cap relays)

\* ForwardProxy.remove_relay: deregister the relay, if there is one, and close it.
RemoveRelay(k) == relays' = relays \ {k} /\ CloseSockets({k} \cap relays)

\* Mutant: the task is popped and not cancelled.
PopTaskUncancelled(k) == active' = active \ {k} /\ UNCHANGED cancelled

\* Pop the stream's task from active_streams and cancel it unless it is done.
PopTask(k) ==
    /\ active' = active \ {k}
    /\ cancelled' = IF k \in active /\ task[k] # "done" THEN cancelled \cup {k} ELSE cancelled
----------------------------------------------------------------------------
(* The read loop of client c: one action for each frame it takes.  Frames of *)
(* a stream arrive in the order the client sent them: CONNECT, DATA, CLOSE.  *)

\* The first frame is AUTH with the right PSK, and is answered.
Authenticate(c) ==
    /\ reader[c] = "auth"
    /\ reader' = [reader EXCEPT ![c] = "read"]
    /\ UNCHANGED <<running, at, todo, tunnelVars, tableVars, taskVars, wireVars>>

\* The loop ends: EOF, idle timeout, a connection error, a failed authentication,
\* or _running found cleared.  "finally" takes its snapshot of active_streams.
ReadEnd(c) ==
    /\ reader[c] \in {"auth", "read"}
    /\ reader' = [reader EXCEPT ![c] = "clean"]
    /\ todo' = [todo EXCEPT ![c] = active \cap Own(c)]
    /\ UNCHANGED <<running, at, tunnelVars, tableVars, taskVars, wireVars>>

RecvConnect(k) ==
    /\ reader[k[1]] = "read" /\ client[k] = "unused"
    /\ client' = [client EXCEPT ![k] = "open"]
    /\ active' = active \cup {k}
    /\ Goto(k, "start")
    /\ UNCHANGED <<running, loopVars, tunnelVars, deferred, pending, relays, permits,
                   cancelled, socket, sent, toTarget, toClient, dropped>>

\* DATA is written to the relay (and drained), buffered while the CONNECT is pending,
\* or dropped.  A buffer that would exceed MaxPending is thrown away instead, and a
\* close deferred.
RecvData(k) ==
    /\ reader[k[1]] = "read" /\ client[k] = "open" /\ sent[k] < MaxData
    /\ sent' = [sent EXCEPT ![k] = @ + 1]
    /\ \/ /\ k \in relays
          /\ toTarget' = [toTarget EXCEPT ![k] = Append(@, sent'[k])]
          /\ reader' = [reader EXCEPT ![k[1]] = "drain"]
          /\ at' = [at EXCEPT ![k[1]] = k]
          /\ UNCHANGED <<pending, deferred, dropped>>
       \/ /\ k \notin relays /\ k \in active
          /\ IF Len(pending[k]) < MaxPending
             THEN /\ pending' = [pending EXCEPT ![k] = Append(@, sent'[k])]
                  /\ UNCHANGED <<deferred, dropped>>
             ELSE /\ pending' = [pending EXCEPT ![k] = <<>>]
                  /\ deferred' = deferred \cup {k}
                  /\ dropped' = dropped \cup {k}
          /\ UNCHANGED <<reader, at, toTarget>>
       \/ /\ k \notin relays \cup active
          /\ UNCHANGED <<reader, at, pending, deferred, toTarget, dropped>>
    /\ UNCHANGED <<running, todo, tunnelVars, active, relays, taskVars, client, toClient>>

\* The drain of the target ends, because the target reads or its connection fails.
TargetDrained(c) ==
    /\ reader[c] = "drain"
    /\ reader' = [reader EXCEPT ![c] = "read"]
    /\ at' = [at EXCEPT ![c] = None]
    /\ UNCHANGED <<running, todo, tunnelVars, tableVars, taskVars, wireVars>>

\* The drain of the target exceeds DRAIN_TIMEOUT: the stream is dropped.
TargetStalled(c) ==
    /\ reader[c] = "drain"
    /\ RemoveRelay(at[c]) /\ PopTask(at[c])
    /\ reader' = [reader EXCEPT ![c] = "read"]
    /\ at' = [at EXCEPT ![c] = None]
    /\ dropped' = dropped \cup {at[c]}
    /\ UNCHANGED <<running, todo, tunnelVars, deferred, pending, permits, task,
                   client, sent, toTarget, toClient>>

\* Mutant: a CLOSE during the CONNECT is not deferred.
RecvCloseForgets(k) ==
    /\ reader[k[1]] = "read" /\ client[k] = "open"
    /\ client' = [client EXCEPT ![k] = "closed"]
    /\ \/ k \in relays /\ RemoveRelay(k) /\ PopTask(k) /\ pending' = [pending EXCEPT ![k] = <<>>]
       \/ k \notin relays /\ UNCHANGED <<active, pending, relays, cancelled, socket>>
    /\ UNCHANGED <<running, loopVars, tunnelVars, deferred, permits, task, sent, toTarget,
                   toClient, dropped>>

\* CLOSE tears the relay down, or is deferred while the CONNECT is pending.
RecvClose(k) ==
    /\ reader[k[1]] = "read" /\ client[k] = "open"
    /\ client' = [client EXCEPT ![k] = "closed"]
    /\ \/ /\ k \in relays
          /\ RemoveRelay(k) /\ PopTask(k)
          /\ pending' = [pending EXCEPT ![k] = <<>>]
          /\ UNCHANGED deferred
       \/ /\ k \notin relays
          /\ deferred' = IF k \in active THEN deferred \cup {k} ELSE deferred
          /\ UNCHANGED <<active, pending, relays, cancelled, socket>>
    /\ UNCHANGED <<running, loopVars, tunnelVars, permits, task, sent, toTarget,
                   toClient, dropped>>

\* PING: the loop itself sends the PONG through the locked, bounded path.
RecvPing(c) ==
    /\ reader[c] = "read"
    /\ reader' = [reader EXCEPT ![c] = "pong"]
    /\ UNCHANGED <<running, at, todo, tunnelVars, tableVars, taskVars, wireVars>>

\* CLEANUP: the streams of the snapshot, one by one; a live task is cancelled and awaited.
CleanNext(c) ==
    /\ reader[c] = "clean"
    /\ \E k \in todo[c] :
          /\ todo' = [todo EXCEPT ![c] = @ \ {k}]
          /\ RemoveRelay(k) /\ PopTask(k)
          /\ IF k \in active /\ task[k] # "done"
             THEN /\ reader' = [reader EXCEPT ![c] = "await"]
                  /\ at' = [at EXCEPT ![c] = k]
             ELSE UNCHANGED <<reader, at>>
    /\ UNCHANGED <<running, tunnelVars, deferred, pending, permits, task, wireVars>>

CleanAwaited(c) ==
    /\ reader[c] = "await" /\ task[at[c]] = "done"
    /\ reader' = [reader EXCEPT ![c] = "clean"]
    /\ at' = [at EXCEPT ![c] = None]
    /\ UNCHANGED <<running, todo, tunnelVars, tableVars, taskVars, wireVars>>

\* Mutant: the deferred closes outlive the connection.
CleanDoneKeepsDeferred(c) ==
    /\ reader[c] = "clean" /\ todo[c] = {}
    /\ reader' = [reader EXCEPT ![c] = "gone"]
    /\ pending' = [k \in Keys |-> IF k[1] = c THEN <<>> ELSE pending[k]]
    /\ conn' = [conn EXCEPT ![c] = IF @ = "open" THEN "closing" ELSE @]
    /\ UNCHANGED <<running, at, todo, stalled, holder, active, deferred, relays, taskVars,
                   wireVars>>

\* The tables go with the connection, and the writer is closed.
CleanDone(c) ==
    /\ reader[c] = "clean" /\ todo[c] = {}
    /\ reader' = [reader EXCEPT ![c] = "gone"]
    /\ pending' = [k \in Keys |-> IF k[1] = c THEN <<>> ELSE pending[k]]
    /\ deferred' = deferred \ Own(c)
    /\ conn' = [conn EXCEPT ![c] = IF @ = "open" THEN "closing" ELSE @]
    /\ UNCHANGED <<running, at, todo, stalled, holder, active, relays, taskVars, wireVars>>
----------------------------------------------------------------------------
(* send_frame_locked on c's tunnel: sender p is granted the lock and writes  *)
(* its frame; the drain ends with success, with the DRAIN_TIMEOUT that       *)
(* closes the writer, or with the error of a lost connection.                *)

\* Mutant: the frame is written without waiting for the lock.
TakeLockAtOnce(c, p) == holder[c] # p /\ holder' = [holder EXCEPT ![c] = p]

TakeLock(c, p) == holder[c] = None /\ holder' = [holder EXCEPT ![c] = p]

\* Mutant: a drain that fails leaves the lock locked.
DrainEndsLocked(c, ok) ==
    /\ ok <=> conn[c] # "lost" /\ c \notin stalled
    /\ conn' = [conn EXCEPT ![c] = IF ok \/ @ = "lost" THEN @ ELSE "closing"]
    /\ holder' = [holder EXCEPT ![c] = IF ok THEN None ELSE @]
    /\ UNCHANGED stalled

DrainEnds(c, ok) ==
    /\ ok <=> conn[c] # "lost" /\ c \notin stalled
    /\ conn' = [conn EXCEPT ![c] = IF ok \/ @ = "lost" THEN @ ELSE "closing"]
    /\ holder' = [holder EXCEPT ![c] = None]
    /\ UNCHANGED stalled

\* A transport that is closing discards what is written to it.
TaskTakesLock(k) ==
    /\ task[k] \in Sending /\ k \notin cancelled
    /\ TakeLock(k[1], k)
    /\ toClient' = IF conn[k[1]] = "open"
                   THEN [toClient EXCEPT ![k] = Append(@, FrameOf(task[k]))] ELSE toClient
    /\ UNCHANGED <<running, loopVars, conn, stalled, tableVars, taskVars,
                   client, sent, toTarget, dropped>>

LoopTakesLock(c) ==
    /\ reader[c] = "pong" /\ TakeLock(c, Pong)
    /\ UNCHANGED <<running, loopVars, conn, stalled, tableVars, taskVars, wireVars>>

\* Sent or not, the loop reads on: "break" leaves only the loop over the frames.
PongSent(c) ==
    /\ holder[c] = Pong
    /\ \E ok \in BOOLEAN : DrainEnds(c, ok)
    /\ reader' = [reader EXCEPT ![c] = "read"]
    /\ UNCHANGED <<running, at, todo, tableVars, taskVars, wireVars>>

\* The drain of stream task k, running and in one of the given states, ends.
Sent(k, states, ok) ==
    /\ task[k] \in states /\ holder[k[1]] = k /\ k \notin cancelled
    /\ DrainEnds(k[1], ok)
----------------------------------------------------------------------------
(* The task of stream k: connect_target.                                     *)

Running(k, state) == task[k] = state /\ k \notin cancelled

\* Admission control, then the DNS cache: a hit skips the resolver.
Start(k) ==
    /\ Running(k, "start")
    /\ IF Cardinality(relays) >= MaxConnections
       THEN Goto(k, "fail")
       ELSE \E hit \in BOOLEAN : Goto(k, IF hit THEN "sem" ELSE "dns")
    /\ UNCHANGED <<running, loopVars, tunnelVars, tableVars, permits, cancelled, socket,
                   wireVars>>

\* The resolver answers; refuses the address, fails or exceeds DNS_TIMEOUT; or raises an
\* error that nobody catches (a name that is no host name), which ends the task at once.
Resolve(k) ==
    /\ Running(k, "dns")
    /\ \E next \in {"sem", "fail", "done"} : Goto(k, next)
    /\ UNCHANGED <<running, loopVars, tunnelVars, tableVars, permits, cancelled, socket,
                   wireVars>>

TakePermit(k) ==
    /\ Running(k, "sem") /\ permits > 0
    /\ permits' = permits - 1
    /\ Goto(k, "tcp")
    /\ UNCHANGED <<running, loopVars, tunnelVars, tableVars, cancelled, socket, wireVars>>

\* Mutant: the relay is registered as soon as the target is connected.
TcpConnectRegisters(k) ==
    /\ Running(k, "tcp")
    /\ \E ok \in BOOLEAN :
          /\ Goto(k, IF ok THEN "ok" ELSE "failtcp")
          /\ socket' = [socket EXCEPT ![k] = IF ok THEN "open" ELSE @]
          /\ relays' = IF ok THEN relays \cup {k} ELSE relays
    /\ UNCHANGED <<running, loopVars, tunnelVars, active, deferred, pending, permits,
                   cancelled, wireVars>>

\* open_connection succeeds, fails, or exceeds CONNECT_TIMEOUT.
TcpConnect(k) ==
    /\ Running(k, "tcp")
    /\ \E ok \in BOOLEAN :
          /\ Goto(k, IF ok THEN "ok" ELSE "failtcp")
          /\ socket' = [socket EXCEPT ![k] = IF ok THEN "open" ELSE @]
    /\ UNCHANGED <<running, loopVars, tunnelVars, tableVars, permits, cancelled, wireVars>>

\* Mutant: a connect that failed keeps its permit.
FailSentKeepsPermit(k) ==
    /\ \E ok \in BOOLEAN : Sent(k, {"fail", "failtcp"}, ok)
    /\ Goto(k, "done")
    /\ active' = active \ {k} /\ deferred' = deferred \ {k}
    /\ pending' = [pending EXCEPT ![k] = <<>>]
    /\ UNCHANGED <<running, loopVars, relays, permits, cancelled, socket, wireVars>>

\* A refused CONNECT was answered, or could not be: the stream is forgotten.
FailSent(k) ==
    /\ \E ok \in BOOLEAN : Sent(k, {"fail", "failtcp"}, ok)
    /\ permits' = IF task[k] \in Permitted THEN permits + 1 ELSE permits
    /\ Goto(k, "done")
    /\ active' = active \ {k}
    /\ pending' = [pending EXCEPT ![k] = <<>>]
    /\ deferred' = deferred \ {k}
    /\ UNCHANGED <<running, loopVars, relays, cancelled, socket, wireVars>>

\* After the flush: a deferred CLOSE takes the relay down, else relaying begins.
AfterFlush(k, registered) ==
    IF k \in deferred
    THEN /\ Goto(k, "done")
         /\ deferred' = deferred \ {k}
         /\ relays' = registered \ {k}
         /\ CloseSockets({k})
         /\ UNCHANGED active
    ELSE /\ Goto(k, "relay")
         /\ active' = active \cup {k}
         /\ relays' = registered
         /\ UNCHANGED <<deferred, socket>>

\* CONNECT_OK was sent (or could not be: the result is ignored): the relay is registered,
\* the permit returned, and the buffered DATA written to the target in order.
RegisterRelay(k) ==
    /\ \E ok \in BOOLEAN : Sent(k, {"ok"}, ok)
    /\ permits' = permits + 1
    /\ pending' = [pending EXCEPT ![k] = <<>>]
    /\ toTarget' = [toTarget EXCEPT ![k] = @ \o pending[k]]
    /\ IF pending[k] = <<>>
       THEN AfterFlush(k, relays \cup {k})
       ELSE /\ relays' = relays \cup {k}
            /\ Goto(k, "flush")
            /\ UNCHANGED <<active, deferred, socket>>
    /\ UNCHANGED <<running, loopVars, cancelled, client, sent, toClient, dropped>>

\* The target took the flushed bytes, or the drain failed; there is no timeout here.
Flushed(k) ==
    /\ Running(k, "flush")
    /\ AfterFlush(k, relays)
    /\ UNCHANGED <<running, loopVars, tunnelVars, pending, permits, cancelled, wireVars>>
----------------------------------------------------------------------------
(* The task of stream k: relay_target_to_tunnel.                             *)

\* _on_stream_done and ForwardRelay.close, when the relay's task ends.
RelayDone(k) ==
    /\ Goto(k, "done")
    /\ relays' = relays \ {k}
    /\ active' = active \ {k}
    /\ CloseSockets({k})

TargetData(k) ==
    /\ Running(k, "relay") /\ Len(SelectSeq(toClient[k], LAMBDA f : f = "DATA")) < MaxDown
    /\ Goto(k, "rsend")
    /\ UNCHANGED <<running, loopVars, tunnelVars, tableVars, permits, cancelled, socket,
                   wireVars>>

\* Mutant: the relay ends without a CLOSE.
TargetEndSilent(k) ==
    /\ Running(k, "relay") /\ RelayDone(k)
    /\ UNCHANGED <<running, loopVars, tunnelVars, deferred, pending, permits, cancelled,
                   wireVars>>

\* EOF or an error of the target connection, which a closed socket reports too.
TargetEnd(k) ==
    /\ Running(k, "relay")
    /\ Goto(k, "rclose")
    /\ UNCHANGED <<running, loopVars, tunnelVars, tableVars, permits, cancelled, socket,
                   wireVars>>

\* A chunk was sent: read on while the relay is _active; a failed send ends the relay.
ChunkSent(k) ==
    /\ \E ok \in BOOLEAN :
          /\ Sent(k, {"rsend"}, ok)
          /\ IF ok /\ socket[k] = "open"
             THEN Goto(k, "relay") /\ UNCHANGED <<relays, active, socket>>
             ELSE RelayDone(k)
    /\ UNCHANGED <<running, loopVars, deferred, pending, permits, cancelled, wireVars>>

\* Mutant: the relay goes on after the CLOSE.
CloseSentRelays(k) ==
    /\ \E ok \in BOOLEAN : Sent(k, {"rclose"}, ok)
    /\ Goto(k, "relay")
    /\ UNCHANGED <<running, loopVars, tableVars, permits, cancelled, socket, wireVars>>

CloseSent(k) ==
    /\ \E ok \in BOOLEAN : Sent(k, {"rclose"}, ok)
    /\ RelayDone(k)
    /\ UNCHANGED <<running, loopVars, deferred, pending, permits, cancelled, wireVars>>

\* Mutant: cancellation inside the semaphore loses the permit.
CancelledKeepsPermit(k) ==
    /\ k \in cancelled /\ task[k] \in Live
    /\ holder' = [holder EXCEPT ![k[1]] = IF @ = k THEN None ELSE @]
    /\ IF task[k] \in {"relay", "rsend"}
       THEN RelayDone(k)
       ELSE Goto(k, "done") /\ UNCHANGED <<relays, active, socket>>
    /\ cancelled' = cancelled \ {k}
    /\ UNCHANGED <<running, loopVars, conn, stalled, deferred, pending, permits, wireVars>>

\* CancelledError reaches the task at its await.  The lock and the semaphore are released
\* by their "async with"; a relay runs its "finally", except the part after the CLOSE it
\* was sending.  connect_target has no handler: a target it had opened stays open.
Cancelled(k) ==
    /\ k \in cancelled /\ task[k] \in Live
    /\ holder' = [holder EXCEPT ![k[1]] = IF @ = k THEN None ELSE @]
    /\ permits' = IF task[k] \in Permitted THEN permits + 1 ELSE permits
    /\ IF task[k] \in {"relay", "rsend"}
       THEN RelayDone(k)
       ELSE Goto(k, "done") /\ UNCHANGED <<relays, active, socket>>
    /\ cancelled' = cancelled \ {k}
    /\ UNCHANGED <<running, loopVars, conn, stalled, deferred, pending, wireVars>>
----------------------------------------------------------------------------
(* The environment and stop().                                               *)

PeerStalls(c) ==
    /\ stalled' = IF c \in stalled THEN stalled \ {c} ELSE stalled \cup {c}
    /\ UNCHANGED <<running, loopVars, conn, holder, tableVars, taskVars, wireVars>>

ConnLost(c) ==
    /\ conn[c] # "lost" /\ conn' = [conn EXCEPT ![c] = "lost"]
    /\ UNCHANGED <<running, loopVars, stalled, holder, tableVars, taskVars, wireVars>>

Stop ==
    /\ running /\ running' = FALSE
    /\ UNCHANGED <<loopVars, tunnelVars, tableVars, taskVars, wireVars>>

\* close_all, at the end of stop(): it may come before the loops have ended.
CloseAll ==
    /\ ~running /\ relays # {}
    /\ relays' = {} /\ CloseSockets(relays)
    /\ UNCHANGED <<running, loopVars, tunnelVars, active, deferred, pending, permits, task,
                   cancelled, wireVars>>
----------------------------------------------------------------------------
Reader(c) ==
    \/ Authenticate(c) \/ ReadEnd(c) \/ RecvPing(c) \/ LoopTakesLock(c) \/ PongSent(c)
    \/ TargetDrained(c) \/ TargetStalled(c)
    \/ CleanNext(c) \/ CleanAwaited(c) \/ CleanDone(c)

Frame(k) == RecvConnect(k) \/ RecvData(k) \/ RecvClose(k)

Task(k) ==
    \/ Start(k) \/ Resolve(k) \/ TakePermit(k) \/ TcpConnect(k)
    \/ TaskTakesLock(k) \/ FailSent(k) \/ RegisterRelay(k) \/ Flushed(k)
    \/ TargetData(k) \/ TargetEnd(k) \/ ChunkSent(k) \/ CloseSent(k) \/ Cancelled(k)

Environment(c) == PeerStalls(c) \/ ConnLost(c)

Next ==
    \/ \E c \in Clients : Reader(c) \/ Environment(c)
    \/ \E k \in Keys : Frame(k) \/ Task(k)
    \/ Stop \/ CloseAll

SafeSpec == Init /\ [][Next]_vars

\* What the event loop and the timeouts guarantee.  A ready task runs, and every await that
\* has a timeout ends; asyncio's Lock and Semaphore serve their waiters in order.  Nothing
\* makes a client send a frame, a target send data or end, or a target read the bytes of
\* an untimed flush.  Once its connection is closed or
\* stop() was called, the loop takes the finitely many frames it has read and then ends.
TaskFairness(k) ==
    /\ WF_vars(Start(k)) /\ WF_vars(Resolve(k)) /\ WF_vars(TcpConnect(k))
    /\ SF_vars(TakePermit(k)) /\ SF_vars(TaskTakesLock(k))
    /\ WF_vars(FailSent(k)) /\ WF_vars(RegisterRelay(k))
    /\ WF_vars(ChunkSent(k)) /\ WF_vars(CloseSent(k)) /\ WF_vars(Cancelled(k))
    /\ WF_vars(socket[k] = "closed" /\ TargetEnd(k))

ReaderFairness(c) ==
    /\ SF_vars((conn[c] # "open" \/ ~running) /\ ReadEnd(c))
    /\ SF_vars(LoopTakesLock(c)) /\ WF_vars(PongSent(c))
    /\ WF_vars(TargetDrained(c) \/ TargetStalled(c))
    /\ WF_vars(CleanNext(c)) /\ WF_vars(CleanAwaited(c)) /\ WF_vars(CleanDone(c))

Fairness == /\ \A k \in Keys : TaskFairness(k)
            /\ \A c \in Clients : ReaderFairness(c)

Spec == SafeSpec /\ Fairness
----------------------------------------------------------------------------
(* What the server promises.                                                 *)

\* The bytes of a stream reach the target in the order the client sent them, none twice,
\* and none missing in between unless its pending buffer dropped: what was written and
\* what is buffered is 1, 2, ..., n.  This is why a relay is registered only after
\* CONNECT_OK was sent (forward_proxy.py:263-267).
InOrderDelivery == \A k \in Keys :
    LET bytes == toTarget[k] \o pending[k] IN
    /\ \A i, j \in DOMAIN bytes : i < j => bytes[i] < bytes[j]
    /\ k \notin dropped => \A i \in DOMAIN bytes : bytes[i] = i

\* A registered relay is in use: its target is open, its task is past the CONNECT, can
\* still be found and cancelled through active_streams, and no DATA is left behind it.
RelayBacked == \A k \in relays :
    /\ socket[k] = "open" /\ task[k] \in Relaying \cup {"flush"}
    /\ k \in active /\ k \notin cancelled
    /\ pending[k] = <<>>

\* The permits of the semaphore are conserved over timeouts, failures and cancellations:
\* at most max_connections connects are under way and no permit is ever lost.
PermitsConserved ==
    permits + Cardinality({k \in Keys : task[k] \in Permitted}) = MaxConnections

\* What a client sees of a stream is one answer to its CONNECT, and after CONNECT_OK
\* data with at most one CLOSE, which is last.
FrameGrammar == \A k \in Keys : \A i \in DOMAIN toClient[k] :
    /\ toClient[k][i] \in {"OK", "FAIL"} <=> i = 1
    /\ toClient[k][i] \in {"FAIL", "CLOSE"} => i = Len(toClient[k])

\* When the read loop of a client has ended, nothing of the client is left in any table, and
\* no task of it lives on that is not about to be cancelled.
GoneIsClean == \A c \in Clients : reader[c] = "gone" =>
    \A k \in Own(c) :
       /\ k \notin active \cup relays \cup deferred /\ pending[k] = <<>>
       /\ task[k] \in Live => k \in cancelled

\* A stream the client takes for open is served: after CONNECT_OK, as long as neither side
\* sent CLOSE, the tunnel is open and the server is up, its task relays.  The exception are
\* the streams the server gives up itself, of which it tells nobody (lines 221-238).
OpenIsServed == \A k \in Keys :
    /\ running /\ conn[k[1]] = "open" /\ reader[k[1]] \in {"read", "drain", "pong"}
    /\ toClient[k] # <<>> /\ toClient[k][Len(toClient[k])] \in {"OK", "DATA"}
    /\ client[k] = "open" /\ k \notin dropped
    => task[k] \in Relaying \cup {"ok", "flush"}

\* The writes to each tunnel keep the contract of FrameWriter: one drain at a time, a lock
\* that every end of a send releases, a connection closed by the drain that timed out.
FW(c) == INSTANCE FrameWriter WITH
    Senders <- Own(c) \cup {Pong},
    sender  <- [p \in Own(c) \cup {Pong} |->
                  IF holder[c] = p THEN "draining"
                  ELSE IF p = Pong THEN (IF reader[c] = "pong" THEN "waiting" ELSE "idle")
                  ELSE IF task[p] \in Sending THEN "waiting" ELSE "idle"],
    holder  <- holder[c], conn <- conn[c], stalled <- (c \in stalled)
WriterContract ==   \* \A c \in Clients : FW(c)!SafeSpec, in a form TLC takes
    /\ \A c \in Clients : FW(c)!Init
    /\ [][\A c \in Clients : [FW(c)!Next]_(FW(c)!vars)]_vars

\* Every CONNECT is answered or given up, even when the tunnels of other clients, whose
\* connects hold permits, are stalled.
ConnectSettles == \A k \in Keys : task[k] \in Connecting ~> task[k] \notin Connecting

\* A CLOSE ends the stream's task, also when it was deferred, unless the target does not
\* take the flushed bytes.
CloseHonoured == \A k \in Keys : client[k] = "closed" ~> task[k] \in {"done", "flush"}

\* A tunnel that is closed or lost, or belongs to a server that stops, is cleaned up.
CleanupEnds == \A c \in Clients : conn[c] # "open" \/ ~running ~> reader[c] = "gone"

\* No send blocks for ever, so PING is answered or the tunnel closed (tunnel_server.py:183).
SendsReturn == \A c \in Clients : FW(c)!SendReturns
=============================================================================
