------------------------------ MODULE Session -------------------------------
(* The session of the client's window: MainWindow in client/gui/main_window  *)
(* .py with HttpConnectProxy.start and stop and WindowsSystemProxy.  The GUI *)
(* thread handles clicks, the signals the other thread queued for it, and    *)
(* the exit; the event loop runs the coroutines it was given, several at a   *)
(* time.  The k-th connect makes pool k and proxy k; of a pool only what the *)
(* window sees of it is here.  The setting that the system proxy is to be    *)
(* set automatically is on, as it is by default.                             *)
EXTENDS Integers, Sequences, FiniteSets

CONSTANTS MaxTasks,    \* bound: coroutines at a time
          MaxConnects, \* bound: sessions started
          MaxEvents,   \* bound: clicks on connect or disconnect, in the window or the tray,
                       \* and times a pool has lost all its tunnels, together
          MaxAttempts, \* attempts of _auto_reconnect: 5
          Used         \* bound: proxies whose applications keep connections open

ASSUME SessionAssumption ==
    /\ {MaxTasks, MaxConnects, MaxEvents} \subseteq Nat
    /\ MaxAttempts \in Nat \ {0} /\ Used \subseteq 1..MaxConnects

VARIABLES
    running, reconnecting,  \* the flags of MainWindow
    pool, proxy,            \* _pool and _proxy: their number, or 0
    task,                   \* the coroutines and the await each is at
    alive,                  \* pools that have, or had and redial, a connected tunnel
    started,                \* proxies that have a server
    port,                   \* the proxy that listens, or 0
    registry, original,     \* the system proxy's two values: user's, vpn's or one of each
                            \* (mixed); and _original_values
    busy,                   \* proxies that were closed and have handlers that have not ended
    signals,                \* status_changed signals not yet delivered
    enabled,                \* the connect button
    exit,                   \* no; waiting: for the last disconnect; stopped
    made, events            \* counters of the bounds

flags == <<running, reconnecting>>
objects == <<pool, proxy, alive, started, port>>
windows == <<registry, original>>
gui == <<enabled, exit, made>>
outside == <<busy, events>>
vars == <<flags, objects, windows, gui, task, signals, outside>>

Ids == 1..MaxConnects
Tasks == 1..MaxTasks
Statuses == {"connecting", "connected", "reconnecting", "disconnected", "failed"}
Idle == [at |-> "idle"]
TaskStates == [at: {"idle"}]
         \cup [kind: {"connect"}, at: {"start", "dialling", "binding"}, obj: Ids]
         \cup [kind: {"disconnect", "auto"}, at: {"start"}]
         \cup [kind: {"auto"}, at: {"sleeping"}, n: 1..MaxAttempts]
         \cup [kind: {"auto"}, at: {"redialling"}, n: 1..MaxAttempts, obj: Ids]
         \cup [kind: {"connect", "disconnect", "auto"}, at: {"closing"}, obj: Ids]
         \cup [kind: {"connect", "disconnect", "auto"}, at: {"dropping"}]
Settings == {"user", "vpn", "mixed"}

TypeOK ==
    /\ running \in BOOLEAN /\ reconnecting \in BOOLEAN
    /\ {pool, proxy, port} \subseteq Ids \cup {0}
    /\ task \in [Tasks -> TaskStates]
    /\ alive \subseteq Ids /\ started \subseteq Ids /\ port \in started \cup {0}
    /\ registry \in Settings /\ original \in Settings \cup {"none"} /\ busy \subseteq Ids
    /\ signals \in Seq(Statuses)
    /\ enabled \in BOOLEAN /\ exit \in {"no", "waiting", "stopped"}
    /\ made \in 0..MaxConnects /\ events \in 0..MaxEvents

Init ==
    /\ running = FALSE /\ reconnecting = FALSE
    /\ pool = 0 /\ proxy = 0 /\ port = 0 /\ started = {} /\ alive = {}
    /\ task = [t \in Tasks |-> Idle]
    /\ registry = "user" /\ original = "none" /\ busy = {}
    /\ signals = <<>> /\ enabled = TRUE /\ exit = "no"
    /\ made = 0 /\ events = 0
----------------------------------------------------------------------------
(* Parts of the coroutines of the event loop.                                *)

At(t, kind, at) == task[t].at = at /\ task[t].kind = kind /\ exit # "stopped"
Goes(t, s) == task' = [task EXCEPT ![t] = s]

\* The place of a new coroutine.
Free(t) == task[t] = Idle /\ \A s \in Tasks : s < t => task[s] # Idle

Emit(s) == signals' = signals \o s

\* Mutant: the values are recorded again although they are known.
EnableAgain ==
    \/ original' = registry /\ registry' = "vpn"
    \/ UNCHANGED windows

\* One value of two is written, or both were this way.
Half(own) == IF registry = own THEN own ELSE "mixed"

\* WindowsSystemProxy.enable: the user's values are recorded the first time, then both are
\* written.  Windows may refuse to open the key, or either write, here and in restore.
Enable ==
    \/ /\ original' = IF original = "none" THEN registry ELSE original
       /\ registry' \in {registry, Half("vpn"), "vpn"}
    \/ UNCHANGED windows

\* WindowsSystemProxy.restore: the values are forgotten after both were written.
Restore ==
    \/ original = "none" /\ UNCHANGED windows
    \/ original # "none" /\ registry' = original /\ original' = "none"
    \/ original # "none" /\ registry' \in {registry, Half(original), original} /\ UNCHANGED original

\* What each coroutine does after its teardown.
Farewell(kind) ==
    CASE kind = "connect"    -> <<"failed">>
      [] kind = "disconnect" -> <<"disconnected">>
      [] kind = "auto"       -> <<"disconnected", "failed">>

\* Mutant: an exhausted reconnect leaves the guard set.
FinishGuarded(t, kind) ==
    /\ Goes(t, Idle) /\ Emit(Farewell(kind))
    /\ UNCHANGED reconnecting

Finish(t, kind) ==
    /\ Goes(t, Idle) /\ Emit(Farewell(kind))
    /\ reconnecting' = (reconnecting /\ kind # "auto")

\* _teardown, its second half: disconnect the pool there is.
DropPool(t, kind) ==
    IF pool = 0 THEN Finish(t, kind) /\ UNCHANGED alive
    ELSE /\ Goes(t, [kind |-> kind, at |-> "dropping"])
         /\ alive' = alive \ {pool}
         /\ UNCHANGED <<reconnecting, signals>>

\* A server is closed; its port is free, and applications may have connections open.
CloseServer ==
    /\ port' = IF port = proxy THEN 0 ELSE port
    /\ busy' \in {busy, IF port = proxy THEN busy \cup ({proxy} \cap Used) ELSE busy}

\* _teardown, up to its first await: a proxy with a server closes it and waits for the end
\* of its connections.
Teardown(t, kind) ==
    /\ UNCHANGED <<pool, started>>
    /\ IF proxy \in started
       THEN /\ Goes(t, [kind |-> kind, at |-> "closing", obj |-> proxy])
            /\ CloseServer
            /\ UNCHANGED <<proxy, alive, reconnecting, signals>>
       ELSE proxy' = 0 /\ DropPool(t, kind) /\ UNCHANGED <<port, busy>>

\* What a teardown may have to wait for: wait_closed returns when the last connection ends.
\* Before Python 3.12 it returns at once, as if no proxy were busy.
Held(t) == task[t].at = "closing" /\ task[t].obj \in busy

\* HttpConnectProxy.stop returns.
Stopped(t) == \E kind \in {"connect", "disconnect", "auto"} :
    /\ At(t, kind, "closing") /\ ~Held(t)
    /\ proxy' = 0
    /\ DropPool(t, kind)
    /\ UNCHANGED <<pool, started, port, running, windows, gui, outside>>

\* TunnelPool.disconnect returns.
Dropped(t) == \E kind \in {"connect", "disconnect", "auto"} :
    /\ At(t, kind, "dropping")
    /\ pool' = 0
    /\ Finish(t, kind)
    /\ UNCHANGED <<proxy, alive, started, port, running, windows, gui, outside>>
----------------------------------------------------------------------------
(* _connect_async                                                            *)

ConnectStarts(t) ==
    /\ At(t, "connect", "start")
    /\ Emit(<<"connecting">>)
    /\ pool' = task[t].obj
    /\ Goes(t, [task[t] EXCEPT !.at = "dialling"])
    /\ UNCHANGED <<proxy, alive, started, port, flags, windows, gui, outside>>

\* pool.connect() has connected a tunnel.
ConnectDialled(t) ==
    /\ At(t, "connect", "dialling")
    /\ proxy' = task[t].obj
    /\ alive' = alive \cup {task[t].obj}
    /\ Goes(t, [task[t] EXCEPT !.at = "binding"])
    /\ UNCHANGED <<pool, started, port, flags, windows, gui, signals, outside>>

\* Mutant: the failure is not reported.
ConnectFailsMute(t) ==
    /\ At(t, "connect", "dialling")
    /\ Goes(t, Idle)
    /\ UNCHANGED <<objects, flags, windows, gui, signals, outside>>

\* It has not; its redials go on until the teardown ends them.
ConnectFails(t) ==
    /\ At(t, "connect", "dialling")
    /\ Teardown(t, "connect")
    /\ UNCHANGED <<running, windows, gui, events>>

\* start_server has bound the port.
Bound(t) ==
    /\ At(t, "connect", "binding") /\ port = 0
    /\ port' = task[t].obj /\ started' = started \cup {task[t].obj}
    /\ Enable
    /\ running' = TRUE
    /\ Emit(<<"connected">>)
    /\ Goes(t, Idle)
    /\ UNCHANGED <<pool, proxy, alive, reconnecting, gui, outside>>

\* The port is in use, by this program or another.
BindFails(t) ==
    /\ At(t, "connect", "binding")
    /\ Teardown(t, "connect")
    /\ UNCHANGED <<running, windows, gui, events>>

\* _disconnect_async
DisconnectStarts(t) ==
    /\ At(t, "disconnect", "start")
    /\ running' = FALSE
    /\ Restore
    /\ Teardown(t, "disconnect")
    /\ UNCHANGED <<gui, events>>
----------------------------------------------------------------------------
(* _auto_reconnect                                                           *)

AutoReturns(t) == Goes(t, Idle) /\ reconnecting' = FALSE /\ UNCHANGED <<running, signals>>

AutoSleeps(t, n) ==
    /\ Emit(<<"reconnecting">>)
    /\ Goes(t, [kind |-> "auto", at |-> "sleeping", n |-> n])

AutoStarts(t) ==
    /\ At(t, "auto", "start")
    /\ IF running /\ ~reconnecting
       THEN reconnecting' = TRUE /\ AutoSleeps(t, 1)
       ELSE Goes(t, Idle) /\ UNCHANGED <<reconnecting, signals>>
    /\ UNCHANGED <<objects, running, windows, gui, outside>>

\* The loop ends with a disconnect after the last attempt, and at once without a session.
NextAttempt(t, n) ==
    \/ n = MaxAttempts /\ running' = FALSE /\ Restore /\ Teardown(t, "auto")
    \/ /\ n < MaxAttempts
       /\ UNCHANGED <<objects, windows, busy>>
       /\ IF running THEN AutoSleeps(t, n + 1) /\ UNCHANGED flags ELSE AutoReturns(t)

\* The sleep is over; the pool is connected again, whose tunnels are closed first.
AutoWakes(t) ==
    /\ At(t, "auto", "sleeping")
    /\ \/ ~running /\ AutoReturns(t) /\ UNCHANGED <<objects, windows, busy>>
       \/ running /\ pool = 0 /\ NextAttempt(t, task[t].n)
       \/ /\ running /\ pool # 0
          /\ Goes(t, [kind |-> "auto", at |-> "redialling", n |-> task[t].n, obj |-> pool])
          /\ alive' = alive \ {pool}
          /\ UNCHANGED <<pool, proxy, started, port, windows, flags, signals, busy>>
    /\ UNCHANGED <<gui, events>>

AutoRedialled(t) ==
    /\ At(t, "auto", "redialling")
    /\ alive' = alive \cup {task[t].obj}
    /\ Emit(<<"connected">>)
    /\ Goes(t, Idle) /\ reconnecting' = FALSE
    /\ UNCHANGED <<pool, proxy, started, port, running, windows, gui, outside>>

AutoFails(t) ==
    /\ At(t, "auto", "redialling")
    /\ NextAttempt(t, task[t].n)
    /\ UNCHANGED <<gui, events>>

\* The pool that a call of pool.connect() is at work on.
Dialled(k) == \E t \in Tasks : task[t].at \in {"dialling", "redialling"} /\ task[t].obj = k

\* A pool has lost its last tunnel and calls back, within a dial too; it may since have
\* redialled one itself.
Loss(k, t) ==
    /\ exit # "stopped" /\ (k \in alive \/ Dialled(k)) /\ Free(t) /\ events < MaxEvents
    /\ events' = events + 1
    /\ Goes(t, [kind |-> "auto", at |-> "start"])
    /\ UNCHANGED <<objects, flags, windows, gui, signals, busy>>
----------------------------------------------------------------------------
(* The applications that use a proxy.  Nothing makes them end a connection.  *)

\* The last handler of a closed proxy has ended.
HandlersEnd(k) ==
    /\ exit # "stopped" /\ k \in busy
    /\ busy' = busy \ {k}
    /\ UNCHANGED <<objects, flags, windows, gui, task, signals, events>>
----------------------------------------------------------------------------
(* The GUI thread.                                                           *)

\* _toggle_connection.  The entry of the tray's menu is never disabled.
Toggle(t) ==
    /\ exit = "no" /\ Free(t) /\ events < MaxEvents
    /\ events' = events + 1 /\ enabled' = FALSE
    /\ IF running
       THEN Goes(t, [kind |-> "disconnect", at |-> "start"]) /\ UNCHANGED made
       ELSE /\ made < MaxConnects /\ made' = made + 1
            /\ Goes(t, [kind |-> "connect", at |-> "start", obj |-> made + 1])
    /\ UNCHANGED <<objects, flags, windows, signals, exit, busy>>

\* _on_status_changed
Deliver ==
    /\ exit = "no" /\ signals # <<>>
    /\ signals' = Tail(signals)
    /\ enabled' = (Head(signals) # "connecting")
    /\ running' = (running /\ Head(signals) \notin {"disconnected", "failed"})
    /\ UNCHANGED <<objects, reconnecting, task, windows, exit, made, outside>>

Live == running \/ proxy # 0 \/ pool # 0

\* _stop_async_loop cancels all coroutines, handlers too; a reconnect loop lets go of its
\* guard.  Signals find no receiver any more.
Stop ==
    /\ busy' = {}
    /\ exit' = "stopped" /\ signals' = <<>>
    /\ reconnecting' = FALSE /\ task' = [t \in Tasks |-> Idle]

\* _cleanup: a last disconnect if anything is live, for which the thread waits.
Quit(t) ==
    /\ exit = "no" /\ Free(t)
    /\ IF Live
       THEN /\ exit' = "waiting" /\ Goes(t, [kind |-> "disconnect", at |-> "start"])
            /\ UNCHANGED <<reconnecting, signals, busy>>
       ELSE Stop
    /\ UNCHANGED <<objects, running, windows, enabled, made, events>>

\* The disconnect is done, or 3 s are over, in which it has at least begun.
LoopStops ==
    /\ exit = "waiting" /\ \A t \in Tasks : ~At(t, "disconnect", "start")
    /\ Stop
    /\ UNCHANGED <<objects, running, windows, enabled, made, events>>
----------------------------------------------------------------------------
Step(t) ==
    \/ ConnectStarts(t) \/ ConnectDialled(t) \/ ConnectFails(t) \/ Bound(t) \/ BindFails(t)
    \/ DisconnectStarts(t) \/ Stopped(t) \/ Dropped(t)
    \/ AutoStarts(t) \/ AutoWakes(t) \/ AutoRedialled(t) \/ AutoFails(t)

Next ==
    \/ Deliver \/ LoopStops
    \/ \E t \in Tasks : Step(t) \/ Toggle(t) \/ Quit(t)
    \/ \E k \in Ids : HandlersEnd(k) \/ \E t \in Tasks : Loss(k, t)

SafeSpec == Init /\ [][Next]_vars

\* Coroutines run and what they await ends, but for the connections of applications; signals
\* are delivered, and the exit waits for 3 s.
Spec == SafeSpec /\ WF_vars(Deliver) /\ WF_vars(LoopStops) /\ \A t \in Tasks : WF_vars(Step(t))
----------------------------------------------------------------------------
\* Whatever connects, disconnects and failures came before, the values recorded for the end
\* are the user's own, and they are there as long as a value of the system proxy is the
\* program's (system_proxy.py:22-28, 39-54).
OriginalKept == original \in {"none", "user"} /\ (registry # "user" => original = "user")

\* The guard is held exactly while a reconnect loop is at work, and there is only one
\* (main_window.py:490-494, 520-521): all-down events cannot pile up loops, and no course of
\* events leaves the guard set, after which nothing would ever reconnect.
ReconnectGuard ==
    LET loops == {t \in Tasks : task[t] # Idle /\ task[t].kind = "auto" /\ task[t].at # "start"}
    IN  Cardinality(loops) = IF reconnecting THEN 1 ELSE 0

\* A disabled connect button is enabled again: every click is answered by a signal, unless
\* some teardown waits for ever for an application to end its connection.
ButtonComesBack ==
    \/ ~enabled ~> enabled \/ exit # "no"
    \/ <>[](\E t \in Tasks : Held(t))
=============================================================================
