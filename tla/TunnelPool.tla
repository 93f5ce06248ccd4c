----------------------------- MODULE TunnelPool -----------------------------
(* The client's connection pool: TunnelPool in client/core/tunnel.py, with   *)
(* connect and disconnect of its TunnelClients reduced to the awaits at      *)
(* which they interleave with the pool.  connect() builds a new batch of     *)
(* tunnels each time it is called; a lost tunnel has a background task that  *)
(* reconnects it, and the pool's owner is told when all tunnels are down.    *)
(* The owner (gui/main_window.py) calls disconnect() at most once, possibly  *)
(* while a connect() of its auto-reconnect is running, and nothing after it. *)
EXTENDS Integers, Sequences

CONSTANTS PoolSize,     \* pool_size
          MaxBatches    \* bound: calls of connect()

ASSUME PoolAssumption == PoolSize \in Nat \ {0} /\ MaxBatches \in Nat \ {0}

Index   == 1..PoolSize
Tunnels == 1..(PoolSize * MaxBatches)      \* _pool_index of every TunnelClient made

VARIABLES
    running,        \* _running
    tunnels,        \* _tunnels
    link,           \* link[t]: the connection of tunnel t; dropping: in t.disconnect()
    reconnect,      \* reconnect[i]: where _reconnect_tasks[i] is, none when there is none
    notified,       \* _down_notified
    connecting,     \* where connect() is
    results,        \* results[t]: what t.connect() returned to connect()
    disconnecting,  \* where disconnect() is
    closing,        \* tunnels whose disconnect connect() or disconnect() awaits
    batches,        \* how often connect() was called
    raced           \* history: disconnect() was called while connect() was running

vars == <<running, tunnels, link, reconnect, notified, connecting, results, disconnecting,
          closing, batches, raced>>

Members == {tunnels[i] : i \in DOMAIN tunnels}
Batch(b) == [i \in Index |-> (b - 1) * PoolSize + i]

TypeOK ==
    /\ running \in BOOLEAN /\ notified \in BOOLEAN /\ raced \in BOOLEAN
    /\ tunnels \in {<<>>} \cup {Batch(b) : b \in 1..MaxBatches}
    /\ link \in [Tunnels -> {"new", "opening", "up", "dropping", "down"}]
    /\ reconnect \in [Index -> {"none", "check", "sleep", "dial"}]
    /\ connecting \in {"idle", "teardown", "dial"}
    /\ results \in [Tunnels -> {"none", "ok", "failed"}]
    /\ disconnecting \in {"never", "teardown", "done"}
    /\ closing \in SUBSET Tunnels
    /\ batches \in 0..MaxBatches
    /\ connecting = "teardown" => tunnels = <<>>

Init ==
    /\ running = FALSE /\ notified = FALSE /\ raced = FALSE
    /\ tunnels = <<>>
    /\ link = [t \in Tunnels |-> "new"]
    /\ reconnect = [i \in Index |-> "none"]
    /\ connecting = "idle" /\ disconnecting = "never" /\ closing = {} /\ batches = 0
    /\ results = [t \in Tunnels |-> "none"]

\* Mutant: the reconnect tasks are not cancelled.
CancelNothing == UNCHANGED <<reconnect, link>>

\* Mutant: the tasks are dropped from the table and run on.
CancelDropsTable == reconnect' = [i \in Index |-> "none"] /\ UNCHANGED link

\* Cancel all reconnect tasks; a t.connect() under way in one of them is aborted.
CancelReconnects ==
    /\ reconnect' = [i \in Index |-> "none"]
    /\ link' = [t \in Tunnels |->
                 IF \E i \in DOMAIN tunnels : tunnels[i] = t /\ reconnect[i] = "dial"
                 THEN "down" ELSE link[t]]
----------------------------------------------------------------------------
(* connect().                                                                *)

NewBatch(b) ==
    /\ tunnels' = Batch(b)
    /\ link' = [t \in Tunnels |-> IF \E i \in Index : Batch(b)[i] = t
                                  THEN "opening" ELSE link[t]]
    /\ connecting' = "dial"

\* Mutant: the old batch is abandoned and not torn down.
ConnectAbandons ==
    /\ connecting = "idle" /\ disconnecting = "never" /\ batches < MaxBatches
    /\ running' = TRUE /\ notified' = FALSE /\ batches' = batches + 1
    /\ \/ tunnels = <<>> /\ NewBatch(batches') /\ UNCHANGED reconnect
       \/ /\ tunnels # <<>> /\ CancelReconnects
          /\ tunnels' = <<>> /\ connecting' = "teardown"
    /\ UNCHANGED <<closing, results, disconnecting, raced>>

\* The old batch is abandoned and torn down; with none there is nothing to await.
Connect ==
    /\ connecting = "idle" /\ disconnecting = "never" /\ batches < MaxBatches
    /\ running' = TRUE /\ notified' = FALSE
    /\ batches' = batches + 1
    /\ \/ /\ tunnels = <<>>
          /\ NewBatch(batches')
          /\ UNCHANGED <<reconnect, closing>>
       \/ /\ tunnels # <<>>
          /\ CancelReconnects
          /\ closing' = Members
          /\ tunnels' = <<>>
          /\ connecting' = "teardown"
    /\ UNCHANGED <<results, disconnecting, raced>>

Build ==
    /\ connecting = "teardown" /\ closing = {}
    /\ NewBatch(batches)
    /\ UNCHANGED <<running, reconnect, notified, results, disconnecting, closing, batches, raced>>

\* t.connect() returns: the tunnel is authenticated, or it failed or timed out.
Dialled(t, ok) ==
    /\ link[t] = "opening" /\ results[t] = "none"
    /\ link' = [link EXCEPT ![t] = IF ok THEN "up" ELSE "down"]
    /\ results' = [results EXCEPT ![t] = IF ok THEN "ok" ELSE "failed"]
    /\ UNCHANGED <<running, tunnels, reconnect, notified, connecting, disconnecting,
                   closing, batches, raced>>

\* All have returned: the failed ones are retried in the background.
Connected ==
    /\ connecting = "dial" /\ \A i \in Index : results[Batch(batches)[i]] # "none"
    /\ reconnect' = [i \in Index |->
                      IF results[Batch(batches)[i]] = "failed" /\ reconnect[i] = "none"
                      THEN "check" ELSE reconnect[i]]
    /\ connecting' = "idle"
    /\ UNCHANGED <<running, tunnels, link, notified, results, disconnecting, closing,
                   batches, raced>>
----------------------------------------------------------------------------
(* A tunnel goes down.                                                       *)

\* Mutant: a lost tunnel gets no reconnect task.
OnTunnelLostTellsOnly(t) ==
    LET tell == running /\ ~notified /\ \A m \in Members \ {t} : link[m] # "up" IN
    /\ UNCHANGED reconnect
    /\ notified' = (notified \/ tell)

\* _on_tunnel_lost, the callback of tunnel t, whose link is no longer up.
OnTunnelLost(t) ==
    LET tell == running /\ ~notified /\ \A m \in Members \ {t} : link[m] # "up" IN
    /\ reconnect' = [i \in Index |->
                      IF running /\ i \in DOMAIN tunnels /\ tunnels[i] = t
                         /\ reconnect[i] = "none"
                      THEN "check" ELSE reconnect[i]]
    /\ notified' = (notified \/ tell)

\* The read loop or the health check starts t.disconnect().
Lose(t) ==
    /\ link[t] = "up" /\ link' = [link EXCEPT ![t] = "dropping"]
    /\ UNCHANGED <<running, tunnels, reconnect, notified, connecting, results,
                   disconnecting, closing, batches, raced>>

Lost(t) ==
    /\ link[t] = "dropping" /\ link' = [link EXCEPT ![t] = "down"]
    /\ OnTunnelLost(t)
    /\ UNCHANGED <<running, tunnels, connecting, results, disconnecting, closing,
                   batches, raced>>

\* t.disconnect(), awaited by connect() or disconnect(): it waits for a t.disconnect()
\* already begun by a task of t, and reports the tunnel lost once more.  It takes no lock: a
\* t.connect() under way fails if its socket exists already, and goes on if not.
Closed(t) ==
    /\ t \in closing /\ link[t] # "dropping"
    /\ closing' = closing \ {t}
    /\ \/ /\ link[t] = "opening"
          /\ UNCHANGED <<link, results>>
       \/ /\ link' = [link EXCEPT ![t] = "down"]
          /\ results' = [results EXCEPT ![t] = IF @ = "none" THEN "failed" ELSE @]
    /\ OnTunnelLost(t)
    /\ UNCHANGED <<running, tunnels, connecting, disconnecting, batches, raced>>
----------------------------------------------------------------------------
(* _reconnect_one(i).                                                        *)

Check(i) ==
    /\ reconnect[i] = "check"
    /\ reconnect' = [reconnect EXCEPT ![i] =
                      IF running /\ i \in DOMAIN tunnels /\ link[tunnels[i]] # "up"
                      THEN "sleep" ELSE "none"]
    /\ UNCHANGED <<running, tunnels, link, notified, connecting, results, disconnecting,
                   closing, batches, raced>>

\* The delay is over: disconnect() cancels the task, so the pool is still running.
Wake(i) ==
    /\ reconnect[i] = "sleep"
    /\ reconnect' = [reconnect EXCEPT ![i] = "dial"]
    /\ link' = [link EXCEPT ![tunnels[i]] = "opening"]
    /\ UNCHANGED <<running, tunnels, notified, connecting, results, disconnecting,
                   closing, batches, raced>>

\* Mutant: the task gives up after one failed attempt.
RedialledOnce(i, ok) ==
    /\ reconnect[i] = "dial"
    /\ link' = [link EXCEPT ![tunnels[i]] = IF ok THEN "up" ELSE "down"]
    /\ reconnect' = [reconnect EXCEPT ![i] = "none"]
    /\ notified' = (notified /\ ~ok)
    /\ UNCHANGED <<running, tunnels, connecting, results, disconnecting, closing,
                   batches, raced>>

Redialled(i, ok) ==
    /\ reconnect[i] = "dial"
    /\ link' = [link EXCEPT ![tunnels[i]] = IF ok THEN "up" ELSE "down"]
    /\ reconnect' = [reconnect EXCEPT ![i] = IF ok THEN "none" ELSE "check"]
    /\ notified' = (notified /\ ~ok)
    /\ UNCHANGED <<running, tunnels, connecting, results, disconnecting, closing,
                   batches, raced>>
----------------------------------------------------------------------------
(* disconnect().                                                             *)

\* With no tunnels in the list, as inside connect(), there is nothing to await.
Disconnect ==
    /\ disconnecting = "never" /\ batches > 0
    /\ running' = FALSE
    /\ CancelReconnects
    /\ closing' = closing \cup Members
    /\ disconnecting' = IF tunnels = <<>> THEN "done" ELSE "teardown"
    /\ raced' = (connecting # "idle")
    /\ UNCHANGED <<tunnels, notified, connecting, results, batches>>

\* The list is cleared and the owner told.
Disconnected ==
    /\ disconnecting = "teardown" /\ closing \cap Members = {}
    /\ disconnecting' = "done"
    /\ tunnels' = <<>>
    /\ UNCHANGED <<running, link, reconnect, notified, connecting, results, closing,
                   batches, raced>>
----------------------------------------------------------------------------
Next ==
    \/ Connect \/ Build \/ Connected \/ Disconnect \/ Disconnected
    \/ \E t \in Tunnels : Lose(t) \/ Lost(t) \/ Closed(t) \/ Dialled(t, TRUE) \/ Dialled(t, FALSE)
    \/ \E i \in Index : Check(i) \/ Wake(i) \/ Redialled(i, TRUE) \/ Redialled(i, FALSE)

SafeSpec == Init /\ [][Next]_vars

\* Callbacks run, timeouts end every attempt, delays pass; and the server, tried again and
\* again, is reached at some time.  Nothing makes the owner call, or a tunnel get lost.
Fairness ==
    /\ WF_vars(Build) /\ WF_vars(Connected) /\ WF_vars(Disconnected)
    /\ \A t \in Tunnels : /\ WF_vars(Lost(t)) /\ WF_vars(Closed(t))
                          /\ WF_vars(Dialled(t, TRUE) \/ Dialled(t, FALSE))
    /\ \A i \in Index : /\ WF_vars(Check(i)) /\ WF_vars(Wake(i))
                        /\ WF_vars(Redialled(i, TRUE) \/ Redialled(i, FALSE))
                        /\ SF_vars(Redialled(i, TRUE))

Spec == SafeSpec /\ Fairness
----------------------------------------------------------------------------
\* Every tunnel of a running pool that is down has a task that reconnects it, however losses,
\* failed attempts and rebuilds of the pool interleave ("each tunnel auto-reconnects
\* independently on failure", tunnel.py:522-523).
Supervised == running /\ connecting = "idle" =>
    \A i \in DOMAIN tunnels : link[tunnels[i]] = "down" => reconnect[i] # "none"

\* A task that dials owns the connection attempt: nobody else opens the same tunnel.
DialsAlone == \A i \in Index : reconnect[i] \in {"sleep", "dial"} =>
    /\ i \in DOMAIN tunnels
    /\ link[tunnels[i]] = IF reconnect[i] = "dial" THEN "opening" ELSE "down"

\* Rebuilding the pool leaves nothing of an earlier batch connected (tunnel.py:565-567).
OldBatchesClosed == connecting # "teardown" =>
    \A t \in Tunnels : t <= (batches - 1) * PoolSize => link[t] \in {"new", "down"}

\* disconnect() closes every tunnel and stops every task, unless it overtakes a connect().
StopIsComplete == disconnecting = "done" /\ ~raced =>
    /\ \A t \in Tunnels : link[t] \in {"new", "down"}
    /\ \A i \in Index : reconnect[i] = "none"

\* A tunnel of a running pool comes up again.
Recovers == \A i \in Index :
    running /\ connecting = "idle" ~> ~running \/ connecting # "idle" \/ link[tunnels[i]] = "up"
=============================================================================
