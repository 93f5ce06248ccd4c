---------------------------- MODULE FrameWriter ----------------------------
(* The contract of a shared tunnel writer: several tasks send frames on one  *)
(* TLS connection through send_frame_locked (server/forward_proxy.py), which *)
(* takes the write lock, writes the frame, and drains for at most            *)
(* DRAIN_TIMEOUT.  A drain that times out closes the writer.  Time is        *)
(* abstracted: a drain returns when the peer reads and times out when the    *)
(* peer does not.                                                            *)
CONSTANTS Senders,   \* the tasks that share the writer
          None       \* the lock is free

VARIABLES sender,    \* sender[p]: where task p is in send_frame_locked
          holder,    \* the task inside "async with write_lock", or None
          conn,      \* the transport: open, closing (close() called), or lost
          stalled    \* the peer has stopped reading

vars == <<sender, holder, conn, stalled>>

TypeOK ==
    /\ sender \in [Senders -> {"idle", "waiting", "draining"}]
    /\ holder \in Senders \cup {None}
    /\ conn \in {"open", "closing", "lost"}
    /\ stalled \in BOOLEAN

Init ==
    /\ sender = [p \in Senders |-> "idle"]
    /\ holder = None
    /\ conn = "open"
    /\ stalled = FALSE

\* A task calls send_frame_locked and queues for the lock.
Request(p) ==
    /\ sender[p] = "idle"
    /\ sender' = [sender EXCEPT ![p] = "waiting"]
    /\ UNCHANGED <<holder, conn, stalled>>

\* The lock is granted: the frame is handed to the transport, the drain begins.
Acquire(p) ==
    /\ sender[p] = "waiting" /\ holder = None
    /\ sender' = [sender EXCEPT ![p] = "draining"]
    /\ holder' = p
    /\ UNCHANGED <<conn, stalled>>

Release(p) ==
    /\ sender[p] = "draining"
    /\ sender' = [sender EXCEPT ![p] = "idle"]
    /\ holder' = None
    /\ UNCHANGED stalled

\* The send buffer went below the low-water mark: send_frame_locked returns True.
Drained(p) == Release(p) /\ ~stalled /\ conn # "lost" /\ UNCHANGED conn

\* The wait_for around drain() expired: the writer is closed, False is returned.
DrainTimeout(p) == Release(p) /\ stalled /\ conn # "lost" /\ conn' = "closing"

\* drain() raises because the connection is gone: False is returned.
DrainError(p) == Release(p) /\ conn = "lost" /\ UNCHANGED conn

DrainEnds(p) == Drained(p) \/ DrainTimeout(p) \/ DrainError(p)

\* The task is cancelled while it waits for the lock or drains: the lock, when it
\* holds it, is released by "async with"; the connection is left as it is.
Cancel(p) ==
    /\ sender[p] # "idle"
    /\ sender' = [sender EXCEPT ![p] = "idle"]
    /\ holder' = IF holder = p THEN None ELSE holder
    /\ UNCHANGED <<conn, stalled>>

\* The owner of the connection closes the writer.
CloseWriter ==
    /\ conn = "open" /\ conn' = "closing"
    /\ UNCHANGED <<sender, holder, stalled>>

\* The transport reports connection_lost.
Lose ==
    /\ conn # "lost" /\ conn' = "lost"
    /\ UNCHANGED <<sender, holder, stalled>>

\* The peer stops or resumes reading.
PeerStalls == stalled' = ~stalled /\ UNCHANGED <<sender, holder, conn>>

Next ==
    \/ \E p \in Senders : Request(p) \/ Acquire(p) \/ DrainEnds(p) \/ Cancel(p)
    \/ CloseWriter \/ Lose \/ PeerStalls

SafeSpec == Init /\ [][Next]_vars

\* asyncio.Lock wakes its waiters in order, so a waiter is granted the lock if it is
\* free again and again; the wait_for around drain() makes every drain end.
Fairness == \A p \in Senders : SF_vars(Acquire(p)) /\ WF_vars(DrainEnds(p))

Spec == SafeSpec /\ Fairness
----------------------------------------------------------------------------
\* Concurrent drain() on one StreamWriter is unsafe (forward_proxy.py:48): at most one
\* task drains, and it is the one that holds the lock.
DrainExclusive == \A p \in Senders : sender[p] = "draining" <=> holder = p

\* No send blocks for ever, whatever the peer does: this is what bounds the time the
\* lock is held and keeps one wedged stream from stalling the others.
SendReturns == \A p \in Senders : sender[p] # "idle" ~> sender[p] = "idle"
=============================================================================
