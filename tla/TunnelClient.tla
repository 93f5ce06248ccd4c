---------------------------- MODULE TunnelClient ----------------------------
(* One tunnel of the client: class TunnelClient in client/core/tunnel.py.    *)
(* It connects, opens streams for callers of create_stream, dispatches the   *)
(* server's frames, and is torn down by disconnect(), which its read loop,   *)
(* its health check and its owner (TunnelPool) may run, at the same time     *)
(* and while connect() and any number of create_stream() are suspended.      *)
(* The write lock and the bounded drain are FrameWriter's subject: here a    *)
(* frame is written at some time and _send then returns.                     *)
EXTENDS Integers

CONSTANTS Streams,       \* calls of create_stream, each with the stream it opens
          MaxConnects    \* bound: connections made

ASSUME ConnectsAssumption == MaxConnects \in Nat

VARIABLES
    optimistic,  \* config.optimistic_connect
    up,          \* _connected, _authenticated and _running, which change together
    conn,        \* the transport of _writer; none: _writer is None
    connecting,  \* where connect() is
    connects,    \* connections made so far
    at,          \* at[t]: where a task is; in disconnect(), the loop whose end it awaits
    cancelled,   \* the loops that were cancelled and have not met the CancelledError yet
    quiet,       \* no frame came for HEALTH_TIMEOUT
    streams,     \* _streams: the registered ones
    call,        \* call[s]: where create_stream is
    result,      \* result[s]: what create_stream returned
    future,      \* future[s]: the stream's _connect_future
    closed,      \* the streams that are closed (TunnelStream._closed)
    reached,     \* streams whose CONNECT is on the connection that is open
    answer       \* answer[s]: the server's answer to the CONNECT, when it was read

connVars   == <<up, conn, connecting, connects>>
loopVars   == <<at, cancelled, quiet>>
streamVars == <<streams, call, result, future, closed, reached, answer>>
vars == <<optimistic, connVars, loopVars, streamVars>>

\* The read loop, the health check and the ping loop, and the owner: the task that calls
\* disconnect() from outside, and abandons the tunnel with it.
Loops == {"reader", "health", "ping"}
Tasks == Loops \cup {"owner"}

TypeOK ==
    /\ optimistic \in BOOLEAN /\ up \in BOOLEAN /\ quiet \in BOOLEAN
    /\ conn \in {"none", "open", "closing", "lost"}
    /\ connecting \in {"idle", "dial", "auth"}
    /\ connects \in 0..MaxConnects
    /\ at \in [Tasks -> {"none", "loop", "pong", "last", "ended"} \cup Loops]
    /\ cancelled \in SUBSET Loops
    /\ streams \in SUBSET Streams /\ closed \in SUBSET Streams /\ reached \in SUBSET Streams
    /\ call \in [Streams -> {"none", "send", "wait", "bye", "returned"}]
    /\ result \in [Streams -> {"none", "stream", "rejected", "nil"}]
    /\ future \in [Streams -> {"none", "pending", "done", "failed"}]
    /\ answer \in [Streams -> {"none", "ok", "fail"}]
    /\ \A s \in Streams : call[s] = "returned" <=> result[s] # "none"

Init ==
    /\ optimistic \in BOOLEAN
    /\ up = FALSE /\ conn = "none" /\ connecting = "idle" /\ connects = 0
    /\ at = [t \in Tasks |-> "none"] /\ cancelled = {} /\ quiet = FALSE
    /\ streams = {} /\ closed = {} /\ reached = {}
    /\ call = [s \in Streams |-> "none"]
    /\ result = [s \in Streams |-> "none"]
    /\ future = [s \in Streams |-> "none"]
    /\ answer = [s \in Streams |-> "none"]

Disconnecting == \E t \in Tasks : at[t] \in Loops
----------------------------------------------------------------------------
(* connect().                                                                *)

\* The pool dials a tunnel that is down; it awaits every teardown it asked for first.
Connect ==
    /\ connecting = "idle" /\ ~up /\ ~Disconnecting /\ at["owner"] = "none"
    /\ connects < MaxConnects
    /\ connecting' = "dial" /\ connects' = connects + 1
    /\ UNCHANGED <<optimistic, up, conn, loopVars, streamVars>>

\* The TLS connection stands and AUTH is sent, or the attempt fails or times out.
Opened(ok) ==
    /\ connecting = "dial"
    /\ IF ok THEN conn' = "open" /\ connecting' = "auth"
             ELSE connecting' = "idle" /\ UNCHANGED conn
    /\ UNCHANGED <<optimistic, up, connects, loopVars, streamVars>>

\* The answer to AUTH is awaited on a reader of its own: an answer that is there counts,
\* even when a disconnect() has dropped the socket in the meantime.
Authenticated(ok) ==
    /\ connecting = "auth" /\ connecting' = "idle"
    /\ IF ok
       THEN /\ up' = TRUE /\ quiet' = FALSE
            /\ at' = [t \in Tasks |-> IF t \in Loops THEN "loop" ELSE at[t]]
            /\ UNCHANGED conn
       ELSE conn' = "none" /\ UNCHANGED <<up, at, quiet>>
    /\ UNCHANGED <<optimistic, connects, cancelled, streamVars>>
----------------------------------------------------------------------------
(* disconnect(): the flags are cleared, and the loops are cancelled and       *)
(* awaited, one after the other; when they have ended all streams are closed. *)

\* Mutant: the streams are popped and not closed.
CloseStreamsPopOnly ==
    /\ future' = [s \in Streams |-> IF s \in streams /\ future[s] = "pending"
                                    THEN "failed" ELSE future[s]]
    /\ streams' = {} /\ reached' = {}
    /\ UNCHANGED closed

\* Mutant: the connect futures are left to their timeout.
CloseStreamsOnly ==
    /\ closed' = closed \cup streams
    /\ streams' = {} /\ reached' = {}
    /\ UNCHANGED future

\* Every stream is popped and closed, and the create_stream that waits for it woken.
CloseStreams ==
    /\ future' = [s \in Streams |-> IF s \in streams /\ future[s] = "pending"
                                    THEN "failed" ELSE future[s]]
    /\ closed' = closed \cup streams
    /\ streams' = {} /\ reached' = {}

Live == {l \in Loops : at[l] # "none"}

\* The order in which disconnect() goes through the loops.
After(l) == {k \in Loops : (l = "reader" /\ k # "reader") \/ (l = "health" /\ k = "ping")}
First(ls) == CHOOSE l \in ls : ls \subseteq {l} \cup After(l)

\* disconnect() in task t with the loops ls before it: the first one that lives is cancelled
\* and awaited; without one the streams and the writer are closed, and t ends.
GoOn(t, ls) ==
    IF ls \cap Live # {}
    THEN LET l == First(ls \cap Live) IN
         /\ at' = [at EXCEPT ![t] = l]
         /\ cancelled' = (cancelled \ {t}) \cup {l}
         /\ UNCHANGED <<streams, future, closed, reached, conn>>
    ELSE /\ at' = [at EXCEPT ![t] = IF t \in Loops THEN "none" ELSE "ended"]
         /\ cancelled' = cancelled \ {t}
         /\ CloseStreams
         /\ conn' = "none"

Disconnect(t) ==
    /\ up' = FALSE /\ GoOn(t, Loops)
    /\ UNCHANGED <<optimistic, connecting, connects, quiet, call, result, answer>>

\* Mutant: the read loop ends without disconnect().
ReaderJustEnds ==
    /\ at["reader"] = "loop" /\ up /\ conn # "open"
    /\ at' = [at EXCEPT !["reader"] = "none"]
    /\ UNCHANGED <<optimistic, connVars, cancelled, quiet, streamVars>>

\* The read loop ends with EOF or an error, and was not told to.
ReaderDisconnects == at["reader"] = "loop" /\ up /\ conn # "open" /\ Disconnect("reader")

HealthDisconnects == at["health"] = "loop" /\ up /\ quiet /\ Disconnect("health")

OwnerDisconnects == at["owner"] = "none" /\ connects > 0 /\ Disconnect("owner")

\* A loop ends when it meets its CancelledError, or at its test of _running: at once, or,
\* for the read loop, when its cancellation was lost in the drain of a PONG.
LoopEnds(l) ==
    /\ at[l] \in {"loop", "pong", "last"}
    /\ l \in cancelled \/ at[l] = "last" \/ (l # "reader" /\ ~up)
    /\ at' = [at EXCEPT ![l] = "none"]
    /\ cancelled' = cancelled \ {l}
    /\ UNCHANGED <<optimistic, connVars, quiet, streamVars>>

\* Mutant: the CancelledError of a loop that awaits itself is not swallowed and leaves
\* disconnect().
AwaitedNotSwallowed(t) ==
    /\ at[t] \in Loops /\ (at[t] = t \/ at[t] \notin Live)
    /\ IF at[t] = t
       THEN /\ at' = [at EXCEPT ![t] = "none"] /\ cancelled' = cancelled \ {t}
            /\ UNCHANGED <<streams, future, closed, reached, conn>>
       ELSE GoOn(t, After(at[t]))
    /\ UNCHANGED <<optimistic, up, connecting, connects, quiet, call, result, answer>>

\* The loop that a disconnect() awaits has ended; or it is the awaiting task itself, which
\* meets its own cancellation.  The CancelledError of a task in disconnect() is swallowed.
Awaited(t) ==
    /\ at[t] \in Loops /\ (at[t] = t \/ at[t] \notin Live)
    /\ GoOn(t, After(at[t]))
    /\ UNCHANGED <<optimistic, up, connecting, connects, quiet, call, result, answer>>
----------------------------------------------------------------------------
(* create_stream().                                                          *)

Return(s, value) ==
    /\ call' = [call EXCEPT ![s] = "returned"]
    /\ result' = [result EXCEPT ![s] = value]

\* Mutant: the future is created when the CONNECT was sent.
CreateWithoutFuture(s) ==
    /\ call[s] = "none" /\ up /\ conn # "none"
    /\ streams' = streams \cup {s}
    /\ call' = [call EXCEPT ![s] = "send"]
    /\ UNCHANGED <<optimistic, connVars, loopVars, result, future, closed, reached, answer>>

\* The stream is registered, with a future unless the mode is optimistic; _lock is never
\* contended here, as only a connect() of a tunnel that is not up keeps it over an await.
Create(s) ==
    /\ call[s] = "none"
    /\ IF up /\ conn # "none"
       THEN /\ streams' = streams \cup {s}
            /\ future' = [future EXCEPT ![s] = IF optimistic THEN "none" ELSE "pending"]
            /\ call' = [call EXCEPT ![s] = "send"]
            /\ UNCHANGED result
       ELSE Return(s, "nil") /\ UNCHANGED <<streams, future>>
    /\ UNCHANGED <<optimistic, connVars, loopVars, closed, reached, answer>>

\* The CONNECT is written, once the lock is granted, to the writer of its connection; one
\* that is not open discards it.
Written(s) ==
    /\ call[s] = "send" /\ s \in streams \ reached /\ conn = "open"
    /\ reached' = reached \cup {s}
    /\ UNCHANGED <<optimistic, connVars, loopVars, streams, call, result, future, closed,
                   answer>>

\* Mutant: a stream whose CONNECT could not be sent stays registered.
SentKeepsStream(s, ok) ==
    /\ call[s] = "send"
    /\ s \in streams /\ conn = "open" => s \in reached
    /\ conn' = IF ~ok /\ s \in streams /\ conn = "open" THEN "closing" ELSE conn
    /\ IF ~ok THEN Return(s, "nil")
       ELSE IF optimistic THEN Return(s, "stream")
       ELSE call' = [call EXCEPT ![s] = "wait"] /\ UNCHANGED result
    /\ UNCHANGED <<optimistic, up, connecting, connects, loopVars, streams, future, closed,
                   reached, answer>>

\* _send returns: True, also when the frame was discarded; False after an error, or after
\* the drain timed out and the writer was closed.
Sent(s, ok) ==
    /\ call[s] = "send"
    /\ s \in streams /\ conn = "open" => s \in reached
    /\ conn' = IF ~ok /\ s \in streams /\ conn = "open" THEN "closing" ELSE conn
    /\ IF ~ok THEN Return(s, "nil") /\ streams' = streams \ {s}
       ELSE IF optimistic THEN Return(s, "stream") /\ UNCHANGED streams
       ELSE call' = [call EXCEPT ![s] = "wait"] /\ UNCHANGED <<result, streams>>
    /\ UNCHANGED <<optimistic, up, connecting, connects, loopVars, future, closed, reached,
                   answer>>

\* The future is done: the stream is handed out, unless it was closed, which is taken for
\* a CONNECT_FAIL; or disconnect() failed the future.
Resolved(s) ==
    /\ call[s] = "wait" /\ future[s] \in {"done", "failed"}
    /\ IF future[s] = "done" /\ s \notin closed
       THEN Return(s, "stream") /\ UNCHANGED streams
       ELSE /\ Return(s, IF future[s] = "done" THEN "rejected" ELSE "nil")
            /\ streams' = streams \ {s}
    /\ UNCHANGED <<optimistic, connVars, loopVars, future, closed, reached, answer>>

\* No answer in time: the stream is closed here, and with a CLOSE at the server.
TimedOut(s) ==
    /\ call[s] = "wait" /\ future[s] = "pending"
    /\ future' = [future EXCEPT ![s] = "failed"]
    /\ streams' = streams \ {s} /\ closed' = closed \cup {s}
    /\ call' = [call EXCEPT ![s] = "bye"]
    /\ UNCHANGED <<optimistic, connVars, loopVars, result, reached, answer>>

ByeSent(s) ==
    /\ call[s] = "bye" /\ Return(s, "nil")
    /\ UNCHANGED <<optimistic, connVars, loopVars, streams, future, closed, reached, answer>>

\* close_stream, by the local side.
CloseStream(s) ==
    /\ result[s] = "stream" /\ s \in streams
    /\ streams' = streams \ {s} /\ closed' = closed \cup {s}
    /\ UNCHANGED <<optimistic, connVars, loopVars, call, result, future, reached, answer>>
----------------------------------------------------------------------------
(* The read loop: what the server sends.                                     *)

Reading == at["reader"] \in {"loop", "last"} /\ "reader" \notin cancelled

\* CONNECT_OK or CONNECT_FAIL; a late one finds no stream.
Answered(s, ok) ==
    /\ Reading /\ s \in reached /\ answer[s] = "none"
    /\ answer' = [answer EXCEPT ![s] = IF ok THEN "ok" ELSE "fail"]
    /\ closed' = IF ~ok /\ s \in streams THEN closed \cup {s} ELSE closed
    /\ future' = [future EXCEPT ![s] = IF s \in streams /\ @ = "pending" THEN "done" ELSE @]
    /\ quiet' = FALSE
    /\ UNCHANGED <<optimistic, connVars, at, cancelled, streams, call, result, reached>>

\* CLOSE, or DATA beyond the receive buffer (TunnelStream): the stream is closed.
ServerCloses(s) ==
    /\ Reading /\ answer[s] = "ok" /\ s \in streams \cap reached
    /\ closed' = closed \cup {s}
    /\ quiet' = FALSE
    /\ UNCHANGED <<optimistic, connVars, at, cancelled, streams, call, result, future,
                   reached, answer>>

\* PING: the loop itself sends the PONG.
Ping ==
    /\ Reading /\ at' = [at EXCEPT !["reader"] = "pong"] /\ quiet' = FALSE
    /\ UNCHANGED <<optimistic, connVars, cancelled, streamVars>>

\* The PONG's drain is over.  wait_for may lose a cancellation that comes as the drain ends:
\* the loop then handles the frames it has and ends at its test of _running.
PongSent ==
    /\ at["reader"] = "pong"
    /\ at' = [at EXCEPT !["reader"] = IF up THEN "loop" ELSE "last"]
    /\ cancelled' = cancelled \ {"reader"}
    /\ UNCHANGED <<optimistic, connVars, quiet, streamVars>>
----------------------------------------------------------------------------
(* The connection.                                                           *)

\* The drain of a DATA, CLOSE, PING or PONG frame times out: _send closes the writer.
DrainTimesOut ==
    /\ up /\ conn = "open" /\ conn' = "closing"
    /\ UNCHANGED <<optimistic, up, connecting, connects, loopVars, streamVars>>

ConnLost ==
    /\ conn \in {"open", "closing"} /\ conn' = "lost"
    /\ UNCHANGED <<optimistic, up, connecting, connects, loopVars, streamVars>>

ServerSilent ==
    /\ up /\ ~quiet /\ quiet' = TRUE
    /\ UNCHANGED <<optimistic, connVars, at, cancelled, streamVars>>
----------------------------------------------------------------------------
Next ==
    \/ Connect \/ Opened(TRUE) \/ Opened(FALSE) \/ Authenticated(TRUE) \/ Authenticated(FALSE)
    \/ ReaderDisconnects \/ HealthDisconnects \/ OwnerDisconnects
    \/ \E l \in Loops : LoopEnds(l)
    \/ \E t \in Tasks : Awaited(t)
    \/ Ping \/ PongSent \/ DrainTimesOut \/ ConnLost \/ ServerSilent
    \/ \E s \in Streams :
          \/ Create(s) \/ Written(s) \/ Sent(s, TRUE) \/ Sent(s, FALSE) \/ Resolved(s)
          \/ TimedOut(s) \/ ByeSent(s) \/ CloseStream(s)
          \/ Answered(s, TRUE) \/ Answered(s, FALSE) \/ ServerCloses(s)

SafeSpec == Init /\ [][Next]_vars

\* Tasks that are ready run, and every _send returns, by its timeout if need be; of a closed
\* connection the loop reads the frames that have arrived, which are finitely many, and so
\* are those it has when a cancellation is lost.  The timeout of the CONNECT has no fairness:
\* nothing below relies on it.
Fairness ==
    /\ WF_vars(Authenticated(TRUE) \/ Authenticated(FALSE))
    /\ SF_vars(ReaderDisconnects) /\ WF_vars(HealthDisconnects)
    /\ \A l \in Loops : SF_vars(LoopEnds(l))
    /\ \A t \in Tasks : WF_vars(Awaited(t))
    /\ WF_vars(PongSent)
    /\ \A s \in Streams : /\ WF_vars(Sent(s, TRUE) \/ Sent(s, FALSE))
                          /\ WF_vars(Resolved(s)) /\ WF_vars(ByeSent(s))

Spec == SafeSpec /\ Fairness
----------------------------------------------------------------------------
\* An open stream is one the tunnel still knows: whoever was handed a stream will be told
\* its end, by the read loop or by the disconnect() that clears _streams, however sends,
\* answers and teardowns interleave.
OpenIsRegistered == \A s \in Streams : result[s] = "stream" /\ s \notin closed =>
    s \in streams /\ (up \/ Disconnecting)

\* A create_stream that waits for an answer waits for one that can still come: its stream is
\* registered with a tunnel that is up or being torn down, and the answer was not missed
\* before the wait began (tunnel.py:352-357).
NoAnswerMissed == \A s \in Streams : call[s] = "wait" /\ future[s] \in {"none", "pending"} =>
    s \in streams /\ answer[s] = "none" /\ (up \/ Disconnecting)

\* What create_stream did not hand out it did not leave behind in _streams either.
NoStreamLeaks == \A s \in Streams : result[s] \in {"rejected", "nil"} => s \notin streams

\* A tunnel whose connection is gone, or whose peer went silent, does not stay up: one of the
\* two loops notices, also while the other is in the middle of something (tunnel.py:426-497).
DeathIsNoticed ==
    /\ up /\ conn # "open" ~> ~up
    /\ up /\ quiet ~> ~up \/ ~quiet

\* Every disconnect() comes to an end with the streams closed, though up to two tasks run it
\* at a time, each cancels and awaits the other or itself, and a cancellation may get lost
\* (tunnel.py:269-301).
TeardownEnds == \A t \in Tasks : at[t] \in Loops ~> at[t] \notin Loops /\ streams = {}

\* When its tunnel dies a create_stream returns without waiting for its timeout
\* (tunnel.py:278-280).
DeathWakesCallers == \A s \in Streams :
    call[s] \in {"send", "wait"} /\ ~up ~> call[s] \notin {"send", "wait"}
=============================================================================
