------------------------------- MODULE Relay -------------------------------
(***************************************************************************)
(* One request of a local application through a tunnel: HttpProxy._handle  *)
(* with its two relay tasks (client/core/http_proxy.py), the reader and    *)
(* writer that the router wraps a tunnel stream in (client/core/router.py) *)
(* and the tunnel's side of the stream (client/core/tunnel.py).  All are   *)
(* tasks of one event loop: a step runs from one await to the next, and a  *)
(* cancellation is delivered before the task runs again.                   *)
(*                                                                         *)
(* What the application sends is a number of reads; what it receives is    *)
(* only whether there is some, as TunnelStream and StreamFeeder follow the *)
(* bytes of that direction.                                                *)
(***************************************************************************)
EXTENDS Naturals, Sequences

CONSTANTS MaxUp,   \* bound: reads from the application
          MaxDown  \* bound: reads from the stream

ASSUME RelayAssumption == MaxUp \in Nat /\ MaxDown \in Nat

Tasks == {"handler", "up", "down", "sender", "closer", "feeder"}

VARIABLES
  kind,      \* the request until it is answered: CONNECT or GET (any other method)
  pc,        \* where each task is: off before it exists, done after it ended
  cancelled, \* tasks with a cancellation to deliver
  app,       \* the application: [unread, eof, reset, reads (it has not stalled)]
  queue,     \* the writer's _queue: numbers of items, and Stop
  drained,   \* the writer's _drained event
  closed,    \* the writer's _closed
  stream,    \* the TunnelStream: [listed (in _streams), closed]
  tunnel,    \* up; wedged: its connection is closed; down: disconnect() was called
  lock,      \* who holds _write_lock
  running,   \* the proxy's _running
  items,     \* how many items were written to the stream
  received,  \* how many reads the downward task had from the stream
  wire,      \* the frames of this stream that left through the tunnel
  sending,   \* the item the sender has taken
  excused    \* data may be missing: the server or the grace time ended the stream

vars == <<kind, pc, cancelled, app, queue, drained, closed, stream, tunnel,
          lock, running, items, received, wire, sending, excused>>
writer == <<queue, drained, closed, items, sending>>
link == <<stream, tunnel, lock, wire, excused>>
rest == <<kind, running, received>>

Stop == 0
Close == 0
Free == "nobody"
Other == "other"

Init ==
  /\ kind \in {"CONNECT", "GET"}
  /\ pc = [t \in Tasks |-> IF t = "handler" THEN "route" ELSE "off"]
  /\ cancelled = {}
  /\ app = [unread |-> 0, eof |-> FALSE, reset |-> FALSE, reads |-> TRUE]
  /\ queue = <<>> /\ drained = TRUE /\ closed = FALSE /\ items = 0
  /\ stream = [listed |-> FALSE, closed |-> FALSE]
  /\ tunnel = "up" /\ lock = Free /\ wire = <<>> /\ excused = FALSE /\ sending = Stop
  /\ running = TRUE /\ received = 0

-----------------------------------------------------------------------------
(* The writer's methods and those of the two sockets. *)

At(t, p) == pc[t] = p /\ t \notin cancelled
Ended(t) == pc[t] \in {"off", "done"}
Goes(t, p) == pc' = [pc EXCEPT ![t] = p]

\* write() of the writer.
Write ==
  /\ items' = items + 1
  /\ queue' = IF closed THEN queue ELSE Append(queue, items + 1)
  /\ drained' = (drained /\ closed)
  /\ UNCHANGED <<closed, sending>>

\* Task t ends; close() of the writer, the first time: its sender is cancelled
\* and a task is made for close_stream.
EndsClosingWriter(t) ==
  IF closed THEN Goes(t, "done") /\ UNCHANGED <<cancelled, writer>>
  ELSE /\ closed' = TRUE
       /\ queue' = Append(queue, Stop)
       /\ pc' = [pc EXCEPT ![t] = "done", !["closer"] = "new"]
       /\ cancelled' = (cancelled \cup (IF Ended("sender") THEN {} ELSE {"sender"})) \ {t}
       /\ UNCHANGED <<drained, items, sending>>

\* The application's connection is closed: the task that reads from it gets what
\* had already been received of the rest, then EOF.
AppClosed ==
  \E n \in 0 .. app.unread : app' = [app EXCEPT !.eof = TRUE, !.unread = n]

EndsClosingApp(t) ==
  /\ Goes(t, "done")
  /\ AppClosed

-----------------------------------------------------------------------------
(* HttpProxy._handle. *)

\* route() fails and the application is answered 502.
NotRouted ==
  /\ At("handler", "route")
  /\ EndsClosingApp("handler")
  /\ UNCHANGED <<rest, cancelled, writer, link>>

\* route() made a stream; reader and writer start their tasks.  The headers of
\* a plain request are the first item; a CONNECT is answered 200.
Routed ==
  /\ At("handler", "route") /\ tunnel = "up"
  /\ pc' = [pc EXCEPT !["handler"] = "greet", !["sender"] = "get", !["feeder"] = "read"]
  /\ stream' = [listed |-> TRUE, closed |-> FALSE]
  /\ IF kind = "GET" THEN Write ELSE UNCHANGED writer
  /\ UNCHANGED <<rest, cancelled, app, tunnel, lock, wire, excused>>

\* Mutant of GreetFails: the upstream is not closed.
GreetFailsLeaking ==
  /\ At("handler", "greet") /\ kind = "CONNECT" /\ app.reset
  /\ EndsClosingApp("handler")
  /\ UNCHANGED <<rest, cancelled, writer, link>>

\* The application went away while route() was under way: the 200 cannot be
\* sent, the upstream and then the connection are closed.
GreetFails ==
  /\ At("handler", "greet") /\ kind = "CONNECT" /\ app.reset
  /\ EndsClosingWriter("handler")
  /\ AppClosed
  /\ UNCHANGED <<rest, link>>

\* The 200 was sent, or the headers were; the relay tasks start.
Greeted ==
  /\ At("handler", "greet")
  /\ IF kind = "GET" THEN drained ELSE ~ app.reset
  /\ LET first == IF running THEN "read" ELSE "end" IN
     pc' = [pc EXCEPT !["handler"] = "relay", !["up"] = first, !["down"] = first]
  /\ kind' = "answered"
  /\ UNCHANGED <<cancelled, app, writer, link, running, received>>

\* Both tasks ended; the connection is closed.
RelayEnds ==
  /\ pc["handler"] \in {"relay", "grace", "reap"}
  /\ Ended("up") /\ Ended("down")
  /\ EndsClosingApp("handler")
  /\ UNCHANGED <<rest, cancelled, writer, link>>

\* One task ended: the other one has ten seconds.
OneSideEnds ==
  /\ At("handler", "relay")
  /\ Ended("up") # Ended("down")
  /\ Goes("handler", "grace")
  /\ UNCHANGED <<rest, cancelled, app, writer, link>>

GraceExpires ==
  /\ At("handler", "grace")
  /\ \E t \in {"up", "down"} :
       /\ ~ Ended(t) /\ cancelled' = cancelled \cup {t}
       /\ excused' = (excused \/ t = "up")
  /\ Goes("handler", "reap")
  /\ UNCHANGED <<rest, app, writer, stream, tunnel, lock, wire>>

-----------------------------------------------------------------------------
(* The relay task from the application to the stream. *)

\* Mutant of UpWaits: the task does not wait for its data to be sent.
UpGoesOn == "read"

\* After it has written, the task awaits drain().
UpWaits == "drain"

UpReads ==
  /\ At("up", "read") /\ app.unread > 0 /\ ~ app.reset
  /\ app' = [app EXCEPT !.unread = @ - 1]
  /\ Write
  /\ Goes("up", UpWaits)
  /\ UNCHANGED <<rest, cancelled, link>>

UpDrained ==
  /\ At("up", "drain") /\ drained
  /\ Goes("up", IF running THEN "read" ELSE "end")
  /\ UNCHANGED <<rest, cancelled, app, writer, link>>

\* EOF, an error, the end of the loop or a cancellation: the finally clause.
UpEnds ==
  /\ \/ At("up", "read") /\ (app.reset \/ (app.eof /\ app.unread = 0))
     \/ At("up", "end")
     \/ "up" \in cancelled
  /\ EndsClosingWriter("up")
  /\ UNCHANGED <<rest, app, link>>

-----------------------------------------------------------------------------
(* The relay task from the stream to the application. *)

DownReads ==
  /\ At("down", "read") /\ received < MaxDown
  /\ received' = received + 1
  /\ Goes("down", "drain")
  /\ UNCHANGED <<kind, cancelled, app, writer, link, running>>

\* drain() of the application's writer returns while the application reads.
DownDrained ==
  /\ At("down", "drain") /\ app.reads /\ ~ app.reset
  /\ Goes("down", IF running THEN "read" ELSE "end")
  /\ UNCHANGED <<rest, cancelled, app, writer, link>>

DownEnds ==
  /\ \/ At("down", "read") /\ pc["feeder"] = "done"
     \/ At("down", "drain") /\ app.reset
     \/ At("down", "end")
     \/ "down" \in cancelled
  /\ EndsClosingApp("down")
  /\ cancelled' = cancelled \ {"down"}
  /\ UNCHANGED <<rest, writer, link>>

-----------------------------------------------------------------------------
(* The writer's sender, the task of close_stream and the reader's feeder. *)

\* send_data() sends nothing when the tunnel or the stream is gone.
Sendable == tunnel # "down" /\ stream.listed /\ ~ stream.closed

SenderTakes ==
  /\ At("sender", "get") /\ queue # <<>>
  /\ queue' = Tail(queue)
  /\ IF Head(queue) = Stop THEN Goes("sender", "done") /\ UNCHANGED drained
     ELSE IF Sendable THEN Goes("sender", "send") /\ UNCHANGED drained
     ELSE UNCHANGED pc /\ drained' = TRUE
  /\ sending' = Head(queue)
  /\ UNCHANGED <<rest, cancelled, app, closed, items, link>>

\* Under the write lock, task t writes a frame and awaits the tunnel's drain.
Sends(t, frame) ==
  /\ lock = Free /\ lock' = t
  /\ wire' = IF tunnel = "up" THEN Append(wire, frame) ELSE wire
  /\ Goes(t, "drain")
  /\ UNCHANGED <<rest, cancelled, app, writer, stream, tunnel, excused>>

SenderSends == At("sender", "send") /\ Sends("sender", sending)

\* The drain ends, or its time limit ends the connection.
DrainEnds(t) ==
  /\ At(t, "drain") /\ lock' = Free
  /\ tunnel' \in {tunnel, IF tunnel = "up" THEN "wedged" ELSE tunnel}
  /\ UNCHANGED <<rest, cancelled, app, queue, closed, items, stream, wire, excused>>

SenderDrained ==
  /\ DrainEnds("sender") /\ Goes("sender", "get") /\ drained' = TRUE /\ sending' = Stop

SenderCancelled ==
  /\ "sender" \in cancelled
  /\ cancelled' = cancelled \ {"sender"}
  /\ Goes("sender", "done")
  /\ drained' = (drained \/ pc["sender"] # "get")
  /\ lock' = IF lock = "sender" THEN Free ELSE lock
  /\ UNCHANGED <<rest, app, queue, closed, items, sending, stream, tunnel, wire, excused>>

\* close_stream(): a stream that disconnect() took away needs no CLOSE.
CloserStarts ==
  /\ At("closer", "new")
  /\ stream' = [listed |-> FALSE, closed |-> stream.closed \/ stream.listed]
  /\ Goes("closer", IF stream.listed /\ tunnel # "down" THEN "send" ELSE "done")
  /\ UNCHANGED <<rest, cancelled, app, writer, tunnel, lock, wire, excused>>

CloserSends == At("closer", "send") /\ Sends("closer", Close)

CloserDrained ==
  /\ DrainEnds("closer") /\ Goes("closer", "done") /\ UNCHANGED <<drained, sending>>

FeederEnds ==
  /\ At("feeder", "read") /\ stream.closed
  /\ Goes("feeder", "done")
  /\ UNCHANGED <<rest, cancelled, app, writer, link>>

-----------------------------------------------------------------------------
(* The application, the server, the tunnel and its other streams, the user. *)

App ==
  /\ ~ app.reset
  /\ \/ /\ ~ app.eof /\ items + app.unread < MaxUp
        /\ app' = [app EXCEPT !.unread = @ + 1]
     \/ app' = [app EXCEPT !.eof = TRUE]
     \/ app' = [unread |-> 0, eof |-> TRUE, reset |-> TRUE, reads |-> FALSE]
     \/ app' = [app EXCEPT !.reads = FALSE]
  /\ UNCHANGED <<rest, pc, cancelled, writer, link>>

\* A CLOSE of the server, or more data than the stream may hold.
StreamClosed ==
  /\ stream.listed /\ tunnel = "up"
  /\ stream' = [stream EXCEPT !.closed = TRUE] /\ excused' = TRUE
  /\ UNCHANGED <<rest, pc, cancelled, app, writer, tunnel, lock, wire>>

TunnelBreaks ==
  /\ tunnel = "up" /\ tunnel' = "wedged"
  /\ UNCHANGED <<rest, pc, cancelled, app, writer, stream, lock, wire, excused>>

\* disconnect(): every stream is taken off the list and closed.
Disconnect ==
  /\ tunnel = "wedged" /\ tunnel' = "down"
  /\ stream' = [listed |-> FALSE, closed |-> stream.closed \/ stream.listed]
  /\ UNCHANGED <<rest, pc, cancelled, app, writer, lock, wire, excused>>

OthersSend ==
  /\ \/ lock = Free /\ lock' = Other
     \/ lock = Other /\ lock' = Free
  /\ UNCHANGED <<rest, pc, cancelled, app, writer, stream, tunnel, wire, excused>>

StopProxy ==
  /\ running /\ running' = FALSE
  /\ UNCHANGED <<kind, pc, cancelled, app, writer, link, received>>

-----------------------------------------------------------------------------
Handler == NotRouted \/ Routed \/ GreetFails \/ Greeted \/ RelayEnds \/ OneSideEnds
Up == UpReads \/ UpDrained \/ UpEnds
Down == DownReads \/ DownDrained \/ DownEnds
Sender == SenderTakes \/ SenderDrained \/ SenderCancelled
Closer == CloserStarts \/ CloserDrained
Environment == App \/ StreamClosed \/ TunnelBreaks \/ StopProxy

Next ==
  \/ Handler \/ GraceExpires \/ Up \/ Down
  \/ Sender \/ SenderSends \/ Closer \/ CloserSends \/ FeederEnds
  \/ Disconnect \/ OthersSend \/ Environment

SafeSpec == Init /\ [][Next]_vars

\* A task that is ready runs and timers expire.  The write lock is given in
\* the order it was asked for, and whoever has it drains with a time limit, so
\* a task that waits for it gets it.  The tunnel's read loop sees that the
\* connection has gone.
Fairness ==
  /\ WF_vars(Handler) /\ WF_vars(GraceExpires) /\ WF_vars(Up)
  /\ WF_vars(DownDrained) /\ WF_vars(DownEnds)
  /\ WF_vars(Sender) /\ WF_vars(Closer) /\ WF_vars(FeederEnds)
  /\ SF_vars(SenderSends) /\ SF_vars(CloserSends)
  /\ WF_vars(lock = Other /\ OthersSend) /\ WF_vars(Disconnect)

Spec == SafeSpec /\ Fairness

-----------------------------------------------------------------------------
(* Properties. *)

\* The data frames that left: all but a CLOSE at the end.
Sent == IF wire # <<>> /\ wire[Len(wire)] = Close THEN SubSeq(wire, 1, Len(wire) - 1) ELSE wire

\* What the server gets of a stream is what the application sent, in order and
\* without a gap, then at most one CLOSE and nothing after it; and unless the
\* tunnel or the server ended the stream, or the grace time ran out, the CLOSE
\* comes only after everything that was read from the application, although
\* close() cancels the sender with whatever it has still queued
\* (router.py:58-67).
UpIntact ==
  /\ \A k \in DOMAIN Sent : Sent[k] = k
  /\ wire # Sent /\ ~ excused => Len(Sent) = items

Gone == app.eof

Nothing ==
  /\ \A t \in Tasks : Ended(t)
  /\ ~ stream.listed /\ lock \notin Tasks

\* Once the application or the stream has gone, whichever was first and in
\* whatever phase, the handler and every task made for it end, and the stream
\* is taken off the tunnel's list (http_proxy.py:137-139).  Only an application
\* that stops to read and stays can hold what is left of an ended stream.
NothingIsLeft ==
  Gone \/ stream.closed ~> Nothing \/ (~ Gone /\ ~ app.reads)
=============================================================================
