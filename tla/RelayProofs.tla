----------------------------- MODULE RelayProofs -----------------------------
(* Proofs about one request through a tunnel, for any amount of data.        *)
EXTENDS Relay, SequenceTheorems, TLAPS

\* Every variable keeps its type.
Places == {"off", "new", "route", "greet", "relay", "grace", "reap", "read", "get", "send",
           "drain", "end", "done"}
Apps == [unread : Nat, eof : BOOLEAN, reset : BOOLEAN, reads : BOOLEAN]
RelayTypeOK ==
  /\ kind \in {"CONNECT", "GET", "answered"}
  /\ pc \in [Tasks -> Places]
  /\ cancelled \subseteq {"up", "down", "sender"}
  /\ app \in Apps
  /\ queue \in Seq(Nat) /\ drained \in BOOLEAN /\ closed \in BOOLEAN
  /\ stream \in [listed : BOOLEAN, closed : BOOLEAN]
  /\ tunnel \in {"up", "wedged", "down"}
  /\ lock \in Tasks \cup {Free, Other}
  /\ running \in BOOLEAN /\ excused \in BOOLEAN
  /\ items \in Nat /\ received \in Nat /\ sending \in Nat
  /\ wire \in Seq(Nat)

\* The stream can still carry data.
Carries == tunnel = "up" /\ stream.listed /\ ~ stream.closed

\* Only a CLOSE of the closer is not data, and it is the last frame.
WireInOrder ==
  /\ \A k \in 1 .. Len(wire) : wire[k] = k \/ (k = Len(wire) /\ wire[k] = Close)
  /\ wire # Sent => pc["closer"] \in {"drain", "done"}

\* The writer before close(): at most one item is under way, and drained says when none is;
\* what was taken has left while the stream carries data.
WriterOpen ==
  /\ pc["closer"] = "off" /\ "sender" \notin cancelled
  /\ \/ drained /\ queue = <<>> /\ pc["sender"] \in {"off", "get"}
     \/ ~ drained /\ items > 0 /\ queue = <<items>> /\ pc["sender"] = "get"
     \/ ~ drained /\ items > 0 /\ queue = <<>> /\ pc["sender"] \in {"send", "drain"}
        /\ sending = items
  /\ pc["up"] \in {"read", "end"} => drained
  /\ pc["handler"] = "greet" => pc["up"] = "off" /\ (kind = "CONNECT" => drained)
  /\ pc["handler"] = "route" => pc["sender"] = "off"
  /\ pc["sender"] = "off" => pc["up"] = "off" /\ pc["handler"] \in {"route", "done"}
                             /\ items = 0 /\ wire = <<>>
  /\ pc["sender"] # "off" /\ tunnel = "up" => stream.listed /\ (stream.closed => excused)
  /\ queue # <<>> /\ Carries => Len(wire) = items - 1
  /\ pc["sender"] = "send" /\ tunnel = "up" => Len(wire) = items - 1
  /\ queue = <<>> /\ pc["sender"] # "send" /\ Carries => Len(wire) = items

\* The writer after close(): nothing is written or sent any more, and what was written
\* before has left, unless somebody else ended the stream or no CLOSE can follow.
WriterClosed ==
  /\ pc["closer"] # "off"
  /\ "sender" \in cancelled \/ Ended("sender")
  /\ Ended("up") /\ pc["handler"] \notin {"route", "greet"}
  /\ excused \/ Len(Sent) = items \/ (tunnel # "up" /\ wire = Sent)

RelayInv ==
  /\ RelayTypeOK
  /\ pc["handler"] \in {"route", "greet"} => kind # "answered"
  /\ "up" \in cancelled => excused /\ ~ Ended("up")
  /\ WireInOrder
  /\ IF closed THEN WriterClosed ELSE WriterOpen

-----------------------------------------------------------------------------
(* The frames.                                                               *)

\* The data frames are all frames, or all but a CLOSE at the end.
LEMMA SentCases ==
    ASSUME wire \in Seq(Nat)
    PROVE  \/ Sent = wire /\ (wire # <<>> => wire[Len(wire)] # Close)
           \/ /\ wire # <<>> /\ wire[Len(wire)] = Close /\ Sent # wire
              /\ Sent \in Seq(Nat) /\ Len(Sent) = Len(wire) - 1
              /\ \A k \in 1 .. Len(Sent) : Sent[k] = wire[k]
<1>1. CASE wire # <<>> /\ wire[Len(wire)] = Close
  <2>1. Sent = SubSeq(wire, 1, Len(wire) - 1)
    BY <1>1 DEF Sent
  <2>2. Len(wire) \in Nat /\ Len(wire) > 0
    BY <1>1
  <2> DEFINE n == Len(wire) - 1
  <2>n. n \in 0 .. Len(wire) /\ Sent = SubSeq(wire, 1, n) /\ \A i \in 1 .. n : wire[i] \in Nat
    BY <2>1, <2>2
  <2>3. /\ Sent \in Seq(Nat) /\ Len(Sent) = Len(wire) - 1
        /\ \A k \in 1 .. Len(Sent) : Sent[k] = wire[k]
    <3> HIDE DEF n
    <3>1. Sent \in Seq(Nat) /\ Len(Sent) = n /\ \A k \in 1 .. n : Sent[k] = wire[k]
      BY <2>2, <2>n
    <3> QED
      BY <3>1 DEF n
  <2> QED
    BY <1>1, <2>2, <2>3
<1>2. CASE ~ (wire # <<>> /\ wire[Len(wire)] = Close)
  BY <1>2 DEF Sent
<1> QED
  BY <1>1, <1>2

\* The next item leaves behind the others.
LEMMA DataFrame ==
    ASSUME wire \in Seq(Nat), Sent = wire, NEW x \in Nat, x = Len(wire) + 1,
           wire' = Append(wire, x),
           \A k \in 1 .. Len(wire) : wire[k] = k \/ (k = Len(wire) /\ wire[k] = Close)
    PROVE  /\ wire' \in Seq(Nat) /\ Sent' = wire' /\ Len(wire') = x
           /\ \A k \in 1 .. Len(wire') : wire'[k] = k
<1>1. /\ wire' \in Seq(Nat) /\ Len(wire') = Len(wire) + 1 /\ wire'[Len(wire')] = x
      /\ \A k \in 1 .. Len(wire) : wire'[k] = wire[k]
  OBVIOUS
<1>2. Sent' = wire'
  BY <1>1 DEF Sent, Close
<1>3. \A k \in 1 .. Len(wire) : wire[k] = k
  <2>1. ASSUME wire # <<>> PROVE wire[Len(wire)] # Close
    BY <2>1, SentCases
  <2> QED
    BY <2>1
<1> QED
  BY <1>1, <1>2, <1>3

\* The CLOSE leaves behind them.
LEMMA CloseFrame ==
    ASSUME wire \in Seq(Nat), Sent = wire, wire' = Append(wire, Close),
           \A k \in 1 .. Len(wire) : wire[k] = k \/ (k = Len(wire) /\ wire[k] = Close)
    PROVE  /\ wire' \in Seq(Nat) /\ Sent' = Sent
           /\ \A k \in 1 .. Len(wire') :
                wire'[k] = k \/ (k = Len(wire') /\ wire'[k] = Close)
<1>1. /\ wire' \in Seq(Nat) /\ Len(wire') = Len(wire) + 1 /\ wire'[Len(wire) + 1] = Close
      /\ wire' # <<>> /\ \A k \in 1 .. Len(wire) : wire'[k] = wire[k]
  BY DEF Close
<1> DEFINE n == Len(wire)
<1>2. n \in Nat /\ n = Len(wire') - 1
  BY <1>1
<1>3. Sent' = wire
  <2>1. Sent' = SubSeq(wire', 1, n)
    BY <1>1, <1>2 DEF Sent
  <2>2. n \in 0 .. Len(wire') /\ \A i \in 1 .. n : wire'[i] \in Nat
    BY <1>1
  <2>3. Sent' \in Seq(Nat) /\ Len(Sent') = n /\ \A k \in 1 .. n : Sent'[k] = wire'[k]
    <3> HIDE DEF n
    <3> QED
      BY <1>2, <2>1, <2>2
  <2>4. \A k \in 1 .. n : Sent'[k] = wire[k]
    BY <1>1, <2>3
  <2> QED
    BY <2>3, <2>4, SeqEqual
<1>4. ASSUME NEW k \in 1 .. Len(wire) PROVE wire[k] = k
  <2>1. wire # <<>>
    BY <1>4
  <2>2. wire[Len(wire)] # Close
    BY <2>1, SentCases
  <2> QED
    BY <2>2
<1>5. ASSUME NEW k \in 1 .. Len(wire')
      PROVE  wire'[k] = k \/ (k = Len(wire') /\ wire'[k] = Close)
  <2>1. k = n + 1 \/ k \in 1 .. n
    <3>1. n \in Nat /\ k \in 1 .. n + 1
      BY <1>1, <1>2
    <3> HIDE DEF n
    <3> QED
      BY <3>1
  <2> QED
    BY <1>1, <1>4, <2>1
<1> QED
  BY <1>1, <1>3, <1>5

\* What the server got is in order, and all there was if it ends with a CLOSE.
LEMMA RelayInvImplies == ASSUME RelayInv PROVE UpIntact
<1>1. wire \in Seq(Nat) /\ Len(wire) \in Nat
  BY DEF RelayInv, RelayTypeOK
<1>2. \A k \in DOMAIN Sent : Sent[k] = k
  <2>1. CASE Sent = wire
    <3>1. ASSUME wire # <<>> PROVE wire[Len(wire)] # Close
      BY <1>1, <2>1, <3>1, SentCases
    <3> QED
      BY <1>1, <2>1, <3>1 DEF RelayInv, WireInOrder
  <2>2. CASE Sent # wire
    <3>1. /\ Sent \in Seq(Nat) /\ Len(Sent) = Len(wire) - 1
          /\ \A k \in 1 .. Len(Sent) : Sent[k] = wire[k]
      BY <1>1, <2>2, SentCases
    <3>2. \A k \in 1 .. Len(wire) : wire[k] = k \/ (k = Len(wire) /\ wire[k] = Close)
      BY DEF RelayInv, WireInOrder
    <3>3. \A k \in 1 .. Len(wire) - 1 : k \in 1 .. Len(wire) /\ k # Len(wire)
      BY <1>1
    <3>4. DOMAIN Sent = 1 .. Len(Sent)
      BY <3>1
    <3> QED
      BY <3>1, <3>2, <3>3, <3>4
  <2> QED
    BY <2>1, <2>2
<1>3. ASSUME wire # Sent, ~ excused PROVE Len(Sent) = items
  <2>1. closed
    BY <1>3 DEF RelayInv, WireInOrder, WriterOpen
  <2> QED
    BY <1>3, <2>1 DEF RelayInv, WriterClosed
<1> QED
  BY <1>2, <1>3 DEF UpIntact

\* The first state.
LEMMA RelayInitHolds == ASSUME Init PROVE RelayInv
<1>1. wire \in Seq(Nat) /\ Len(wire) = 0 /\ Sent = wire
  BY DEF Init, Sent
<1>2. RelayTypeOK
  BY <1>1 DEF Init, RelayTypeOK, Tasks, Free, Stop, Places, Apps
<1> QED
  BY <1>1, <1>2 DEF Init, RelayInv, WireInOrder, WriterOpen, Carries, Tasks

-----------------------------------------------------------------------------
(* The types.                                                                *)

\* A task goes to another of its places.
LEMMA GoesThere ==
    ASSUME pc \in [Tasks -> Places], NEW t \in Tasks, NEW p \in Places, Goes(t, p)
    PROVE  /\ pc' \in [Tasks -> Places] /\ pc'[t] = p
           /\ \A u \in Tasks : u # t => pc'[u] = pc[u]
  BY DEF Goes

\* The application's connection is closed.
LEMMA AppClosedType == ASSUME app \in Apps, AppClosed PROVE app' \in Apps
<1>1. PICK n \in 0 .. app.unread : app' = [app EXCEPT !.eof = TRUE, !.unread = n]
  BY DEF AppClosed
<1>2. app.unread \in Nat
  BY DEF Apps
<1>3. n \in Nat
  BY <1>2
<1> QED
  BY <1>1, <1>3 DEF Apps

\* The writer's own variables.
WriterTypes ==
  /\ queue \in Seq(Nat) /\ drained \in BOOLEAN /\ closed \in BOOLEAN
  /\ items \in Nat /\ sending \in Nat

\* Queueing a frame keeps the types of the writer.
LEMMA WriteType == ASSUME WriterTypes, Write PROVE WriterTypes'
<1>1. items' \in Nat /\ items + 1 \in Nat
  BY DEF WriterTypes, Write
<1>2. queue' \in Seq(Nat)
  BY <1>1 DEF WriterTypes, Write
<1>3. drained' \in BOOLEAN
  BY DEF WriterTypes, Write
<1> QED
  BY <1>1, <1>2, <1>3 DEF WriterTypes, Write

\* So does a task that ends and closes the stream.
LEMMA EndsClosingWriterType ==
    ASSUME WriterTypes, pc \in [Tasks -> Places], cancelled \subseteq {"up", "down", "sender"},
           NEW t \in Tasks, EndsClosingWriter(t)
    PROVE  /\ WriterTypes' /\ pc' \in [Tasks -> Places]
           /\ cancelled' \subseteq {"up", "down", "sender"}
<1>1. CASE closed
  <2>1. Goes(t, "done") /\ UNCHANGED <<cancelled, writer>>
    BY <1>1 DEF EndsClosingWriter
  <2>2. "done" \in Places
    BY DEF Places
  <2> QED
    BY <2>1, <2>2, GoesThere DEF writer, WriterTypes
<1>2. CASE ~ closed
  <2>1. /\ closed' = TRUE /\ queue' = Append(queue, Stop)
        /\ pc' = [pc EXCEPT ![t] = "done", !["closer"] = "new"]
        /\ cancelled' = (cancelled \cup (IF Ended("sender") THEN {} ELSE {"sender"})) \ {t}
        /\ UNCHANGED <<drained, items, sending>>
    BY <1>2 DEF EndsClosingWriter
  <2>2. queue' \in Seq(Nat)
    BY <2>1 DEF WriterTypes, Stop
  <2>3. pc' \in [Tasks -> Places]
    BY <2>1 DEF Places
  <2> QED
    BY <2>1, <2>2, <2>3 DEF WriterTypes
<1> QED
  BY <1>1, <1>2

\* Every step keeps the types.
LEMMA RelayTypeStep == ASSUME RelayTypeOK, [Next]_vars PROVE RelayTypeOK'
<1>t. WriterTypes
  BY DEF RelayTypeOK, WriterTypes
<1>p. \A p \in {"send", "read", "drain", "end", "done", "get", "relay", "grace", "reap"} : p \in Places
  BY DEF Places
<1> USE DEF RelayTypeOK, Tasks, At, Ended, Free, Other, rest, writer, link
<1>1. CASE NotRouted
  <2>1. pc' \in [Tasks -> Places]
    BY <1>1, <1>p, GoesThere DEF NotRouted, EndsClosingApp
  <2>2. app' \in Apps
    BY <1>1, AppClosedType DEF NotRouted, EndsClosingApp
  <2> QED
    BY <1>1, <2>1, <2>2 DEF NotRouted, EndsClosingApp
<1>2. CASE Routed
  <2>1. pc' \in [Tasks -> Places]
    BY <1>2, SMT DEF Routed, Places
  <2>2. WriterTypes'
    BY <1>2, <1>t, WriteType DEF Routed, WriterTypes
  <2> QED
    BY <1>2, <2>1, <2>2 DEF Routed, WriterTypes
<1>3. CASE GreetFails
  <2>1. pc' \in [Tasks -> Places] /\ WriterTypes' /\ cancelled' \subseteq {"up", "down", "sender"}
    BY <1>3, <1>t, EndsClosingWriterType DEF GreetFails
  <2>2. app' \in Apps
    BY <1>3, AppClosedType DEF GreetFails
  <2> QED
    BY <1>3, <2>1, <2>2 DEF GreetFails, WriterTypes
<1>4. CASE Greeted
  <2>1. pc' \in [Tasks -> Places]
    BY <1>4, SMT DEF Greeted, Places
  <2> QED
    BY <1>4, <2>1 DEF Greeted
<1>5. CASE RelayEnds
  <2>1. pc' \in [Tasks -> Places]
    BY <1>5, <1>p, GoesThere DEF RelayEnds, EndsClosingApp
  <2>2. app' \in Apps
    BY <1>5, AppClosedType DEF RelayEnds, EndsClosingApp
  <2> QED
    BY <1>5, <2>1, <2>2 DEF RelayEnds, EndsClosingApp
<1>6. CASE OneSideEnds
  BY <1>6 DEF OneSideEnds, Goes, Places
<1>7. CASE GraceExpires
  BY <1>7 DEF GraceExpires, Goes, Places
<1>8. CASE UpReads
  <2>1. pc' \in [Tasks -> Places]
    BY <1>8, <1>p, GoesThere DEF UpReads, UpWaits
  <2>2. WriterTypes'
    BY <1>8, <1>t, WriteType DEF UpReads
  <2>3. app' \in Apps
    BY <1>8, SMT DEF UpReads, Apps
  <2> QED
    BY <1>8, <2>1, <2>2, <2>3 DEF UpReads, WriterTypes
<1>9. CASE UpDrained
  BY <1>9 DEF UpDrained, Goes, Places
<1>10. CASE UpEnds
  <2>1. pc' \in [Tasks -> Places] /\ WriterTypes' /\ cancelled' \subseteq {"up", "down", "sender"}
    BY <1>10, <1>t, EndsClosingWriterType DEF UpEnds
  <2> QED
    BY <1>10, <2>1 DEF UpEnds, WriterTypes
<1>11. CASE DownReads
  BY <1>11 DEF DownReads, Goes, Places
<1>12. CASE DownDrained
  BY <1>12 DEF DownDrained, Goes, Places
<1>13. CASE DownEnds
  <2>1. pc' \in [Tasks -> Places]
    BY <1>13, <1>p, GoesThere DEF DownEnds, EndsClosingApp
  <2>2. app' \in Apps
    BY <1>13, AppClosedType DEF DownEnds, EndsClosingApp
  <2> QED
    BY <1>13, <2>1, <2>2 DEF DownEnds, EndsClosingApp
<1>14. CASE SenderTakes
  <2>1. queue' \in Seq(Nat) /\ sending' \in Nat
    BY <1>14, SMT DEF SenderTakes
  <2>2. pc' \in [Tasks -> Places]
    BY <1>14, <1>p, GoesThere DEF SenderTakes
  <2>3. drained' \in BOOLEAN
    BY <1>14, Zenon DEF SenderTakes
  <2> QED
    BY <1>14, <2>1, <2>2, <2>3 DEF SenderTakes
<1>15. CASE SenderSends
  <2>1. pc' \in [Tasks -> Places]
    BY <1>15, <1>p, GoesThere DEF SenderSends, Sends
  <2>2. wire' \in Seq(Nat)
    BY <1>15, SMT DEF SenderSends, Sends, Close
  <2> QED
    BY <1>15, <2>1, <2>2 DEF SenderSends, Sends
<1>16. CASE CloserSends
  <2>1. pc' \in [Tasks -> Places]
    BY <1>16, <1>p, GoesThere DEF CloserSends, Sends
  <2>2. wire' \in Seq(Nat)
    BY <1>16, SMT DEF CloserSends, Sends, Close
  <2> QED
    BY <1>16, <2>1, <2>2 DEF CloserSends, Sends
<1>17. CASE SenderDrained
  BY <1>17 DEF SenderDrained, DrainEnds, Goes, Stop, Places
<1>18. CASE CloserDrained
  BY <1>18 DEF CloserDrained, DrainEnds, Goes, Stop, Places
<1>19. CASE SenderCancelled
  <2>1. pc' \in [Tasks -> Places]
    BY <1>19, <1>p, GoesThere DEF SenderCancelled
  <2>2. drained' \in BOOLEAN
    BY <1>19, Zenon DEF SenderCancelled
  <2> QED
    BY <1>19, <2>1, <2>2 DEF SenderCancelled
<1>20. CASE CloserStarts
  BY <1>20 DEF CloserStarts, Goes, Places
<1>21. CASE FeederEnds
  BY <1>21 DEF FeederEnds, Goes, Places
<1>22. CASE App
  <2>1. \/ app' = [app EXCEPT !.unread = @ + 1] \/ app' = [app EXCEPT !.eof = TRUE]
        \/ app' = [unread |-> 0, eof |-> TRUE, reset |-> TRUE, reads |-> FALSE]
        \/ app' = [app EXCEPT !.reads = FALSE]
    BY <1>22 DEF App
  <2>2. app' \in Apps
    <3>1. app.unread + 1 \in Nat
      BY DEF Apps
    <3>2. [app EXCEPT !.unread = @ + 1] \in Apps
      BY <3>1 DEF Apps
    <3>3. [app EXCEPT !.eof = TRUE] \in Apps
      BY DEF Apps
    <3>4. [app EXCEPT !.reads = FALSE] \in Apps
      BY DEF Apps
    <3>5. [unread |-> 0, eof |-> TRUE, reset |-> TRUE, reads |-> FALSE] \in Apps
      BY DEF Apps
    <3> QED
      BY <2>1, <3>2, <3>3, <3>4, <3>5
  <2> QED
    BY <1>22, <2>2 DEF App
<1>23. CASE StreamClosed
  BY <1>23 DEF StreamClosed
<1>24. CASE TunnelBreaks
  BY <1>24 DEF TunnelBreaks
<1>25. CASE Disconnect
  BY <1>25 DEF Disconnect
<1>26. CASE OthersSend
  BY <1>26 DEF OthersSend
<1>27. CASE StopProxy
  <2>1. running' \in BOOLEAN
    BY <1>27, Zenon DEF StopProxy
  <2> QED
    BY <1>27, <2>1 DEF StopProxy
<1>28. CASE UNCHANGED vars
  BY <1>28 DEF vars
<1> QED
  BY <1>1, <1>2, <1>3, <1>4, <1>5, <1>6, <1>7, <1>8, <1>9, <1>10, <1>11, <1>12, <1>13, <1>14, <1>15, <1>16, <1>17, <1>18, <1>19, <1>20, <1>21, <1>22, <1>23, <1>24, <1>25, <1>26, <1>27, <1>28 DEF Next, Handler, Up, Down, Sender, Closer, Environment

-----------------------------------------------------------------------------
(* The rest of the invariant.                                                *)

\* The parts of the invariant that are about the frames do not change with other variables.
LEMMA FramesKept ==
    ASSUME WireInOrder, wire' = wire,
           pc["closer"] \in {"drain", "done"} => pc'["closer"] \in {"drain", "done"}
    PROVE  WireInOrder' /\ Sent' = Sent
<1>1. Sent' = Sent
  BY DEF Sent
<1> QED
  BY <1>1 DEF WireInOrder

\* The stream is opened.
LEMMA RoutedKeeps == ASSUME RelayInv, RelayTypeOK', Routed PROVE RelayInv'
<1>1. ~ closed /\ pc["handler"] = "route" /\ "up" \notin cancelled
  BY DEF RelayInv, WriterClosed, WriterOpen, Routed, At, Ended
<1>2. /\ pc["sender"] = "off" /\ pc["up"] = "off" /\ pc["closer"] = "off" /\ items = 0
      /\ wire = <<>> /\ drained /\ queue = <<>> /\ "sender" \notin cancelled
  BY <1>1 DEF RelayInv, WriterOpen
<1>3. /\ pc'["handler"] = "greet" /\ pc'["sender"] = "get" /\ pc'["up"] = "off"
      /\ pc'["closer"] = "off"
  BY <1>1, <1>2 DEF Routed, RelayInv, RelayTypeOK, Tasks
<1>4. /\ UNCHANGED <<kind, cancelled, closed, tunnel, wire, excused>>
      /\ stream'.listed /\ ~ stream'.closed
  BY DEF Routed, Write, rest, writer
<1>5. WireInOrder' /\ Sent' = Sent /\ Len(wire) = 0
  BY <1>2, <1>3, <1>4, FramesKept DEF RelayInv
<1>6. CASE kind = "GET"
  <2>1. items' = 1 /\ queue' = <<1>> /\ ~ drained'
    <3>1. Write
      BY <1>6 DEF Routed
    <3>2. items' = 1 /\ queue' = Append(<<>>, 1)
      BY <1>1, <1>2, <3>1 DEF Write
    <3>3. ~ drained'
      BY <1>1, <3>1, Zenon DEF Write
    <3> QED
      BY <3>2, <3>3
  <2>2. WriterOpen'
    BY <1>2, <1>3, <1>4, <1>5, <1>6, <2>1 DEF WriterOpen, Carries
  <2> QED
    BY <1>1, <1>4, <1>5, <2>2 DEF RelayInv
<1>7. CASE kind # "GET"
  <2>1. items' = items /\ queue' = queue /\ drained' = drained
    BY <1>7 DEF Routed, writer
  <2>2. WriterOpen'
    BY <1>2, <1>3, <1>4, <1>5, <2>1 DEF WriterOpen, Carries
  <2> QED
    BY <1>1, <1>4, <1>5, <2>2 DEF RelayInv
<1> QED
  BY <1>6, <1>7

\* The writer is closed by the task t, while what was written has left or the stream has
\* been ended by others.
LEMMA ClosingKeeps ==
    ASSUME RelayInv, RelayTypeOK', NEW t \in {"handler", "up"}, ~ closed, EndsClosingWriter(t),
           pc["sender"] # "off", UNCHANGED <<kind, stream, tunnel, wire, excused>>,
           drained \/ excused,
           Ended("up") \/ t = "up", t = "handler" \/ pc["handler"] \notin {"route", "greet"}
    PROVE  RelayInv'
<1>1. /\ closed' = TRUE /\ items' = items
      /\ cancelled' = (cancelled \cup (IF Ended("sender") THEN {} ELSE {"sender"})) \ {t}
      /\ pc' = [pc EXCEPT ![t] = "done", !["closer"] = "new"]
  BY DEF EndsClosingWriter
<1>2. /\ pc'[t] = "done" /\ pc'["closer"] = "new" /\ pc'["sender"] = pc["sender"]
      /\ pc'["up"] = (IF t = "up" THEN "done" ELSE pc["up"])
      /\ pc'["handler"] = (IF t = "handler" THEN "done" ELSE pc["handler"])
  BY <1>1 DEF RelayInv, RelayTypeOK, Tasks
<1>3. "sender" \in cancelled' \/ Ended("sender")'
  BY <1>1, <1>2 DEF Ended
<1>4. Ended("up")' /\ "up" \notin cancelled'
  BY <1>1, <1>2 DEF RelayInv, Ended
<1>5. pc["closer"] = "off" /\ wire = Sent
  BY DEF RelayInv, WriterOpen, WireInOrder
<1>6. WireInOrder' /\ Sent' = Sent
  BY <1>5, FramesKept DEF RelayInv
<1>7. excused \/ Len(Sent) = items \/ tunnel # "up"
  <2> SUFFICES ASSUME ~ excused, tunnel = "up" PROVE Len(wire) = items
    BY <1>5
  <2>1. drained /\ Carries
    BY DEF RelayInv, RelayTypeOK, WriterOpen, Carries
  <2> QED
    BY <2>1 DEF RelayInv, WriterOpen
<1>8. WriterClosed'
  BY <1>1, <1>2, <1>3, <1>4, <1>5, <1>6, <1>7 DEF WriterClosed
<1> QED
  BY <1>1, <1>2, <1>4, <1>6, <1>8 DEF RelayInv

\* The handler fails to greet.
LEMMA GreetFailsKeeps == ASSUME RelayInv, RelayTypeOK', GreetFails PROVE RelayInv'
<1>1. pc["handler"] = "greet" /\ kind = "CONNECT" /\ EndsClosingWriter("handler")
      /\ UNCHANGED <<kind, stream, tunnel, wire, excused>>
  BY DEF GreetFails, At, rest, link
<1>2. ~ closed
  BY <1>1 DEF RelayInv, WriterClosed
<1>3. drained /\ pc["up"] = "off" /\ pc["sender"] # "off"
  BY <1>1, <1>2 DEF RelayInv, WriterOpen
<1> QED
  BY <1>1, <1>2, <1>3, ClosingKeeps DEF Ended

\* The upload ends.
LEMMA UpEndsKeeps == ASSUME RelayInv, RelayTypeOK', UpEnds PROVE RelayInv'
<1>1. /\ EndsClosingWriter("up") /\ UNCHANGED <<kind, stream, tunnel, wire, excused>>
      /\ pc["up"] \in {"read", "end"} \/ "up" \in cancelled
  BY DEF UpEnds, At, rest, link
<1>2. ~ Ended("up")
  BY <1>1 DEF RelayInv, Ended
<1>3. ~ closed
  BY <1>2 DEF RelayInv, WriterClosed
<1>4. drained \/ excused
  BY <1>1, <1>3 DEF RelayInv, WriterOpen
<1>5. pc["handler"] \notin {"route", "greet"} /\ pc["sender"] # "off"
  BY <1>2, <1>3 DEF RelayInv, WriterOpen, Ended
<1> QED
  BY <1>1, <1>2, <1>3, <1>4, <1>5, ClosingKeeps

\* The relay tasks start.
LEMMA GreetedKeeps == ASSUME RelayInv, RelayTypeOK', Greeted PROVE RelayInv'
<1>1. /\ pc["handler"] = "greet" /\ (kind = "GET" => drained)
      /\ UNCHANGED <<cancelled, writer, link>>
  BY DEF Greeted, At
<1>2. ~ closed
  BY <1>1 DEF RelayInv, WriterClosed
<1>3. drained /\ pc["up"] = "off" /\ pc["sender"] # "off" /\ pc["closer"] = "off"
  BY <1>1, <1>2 DEF RelayInv, RelayTypeOK, WriterOpen
<1>4. /\ pc'["handler"] = "relay" /\ pc'["up"] \in {"read", "end"}
      /\ pc'["sender"] = pc["sender"] /\ pc'["closer"] = "off"
  BY <1>3 DEF Greeted, RelayInv, RelayTypeOK, Tasks
<1>5. WireInOrder' /\ Sent' = Sent
  BY <1>1, <1>3, <1>4, FramesKept DEF RelayInv, link
<1>6. WriterOpen'
  BY <1>1, <1>2, <1>3, <1>4 DEF RelayInv, WriterOpen, Carries, writer, link
<1> QED
  BY <1>1, <1>2, <1>3, <1>4, <1>5, <1>6 DEF RelayInv, Ended, writer, link

\* The upward task writes what it has read.
LEMMA UpReadsKeeps == ASSUME RelayInv, RelayTypeOK', UpReads PROVE RelayInv'
<1>1. /\ pc["up"] = "read" /\ "up" \notin cancelled /\ Goes("up", "drain") /\ Write
      /\ UNCHANGED <<kind, cancelled, stream, tunnel, wire, excused>>
  BY DEF UpReads, At, UpWaits, rest, link
<1>2. ~ closed
  BY <1>1 DEF RelayInv, WriterClosed, Ended
<1>3. /\ drained /\ queue = <<>> /\ pc["sender"] = "get" /\ pc["closer"] = "off"
      /\ pc["handler"] \notin {"greet", "route"}
  BY <1>1, <1>2 DEF RelayInv, WriterOpen
<1>4. /\ pc'["up"] = "drain" /\ pc'["sender"] = "get" /\ pc'["closer"] = "off"
      /\ pc'["handler"] = pc["handler"]
  BY <1>1, <1>3 DEF RelayInv, RelayTypeOK, Tasks, Goes
<1>5. items' = items + 1 /\ items' > 0 /\ queue' = <<items'>> /\ ~ drained' /\ closed' = closed
  BY <1>1, <1>2, <1>3 DEF Write, RelayInv, RelayTypeOK
<1>6. WireInOrder' /\ Sent' = Sent
  BY <1>1, <1>3, <1>4, FramesKept DEF RelayInv
<1>7. Carries => Len(wire) = items
  BY <1>2, <1>3 DEF RelayInv, WriterOpen
<1>8. WriterOpen'
  BY <1>1, <1>2, <1>3, <1>4, <1>5, <1>7 DEF RelayInv, RelayTypeOK, WriterOpen, Carries
<1> QED
  BY <1>1, <1>2, <1>3, <1>4, <1>5, <1>6, <1>8 DEF RelayInv

\* The sender takes an item or discards it.
LEMMA SenderTakesKeeps == ASSUME RelayInv, RelayTypeOK', SenderTakes PROVE RelayInv'
<1>1. /\ pc["sender"] = "get" /\ "sender" \notin cancelled /\ queue # <<>>
      /\ queue' = Tail(queue) /\ sending' = Head(queue)
      /\ UNCHANGED <<kind, cancelled, closed, items, stream, tunnel, wire, excused>>
  BY DEF SenderTakes, At, rest, link
<1>2. ~ closed
  BY <1>1 DEF RelayInv, WriterClosed, Ended
<1>3. /\ ~ drained /\ items > 0 /\ items \in Nat /\ queue = <<items>> /\ pc["closer"] = "off"
      /\ (Carries => Len(wire) = items - 1)
  BY <1>1, <1>2 DEF RelayInv, RelayTypeOK, WriterOpen
<1>4. queue' = <<>> /\ sending' = items /\ Head(queue) # Stop
  BY <1>1, <1>3 DEF Stop
<1>5. CASE Sendable
  <2>1. Goes("sender", "send") /\ drained' = drained
    BY <1>4, <1>5 DEF SenderTakes
  <2>2. /\ pc'["sender"] = "send" /\ pc'["closer"] = "off" /\ pc'["up"] = pc["up"]
        /\ pc'["handler"] = pc["handler"]
    BY <1>3, <2>1 DEF RelayInv, RelayTypeOK, Tasks, Goes
  <2>3. WireInOrder' /\ Sent' = Sent
    BY <1>1, <1>3, <2>2, FramesKept DEF RelayInv
  <2>4. tunnel = "up" => Len(wire) = items - 1
    BY <1>3, <1>5 DEF Sendable, Carries
  <2>5. WriterOpen'
    BY <1>1, <1>2, <1>3, <1>4, <2>1, <2>2, <2>4 DEF RelayInv, WriterOpen, Carries
  <2> QED
    BY <1>1, <1>2, <2>2, <2>3, <2>5 DEF RelayInv, Ended
<1>6. CASE ~ Sendable
  <2>1. pc' = pc /\ drained' = TRUE
    BY <1>4, <1>6 DEF SenderTakes
  <2>2. WireInOrder' /\ Sent' = Sent
    BY <1>1, <2>1, FramesKept DEF RelayInv
  <2>3. ~ Carries'
    BY <1>1, <1>6 DEF Sendable, Carries
  <2>4. WriterOpen'
    BY <1>1, <1>2, <1>3, <1>4, <2>1, <2>3 DEF RelayInv, WriterOpen
  <2> QED
    BY <1>1, <1>2, <2>1, <2>2, <2>4 DEF RelayInv, Ended
<1> QED
  BY <1>5, <1>6

\* The sender's frame leaves, if the tunnel is up.
LEMMA SenderSendsKeeps == ASSUME RelayInv, RelayTypeOK', SenderSends PROVE RelayInv'
<1>1. /\ pc["sender"] = "send" /\ "sender" \notin cancelled /\ Goes("sender", "drain")
      /\ wire' = (IF tunnel = "up" THEN Append(wire, sending) ELSE wire)
      /\ UNCHANGED <<kind, cancelled, queue, drained, closed, items, sending, stream, tunnel,
                     excused>>
  BY DEF SenderSends, Sends, At, rest, writer
<1>2. ~ closed
  BY <1>1 DEF RelayInv, WriterClosed, Ended
<1>3. /\ ~ drained /\ items > 0 /\ items \in Nat /\ queue = <<>> /\ sending = items
      /\ pc["closer"] = "off" /\ (tunnel = "up" => Len(wire) = items - 1)
  BY <1>1, <1>2 DEF RelayInv, RelayTypeOK, WriterOpen
<1>4. /\ pc'["sender"] = "drain" /\ pc'["closer"] = "off" /\ pc'["up"] = pc["up"]
      /\ pc'["handler"] = pc["handler"]
  BY <1>1, <1>3 DEF RelayInv, RelayTypeOK, Tasks, Goes
<1>5. WireInOrder' /\ (tunnel = "up" => Len(wire') = items)
  <2>1. Sent = wire /\ wire \in Seq(Nat)
    BY <1>3 DEF RelayInv, RelayTypeOK, WireInOrder
  <2>2. CASE tunnel = "up"
    <3>1. items = Len(wire) + 1 /\ wire' = Append(wire, items)
      BY <1>1, <1>3, <2>1, <2>2
    <3>2. /\ Sent' = wire' /\ Len(wire') = items
          /\ \A k \in 1 .. Len(wire') : wire'[k] = k
      BY <1>3, <2>1, <3>1, DataFrame DEF RelayInv, WireInOrder
    <3> QED
      BY <3>2 DEF WireInOrder
  <2>3. CASE tunnel # "up"
    BY <1>1, <1>3, <2>3, FramesKept DEF RelayInv
  <2> QED
    BY <2>2, <2>3
<1>6. WriterOpen'
  BY <1>1, <1>2, <1>3, <1>4, <1>5 DEF RelayInv, WriterOpen, Carries
<1> QED
  BY <1>1, <1>2, <1>4, <1>5, <1>6 DEF RelayInv, Ended

\* The sender ends, after close().
LEMMA SenderCancelledKeeps == ASSUME RelayInv, RelayTypeOK', SenderCancelled PROVE RelayInv'
<1>1. /\ "sender" \in cancelled /\ cancelled' = cancelled \ {"sender"}
      /\ pc' = [pc EXCEPT !["sender"] = "done"]
      /\ UNCHANGED <<kind, closed, items, stream, tunnel, wire, excused>>
  BY DEF SenderCancelled, Goes, rest
<1>2. closed /\ closed'
  BY <1>1 DEF RelayInv, WriterOpen
<1>3. /\ pc'["sender"] = "done" /\ pc'["closer"] = pc["closer"] /\ pc'["up"] = pc["up"]
      /\ pc'["handler"] = pc["handler"]
  BY <1>1 DEF RelayInv, RelayTypeOK, Tasks
<1>4. WireInOrder' /\ Sent' = Sent
  BY <1>1, <1>3, FramesKept DEF RelayInv
<1>5. WriterClosed'
  BY <1>1, <1>2, <1>3, <1>4 DEF RelayInv, WriterClosed, Ended
<1> QED
  BY <1>1, <1>2, <1>3, <1>4, <1>5 DEF RelayInv, Ended

\* The CLOSE leaves, if the tunnel is up.
LEMMA CloserSendsKeeps == ASSUME RelayInv, RelayTypeOK', CloserSends PROVE RelayInv'
<1>1. /\ pc["closer"] = "send" /\ Goes("closer", "drain")
      /\ wire' = (IF tunnel = "up" THEN Append(wire, Close) ELSE wire)
      /\ UNCHANGED <<kind, cancelled, queue, drained, closed, items, sending, stream, tunnel,
                     excused>>
  BY DEF CloserSends, Sends, At, rest, writer
<1>2. closed /\ closed'
  BY <1>1 DEF RelayInv, WriterOpen
<1>3. /\ pc'["closer"] = "drain" /\ pc'["sender"] = pc["sender"] /\ pc'["up"] = pc["up"]
      /\ pc'["handler"] = pc["handler"]
  BY <1>1 DEF RelayInv, RelayTypeOK, Tasks, Goes
<1>4. WireInOrder' /\ Sent' = Sent /\ (tunnel # "up" => wire' = wire)
  <2>1. Sent = wire /\ wire \in Seq(Nat)
    BY <1>1 DEF RelayInv, RelayTypeOK, WireInOrder
  <2>2. CASE tunnel = "up"
    BY <1>1, <1>3, <2>1, <2>2, CloseFrame DEF RelayInv, WireInOrder
  <2>3. CASE tunnel # "up"
    BY <1>1, <1>3, <2>3, FramesKept DEF RelayInv
  <2> QED
    BY <2>2, <2>3
<1>5. WriterClosed'
  BY <1>1, <1>2, <1>3, <1>4 DEF RelayInv, WriterClosed, Ended
<1> QED
  BY <1>1, <1>2, <1>3, <1>4, <1>5 DEF RelayInv, Ended

\* Every step keeps the invariant.
LEMMA RelayStep == ASSUME RelayInv, [Next]_vars PROVE RelayInv'
<1>t. RelayTypeOK'
  BY RelayTypeStep DEF RelayInv
<1>s. wire' = wire => Sent' = Sent
  BY DEF Sent
<1> USE DEF RelayTypeOK, Tasks, At, Ended, rest, writer, link
<1>1. CASE NotRouted
  BY <1>t, <1>s, <1>1
  DEF RelayInv, WireInOrder, WriterOpen, WriterClosed, Carries, NotRouted, EndsClosingApp, Goes
<1>2. CASE RelayEnds
  BY <1>t, <1>s, <1>2
  DEF RelayInv, WireInOrder, WriterOpen, WriterClosed, Carries, RelayEnds, EndsClosingApp, Goes
<1>3. CASE OneSideEnds
  BY <1>t, <1>s, <1>3
  DEF RelayInv, WireInOrder, WriterOpen, WriterClosed, Carries, OneSideEnds, Goes
<1>4. CASE GraceExpires
  BY <1>t, <1>s, <1>4
  DEF RelayInv, WireInOrder, WriterOpen, WriterClosed, Carries, GraceExpires, Goes
<1>5. CASE UpDrained
  BY <1>t, <1>s, <1>5
  DEF RelayInv, WireInOrder, WriterOpen, WriterClosed, Carries, UpDrained, Goes
<1>6. CASE DownReads
  BY <1>t, <1>s, <1>6
  DEF RelayInv, WireInOrder, WriterOpen, WriterClosed, Carries, DownReads, Goes
<1>7. CASE DownDrained
  BY <1>t, <1>s, <1>7
  DEF RelayInv, WireInOrder, WriterOpen, WriterClosed, Carries, DownDrained, Goes
<1>8. CASE DownEnds
  BY <1>t, <1>s, <1>8
  DEF RelayInv, WireInOrder, WriterOpen, WriterClosed, Carries, DownEnds, EndsClosingApp, Goes
<1>9. CASE SenderDrained
  BY <1>t, <1>s, <1>9
  DEF RelayInv, WireInOrder, WriterOpen, WriterClosed, Carries, SenderDrained, DrainEnds, Goes, Stop
<1>10. CASE CloserStarts
  BY <1>t, <1>s, <1>10
  DEF RelayInv, WireInOrder, WriterOpen, WriterClosed, Carries, CloserStarts, Goes
<1>11. CASE CloserDrained
  BY <1>t, <1>s, <1>11
  DEF RelayInv, WireInOrder, WriterOpen, WriterClosed, Carries, CloserDrained, DrainEnds, Goes
<1>12. CASE FeederEnds
  BY <1>t, <1>s, <1>12
  DEF RelayInv, WireInOrder, WriterOpen, WriterClosed, Carries, FeederEnds, Goes
<1>13. CASE App
  BY <1>t, <1>s, <1>13
  DEF RelayInv, WireInOrder, WriterOpen, WriterClosed, Carries, App
<1>14. CASE StreamClosed
  BY <1>t, <1>s, <1>14
  DEF RelayInv, WireInOrder, WriterOpen, WriterClosed, Carries, StreamClosed
<1>15. CASE TunnelBreaks
  BY <1>t, <1>s, <1>15
  DEF RelayInv, WireInOrder, WriterOpen, WriterClosed, Carries, TunnelBreaks
<1>16. CASE Disconnect
  BY <1>t, <1>s, <1>16
  DEF RelayInv, WireInOrder, WriterOpen, WriterClosed, Carries, Disconnect
<1>17. CASE OthersSend
  BY <1>t, <1>s, <1>17
  DEF RelayInv, WireInOrder, WriterOpen, WriterClosed, Carries, OthersSend
<1>18. CASE StopProxy
  BY <1>t, <1>s, <1>18
  DEF RelayInv, WireInOrder, WriterOpen, WriterClosed, Carries, StopProxy
<1>19. CASE UNCHANGED vars
  BY <1>t, <1>s, <1>19 DEF vars, RelayInv, WireInOrder, WriterOpen, WriterClosed, Carries
<1> QED
  BY <1>1, <1>2, <1>3, <1>4, <1>5, <1>6, <1>7, <1>8, <1>9, <1>10, <1>11, <1>12, <1>13, <1>14, <1>15, <1>16, <1>17, <1>18, <1>19, <1>t,
     RoutedKeeps, GreetFailsKeeps, GreetedKeeps, UpReadsKeeps, UpEndsKeeps, SenderTakesKeeps, SenderSendsKeeps, SenderCancelledKeeps, CloserSendsKeeps
  DEF Next, Handler, Up, Down, Sender, Closer, Environment

-----------------------------------------------------------------------------
(* The theorems.                                                             *)

\* The invariant holds in every state.
LEMMA RelayInvHolds == SafeSpec => []RelayInv
<1>1. Init => RelayInv
  BY RelayInitHolds
<1>2. RelayInv /\ [Next]_vars => RelayInv'
  BY RelayStep
<1> QED
  BY <1>1, <1>2, PTL DEF SafeSpec

\* Type invariant of a request, for any number of reads.
THEOREM TypeCorrect == SafeSpec => []RelayTypeOK
<1>1. RelayInv => RelayTypeOK
  BY DEF RelayInv
<1> QED
  BY <1>1, RelayInvHolds, PTL

\* What the server gets of a stream is what the application sent, in order and without a gap,
\* then at most one CLOSE, and the CLOSE comes after everything that was read unless somebody
\* else ended the stream: close() cancels the sender (router.py:58-67), but it is called only
\* when nothing is queued, because the upward task awaits drain() after each write.
THEOREM UploadIsIntact == SafeSpec => []UpIntact
<1>1. RelayInv => UpIntact
  BY RelayInvImplies
<1> QED
  BY <1>1, RelayInvHolds, PTL
=============================================================================
