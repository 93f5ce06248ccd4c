------------------------- MODULE TunnelServerProofs -------------------------
(* Proofs about the server, for any number of clients and streams and any    *)
(* limits: its tables, permits and uploads, what a client sees of a stream,  *)
(* and that the writes to every tunnel keep FrameWriter's contract.          *)
EXTENDS TunnelServer, FiniteSetTheorems, TLAPS

USE DEF vars, loopVars, tunnelVars, tableVars, taskVars, wireVars

\* Closing sockets, in whichever streams, leaves every socket in one of its states.
LEMMA ClosingSockets ==
    ASSUME NEW S, socket \in [Keys -> {"none", "open", "closed"}], CloseSockets(S)
    PROVE  socket' \in [Keys -> {"none", "open", "closed"}]
  BY DEF CloseSockets

\* Every variable keeps its type.
THEOREM TypeCorrect == SafeSpec => []TypeOK
<1>1. Init => TypeOK
  BY MaxConnectionsAssumption, SendersAssumption, SMT DEF Init, TypeOK
<1>2. TypeOK /\ [Next]_vars => TypeOK'
  <2> SUFFICES ASSUME TypeOK, [Next]_vars PROVE TypeOK'
    OBVIOUS
  <2>k. \A k \in Keys : k[1] \in Clients
    BY DEF Keys
  <2>o. \A c \in Clients : Own(c) \subseteq Keys
    BY DEF Own, Keys
  <2>own. \A k \in Keys : k \in Own(k[1])
    BY DEF Own, Keys
  <2> USE DEF TypeOK
  <2>1. ASSUME NEW c \in Clients, Reader(c) PROVE TypeOK'
    <3>1. CASE Authenticate(c)
      BY <3>1 DEF Authenticate
    <3>2. CASE RecvPing(c)
      BY <3>2 DEF RecvPing
    <3>3. CASE LoopTakesLock(c)
      BY <3>3, SendersAssumption DEF LoopTakesLock, TakeLock
    <3>4. CASE PongSent(c)
      BY <3>4, SendersAssumption DEF PongSent, DrainEnds
    <3>5. CASE TargetDrained(c)
      BY <3>5 DEF TargetDrained
    <3>6. CASE TargetStalled(c)
      <4>1. socket' \in [Keys -> {"none", "open", "closed"}]
        BY <3>6, ClosingSockets DEF TargetStalled, RemoveRelay, PopTask
      <4> QED
        BY <3>6, <4>1, <2>o DEF TargetStalled, RemoveRelay, PopTask
    <3>7. CASE ReadEnd(c)
      BY <3>7, <2>o DEF ReadEnd
    <3>8. CASE CleanNext(c)
      <4>1. socket' \in [Keys -> {"none", "open", "closed"}]
        BY <3>8, ClosingSockets DEF CleanNext, RemoveRelay, PopTask
      <4>2. active' \in SUBSET Keys /\ relays' \in SUBSET Keys /\ cancelled' \in SUBSET Keys
        BY <3>8 DEF CleanNext, RemoveRelay, PopTask
      <4>3. /\ todo' \in [Clients -> SUBSET Keys]
            /\ \A d \in Clients : todo'[d] \subseteq todo[d]
        BY <3>8 DEF CleanNext
      <4>4. \/ reader' = reader /\ at' = at
            \/ \E k \in Own(c) : /\ reader' = [reader EXCEPT ![c] = "await"]
                                 /\ at' = [at EXCEPT ![c] = k]
        BY <3>8 DEF CleanNext
      <4>5. /\ reader[c] = "clean"
            /\ UNCHANGED <<running, tunnelVars, deferred, pending, permits, task, wireVars>>
        BY <3>8 DEF CleanNext
      <4>6. reader' \in [Clients -> {"auth", "read", "drain", "pong", "clean", "await", "gone"}]
        BY <4>4, ZenonT(40)
      <4>7. at' \in [Clients -> Keys \cup {None}]
        BY <4>4, <2>o, ZenonT(40)
      <4>8. \A d \in Clients : /\ todo'[d] \subseteq Own(d)
                               /\ at'[d] \in Own(d) \cup {None}
                               /\ reader'[d] \in {"drain", "await"} <=> at'[d] # None
                               /\ holder'[d] = Pong => reader'[d] = "pong"
        BY <4>3, <4>4, <4>5, <2>o, SendersAssumption
      <4> QED
        BY <4>1, <4>2, <4>3, <4>5, <4>6, <4>7, <4>8
    <3>9. CASE CleanAwaited(c)
      BY <3>9 DEF CleanAwaited
    <3>10. CASE CleanDone(c)
      BY <3>10 DEF CleanDone
    <3> QED
      BY <2>1, <3>1, <3>2, <3>3, <3>4, <3>5, <3>6, <3>7, <3>8, <3>9, <3>10 DEF Reader
  <2>2. ASSUME NEW k \in Keys, Frame(k) PROVE TypeOK'
    <3>1. CASE RecvConnect(k)
      BY <3>1, <2>k DEF RecvConnect, Goto, Live, Connecting
    <3>2. CASE RecvData(k)
      <4>1. Append(pending[k], sent'[k]) \in Seq(Nat) /\ Append(toTarget[k], sent'[k]) \in Seq(Nat)
        BY <3>2 DEF RecvData
      <4>2. pending' \in [Keys -> Seq(Nat)] /\ toTarget' \in [Keys -> Seq(Nat)]
        <5>1. \/ pending' = pending
              \/ pending' = [pending EXCEPT ![k] = Append(pending[k], sent'[k])]
              \/ pending' = [pending EXCEPT ![k] = <<>>]
          BY <3>2 DEF RecvData
        <5>2. \/ toTarget' = toTarget
              \/ toTarget' = [toTarget EXCEPT ![k] = Append(toTarget[k], sent'[k])]
          BY <3>2 DEF RecvData
        <5>3. <<>> \in Seq(Nat)
          OBVIOUS
        <5>4. pending' \in [Keys -> Seq(Nat)]
          BY <4>1, <5>1, <5>3, ZenonT(40)
        <5>5. toTarget' \in [Keys -> Seq(Nat)]
          BY <4>1, <5>2, ZenonT(40)
        <5> QED
          BY <5>4, <5>5
      <4>3. deferred' \in SUBSET Keys /\ dropped' \in SUBSET Keys
        BY <3>2 DEF RecvData
      <4>4. \/ reader' = reader /\ at' = at
            \/ /\ reader' = [reader EXCEPT ![k[1]] = "drain"]
               /\ at' = [at EXCEPT ![k[1]] = k]
        BY <3>2 DEF RecvData
      <4>5. /\ reader[k[1]] = "read" /\ sent' = [sent EXCEPT ![k] = @ + 1]
            /\ UNCHANGED <<running, todo, tunnelVars, active, relays, taskVars, client, toClient>>
        BY <3>2 DEF RecvData
      <4>6. \A d \in Clients : /\ at'[d] \in Own(d) \cup {None}
                               /\ reader'[d] \in {"drain", "await"} <=> at'[d] # None
                               /\ holder'[d] = Pong => reader'[d] = "pong"
        BY <4>4, <4>5, <2>k, <2>own, SendersAssumption
      <4>7. reader' \in [Clients -> {"auth", "read", "drain", "pong", "clean", "await", "gone"}]
        BY <4>4
      <4>8. at' \in [Clients -> Keys \cup {None}]
        BY <4>4
      <4>9. sent' \in [Keys -> Nat]
        BY <4>5
      <4> QED
        BY <4>2, <4>3, <4>5, <4>6, <4>7, <4>8, <4>9
    <3>3. CASE RecvClose(k)
      <4>1. socket' \in [Keys -> {"none", "open", "closed"}]
        BY <3>3, ClosingSockets DEF RecvClose, RemoveRelay, PopTask
      <4>2. active' \in SUBSET Keys /\ relays' \in SUBSET Keys /\ cancelled' \in SUBSET Keys
        BY <3>3 DEF RecvClose, RemoveRelay, PopTask
      <4>3. deferred' \in SUBSET Keys
        BY <3>3 DEF RecvClose
      <4>4. pending' \in [Keys -> Seq(Nat)]
        <5>1. pending' = pending \/ pending' = [pending EXCEPT ![k] = <<>>]
          BY <3>3 DEF RecvClose
        <5>2. <<>> \in Seq(Nat)
          OBVIOUS
        <5> QED
          BY <5>1, <5>2
      <4>5. client' \in [Keys -> {"unused", "open", "closed"}]
        BY <3>3 DEF RecvClose
      <4>6. UNCHANGED <<running, loopVars, tunnelVars, permits, task, sent, toTarget,
                        toClient, dropped>>
        BY <3>3 DEF RecvClose
      <4> QED
        BY <4>1, <4>2, <4>3, <4>4, <4>5, <4>6
    <3> QED
      BY <2>2, <3>1, <3>2, <3>3 DEF Frame
  <2>3. ASSUME NEW k \in Keys, Task(k) PROVE TypeOK'
    <3> USE DEF Goto, Live, Connecting, Relaying, Running, Sent, DrainEnds
    <3>1. CASE Start(k)
      BY <3>1, ZenonT(40) DEF Start
    <3>2. CASE Resolve(k)
      BY <3>2 DEF Resolve
    <3>3. CASE TakePermit(k)
      BY <3>3 DEF TakePermit
    <3>4. CASE TcpConnect(k)
      BY <3>4 DEF TcpConnect
    <3>5. CASE TaskTakesLock(k)
      BY <3>5, <2>k, SendersAssumption DEF TaskTakesLock, TakeLock, FrameOf, Frames
    <3>6. CASE FailSent(k)
      BY <3>6, <2>k, SendersAssumption DEF FailSent
    <3>7. CASE RegisterRelay(k)
      <4>1. socket' \in [Keys -> {"none", "open", "closed"}]
        BY <3>7, ClosingSockets DEF RegisterRelay, AfterFlush
      <4>2. task' \in [Keys -> Live \cup {"none", "done"}]
        <5> HIDE DEF Goto
        <5>1. Goto(k, "flush") \/ Goto(k, "done") \/ Goto(k, "relay")
          BY <3>7 DEF RegisterRelay, AfterFlush
        <5> QED
          BY <5>1 DEF Goto
      <4>3. /\ active' \in SUBSET Keys /\ relays' \in SUBSET Keys
            /\ deferred' \in SUBSET Keys
        BY <3>7 DEF RegisterRelay, AfterFlush
      <4>4. pending' \in [Keys -> Seq(Nat)] /\ toTarget' \in [Keys -> Seq(Nat)]
        BY <3>7 DEF RegisterRelay
      <4> QED
        BY <3>7, <4>1, <4>2, <4>3, <4>4, <2>k, SendersAssumption, SMTT(30) DEF RegisterRelay
    <3>8. CASE Flushed(k)
      <4>1. socket' \in [Keys -> {"none", "open", "closed"}]
        BY <3>8, ClosingSockets DEF Flushed, AfterFlush
      <4>2. task' \in [Keys -> Live \cup {"none", "done"}]
        <5> HIDE DEF Goto
        <5>1. Goto(k, "flush") \/ Goto(k, "done") \/ Goto(k, "relay")
          BY <3>8 DEF Flushed, AfterFlush
        <5> QED
          BY <5>1 DEF Goto
      <4>3. /\ active' \in SUBSET Keys /\ relays' \in SUBSET Keys
            /\ deferred' \in SUBSET Keys
        BY <3>8 DEF Flushed, AfterFlush
      <4> QED
        BY <3>8, <4>1, <4>2, <4>3, <2>k, SendersAssumption DEF Flushed
    <3>9. CASE TargetData(k)
      BY <3>9 DEF TargetData
    <3>10. CASE TargetEnd(k)
      BY <3>10 DEF TargetEnd
    <3>11. CASE ChunkSent(k)
      <4>1. socket' \in [Keys -> {"none", "open", "closed"}]
        BY <3>11, ClosingSockets DEF ChunkSent, RelayDone
      <4>2. task' \in [Keys -> Live \cup {"none", "done"}]
        <5> HIDE DEF Goto
        <5>1. Goto(k, "flush") \/ Goto(k, "done") \/ Goto(k, "relay")
          BY <3>11 DEF ChunkSent, RelayDone
        <5> QED
          BY <5>1 DEF Goto
      <4>3. /\ active' \in SUBSET Keys /\ relays' \in SUBSET Keys
            /\ deferred' \in SUBSET Keys
        BY <3>11 DEF ChunkSent, RelayDone
      <4> QED
        BY <3>11, <4>1, <4>2, <4>3, <2>k, SendersAssumption DEF ChunkSent
    <3>12. CASE CloseSent(k)
      <4>1. socket' \in [Keys -> {"none", "open", "closed"}]
        BY <3>12, ClosingSockets DEF CloseSent, RelayDone
      <4>2. task' \in [Keys -> Live \cup {"none", "done"}]
        BY <3>12 DEF CloseSent, RelayDone
      <4>3. /\ active' \in SUBSET Keys /\ relays' \in SUBSET Keys
            /\ deferred' \in SUBSET Keys
        BY <3>12 DEF CloseSent, RelayDone
      <4> QED
        BY <3>12, <4>1, <4>2, <4>3, <2>k, SendersAssumption DEF CloseSent
    <3>13. CASE Cancelled(k)
      <4>1. socket' \in [Keys -> {"none", "open", "closed"}]
        BY <3>13, ClosingSockets DEF Cancelled, RelayDone
      <4>2. task' \in [Keys -> Live \cup {"none", "done"}]
        BY <3>13 DEF Cancelled, RelayDone
      <4>3. /\ active' \in SUBSET Keys /\ relays' \in SUBSET Keys
            /\ deferred' \in SUBSET Keys
        BY <3>13 DEF Cancelled, RelayDone
      <4> QED
        BY <3>13, <4>1, <4>2, <4>3, <2>k, SendersAssumption DEF Cancelled
    <3> QED
      BY <2>3, <3>1, <3>2, <3>3, <3>4, <3>5, <3>6, <3>7, <3>8, <3>9, <3>10, <3>11,
         <3>12, <3>13 DEF Task
  <2>4. ASSUME NEW c \in Clients, Environment(c) PROVE TypeOK'
    BY <2>4, ZenonT(40) DEF Environment, PeerStalls, ConnLost
  <2>5. CASE Stop \/ CloseAll
    <3>1. CASE Stop
      BY <3>1 DEF Stop
    <3>2. CASE CloseAll
      BY <3>2, ClosingSockets DEF CloseAll
    <3> QED
      BY <2>5, <3>1, <3>2
  <2>6. CASE UNCHANGED vars
    BY <2>6
  <2> QED
    BY <2>1, <2>2, <2>3, <2>4, <2>5, <2>6 DEF Next
<1> QED
  BY <1>1, <1>2, PTL DEF SafeSpec
-----------------------------------------------------------------------------
(* The tables of the server agree with its tasks.                            *)

\* What the tables say of stream k.  Beyond RelayBacked: a task that runs can be found in
\* active_streams, one that is to be cancelled has not ended, and a stream for which no
\* CONNECT came is in no table.
StreamTables(k) ==
    /\ k \in relays => /\ socket[k] = "open" /\ task[k] \in Relaying \cup {"flush"}
                      /\ k \in active /\ k \notin cancelled
                      /\ pending[k] = <<>>
    /\ client[k] = "unused" => task[k] = "none" /\ k \notin active
    /\ k \in active => task[k] # "none"
    /\ task[k] \in Live /\ k \notin cancelled => k \in active
    /\ k \in cancelled => task[k] \in Live
    /\ task[k] = "ok" => socket[k] = "open"

\* The snapshot a cleanup still has to go through holds every stream left in the tables.
CleanupTables(c) ==
    /\ reader[c] \in {"clean", "await", "gone"} => active \cap Own(c) \subseteq todo[c]
    /\ reader[c] = "gone" => /\ todo[c] = {} /\ deferred \cap Own(c) = {}
                            /\ \A k \in Own(c) : pending[k] = <<>>


\* The tables agree with the place of every stream, in every state.
LEMMA StreamTablesHold == SafeSpec => [](\A k \in Keys : StreamTables(k))
<1> DEFINE Inv == \A k \in Keys : StreamTables(k)
<1>1. Init => Inv
  BY SMT DEF Init, StreamTables, Live, Connecting, Relaying
<1>2. TypeOK /\ Inv /\ [Next]_vars => Inv'
  <2> SUFFICES ASSUME TypeOK, Inv, [Next]_vars, NEW j \in Keys PROVE StreamTables(j)'
    OBVIOUS
  <2>t. /\ task \in [Keys -> Live \cup {"none", "done"}]
        /\ socket \in [Keys -> {"none", "open", "closed"}]
        /\ client \in [Keys -> {"unused", "open", "closed"}]
        /\ DOMAIN pending = Keys
    BY DEF TypeOK
  <2>j. StreamTables(j)
    OBVIOUS
  <2> HIDE DEF Inv
  <2> USE DEF StreamTables, CloseSockets, Live, Connecting, Relaying
  <2>1. ASSUME NEW c \in Clients, Reader(c) PROVE StreamTables(j)'
    <3>1. CASE Authenticate(c)
      BY <3>1, <2>t, <2>j DEF Authenticate
    <3>2. CASE RecvPing(c)
      BY <3>2, <2>t, <2>j DEF RecvPing
    <3>3. CASE LoopTakesLock(c)
      BY <3>3, <2>t, <2>j DEF LoopTakesLock
    <3>4. CASE PongSent(c)
      BY <3>4, <2>t, <2>j DEF PongSent
    <3>5. CASE TargetDrained(c)
      BY <3>5, <2>t, <2>j DEF TargetDrained
    <3>6. CASE TargetStalled(c)
      BY <3>6, <2>t, <2>j DEF TargetStalled, RemoveRelay, PopTask
    <3>7. CASE ReadEnd(c)
      BY <3>7, <2>t, <2>j DEF ReadEnd
    <3>8. CASE CleanNext(c)
      BY <3>8, <2>t, <2>j DEF CleanNext, RemoveRelay, PopTask
    <3>9. CASE CleanAwaited(c)
      BY <3>9, <2>t, <2>j DEF CleanAwaited
    <3>10. CASE CleanDone(c)
      BY <3>10, <2>t, <2>j DEF CleanDone
    <3> QED
      BY <2>1, <3>1, <3>2, <3>3, <3>4, <3>5, <3>6, <3>7, <3>8, <3>9, <3>10 DEF Reader
  <2>2. ASSUME NEW k \in Keys, Frame(k) PROVE StreamTables(j)'
    <3>1. CASE RecvConnect(k)
      BY <3>1, <2>t, <2>j DEF RecvConnect, Goto
    <3>2. CASE RecvData(k)
      BY <3>2, <2>t, <2>j DEF RecvData
    <3>3. CASE RecvClose(k)
      BY <3>3, <2>t, <2>j DEF RecvClose, RemoveRelay, PopTask
    <3> QED
      BY <2>2, <3>1, <3>2, <3>3 DEF Frame
  <2>3. ASSUME NEW k \in Keys, Task(k) PROVE StreamTables(j)'
    <3>1. CASE Start(k)
      BY <3>1, <2>t, <2>j DEF Start, Running, Goto
    <3>2. CASE Resolve(k)
      BY <3>2, <2>t, <2>j DEF Resolve, Running, Goto
    <3>3. CASE TakePermit(k)
      BY <3>3, <2>t, <2>j DEF TakePermit, Running, Goto
    <3>4. CASE TcpConnect(k)
      BY <3>4, <2>t, <2>j DEF TcpConnect, Running, Goto
    <3>5. CASE TaskTakesLock(k)
      BY <3>5, <2>t, <2>j DEF TaskTakesLock
    <3>6. CASE FailSent(k)
      BY <3>6, <2>t, <2>j DEF FailSent, Sent, Goto
    <3>7. CASE RegisterRelay(k)
      BY <3>7, <2>t, <2>j DEF RegisterRelay, Sent, AfterFlush, Goto
    <3>8. CASE Flushed(k)
      BY <3>8, <2>t, <2>j DEF Flushed, AfterFlush, Goto, Running
    <3>9. CASE TargetData(k)
      BY <3>9, <2>t, <2>j DEF TargetData, Running, Goto
    <3>10. CASE TargetEnd(k)
      BY <3>10, <2>t, <2>j DEF TargetEnd, Running, Goto
    <3>11. CASE ChunkSent(k)
      BY <3>11, <2>t, <2>j DEF ChunkSent, Sent, RelayDone, Goto
    <3>12. CASE CloseSent(k)
      BY <3>12, <2>t, <2>j DEF CloseSent, Sent, RelayDone, Goto
    <3>13. CASE Cancelled(k)
      BY <3>13, <2>t, <2>j DEF Cancelled, RelayDone, Goto
    <3> QED
      BY <2>3, <3>1, <3>2, <3>3, <3>4, <3>5, <3>6, <3>7, <3>8, <3>9, <3>10, <3>11, <3>12, <3>13 DEF Task
  <2>4. ASSUME NEW c \in Clients, Environment(c) PROVE StreamTables(j)'
    BY <2>4, <2>j DEF Environment, PeerStalls, ConnLost
  <2>5. CASE Stop \/ CloseAll
    BY <2>5, <2>t, <2>j DEF Stop, CloseAll
  <2>6. CASE UNCHANGED vars
    BY <2>6, <2>j
  <2> QED
    BY <2>1, <2>2, <2>3, <2>4, <2>5, <2>6 DEF Next
<1> QED
  BY <1>1, <1>2, TypeCorrect, PTL DEF SafeSpec

\* A registered relay has an open target, a task that relays and can be cancelled, and no
\* buffered DATA behind it.
THEOREM RelaysAreBacked == SafeSpec => []RelayBacked
<1>1. TypeOK /\ (\A k \in Keys : StreamTables(k)) => RelayBacked
  BY DEF TypeOK, StreamTables, RelayBacked
<1> QED
  BY <1>1, TypeCorrect, StreamTablesHold, PTL

\* The cleanup has in hand what its connection still has in the tables, in every state.
LEMMA CleanupTablesHold == SafeSpec => [](\A c \in Clients : CleanupTables(c))
<1> DEFINE Streams1 == \A k \in Keys : StreamTables(k)
           Inv == \A c \in Clients : CleanupTables(c)
<1>1. Init => Inv
  BY SMT DEF Init, CleanupTables
<1>2. TypeOK /\ Streams1 /\ Inv /\ [Next]_vars => Inv'
  <2> SUFFICES ASSUME TypeOK, Streams1, Inv, [Next]_vars, NEW d \in Clients
               PROVE CleanupTables(d)'
    OBVIOUS
  <2>t. /\ DOMAIN reader = Clients /\ DOMAIN todo = Clients /\ DOMAIN pending = Keys
        /\ \A c \in Clients : at[c] # None <=> reader[c] \in {"drain", "await"}
    BY DEF TypeOK
  <2>k. \A k \in Keys : k[1] \in Clients /\ \A c \in Clients : k \in Own(c) <=> k[1] = c
    BY DEF Keys, Own
  <2>o. Own(d) \subseteq Keys
    BY DEF Keys, Own
  <2>l. \A k \in Keys : task[k] \in {"ok", "flush"} /\ k \notin cancelled => k \in active
    BY DEF StreamTables, Live, Connecting
  <2>d. CleanupTables(d)
    OBVIOUS
  <2> HIDE DEF Inv, Streams1
  <2> USE DEF CleanupTables
  <2>1. ASSUME NEW c \in Clients, Reader(c) PROVE CleanupTables(d)'
    <3>1. CASE Authenticate(c)
      BY <3>1, <2>t, <2>k, <2>o, <2>l, <2>d DEF Authenticate
    <3>2. CASE RecvPing(c)
      BY <3>2, <2>t, <2>k, <2>o, <2>l, <2>d DEF RecvPing
    <3>3. CASE LoopTakesLock(c)
      BY <3>3, <2>t, <2>k, <2>o, <2>l, <2>d DEF LoopTakesLock
    <3>4. CASE PongSent(c)
      BY <3>4, <2>t, <2>k, <2>o, <2>l, <2>d DEF PongSent
    <3>5. CASE TargetDrained(c)
      BY <3>5, <2>t, <2>k, <2>o, <2>l, <2>d DEF TargetDrained
    <3>6. CASE TargetStalled(c)
      BY <3>6, <2>t, <2>k, <2>o, <2>l, <2>d DEF TargetStalled, RemoveRelay, PopTask
    <3>7. CASE ReadEnd(c)
      BY <3>7, <2>t, <2>k, <2>o, <2>l, <2>d DEF ReadEnd
    <3>8. CASE CleanNext(c)
      BY <3>8, <2>t, <2>k, <2>o, <2>l, <2>d DEF CleanNext, RemoveRelay, PopTask
    <3>9. CASE CleanAwaited(c)
      BY <3>9, <2>t, <2>k, <2>o, <2>l, <2>d DEF CleanAwaited
    <3>10. CASE CleanDone(c)
      BY <3>10, <2>t, <2>k, <2>o, <2>l, <2>d DEF CleanDone
    <3> QED
      BY <2>1, <3>1, <3>2, <3>3, <3>4, <3>5, <3>6, <3>7, <3>8, <3>9, <3>10 DEF Reader
  <2>2. ASSUME NEW k \in Keys, Frame(k) PROVE CleanupTables(d)'
    <3>1. CASE RecvConnect(k)
      BY <3>1, <2>t, <2>k, <2>o, <2>l, <2>d DEF RecvConnect
    <3>2. CASE RecvData(k)
      BY <3>2, <2>t, <2>k, <2>o, <2>l, <2>d DEF RecvData
    <3>3. CASE RecvClose(k)
      BY <3>3, <2>t, <2>k, <2>o, <2>l, <2>d DEF RecvClose, RemoveRelay, PopTask
    <3> QED
      BY <2>2, <3>1, <3>2, <3>3 DEF Frame
  <2>3. ASSUME NEW k \in Keys, Task(k) PROVE CleanupTables(d)'
    <3>1. CASE Start(k)
      BY <3>1, <2>t, <2>k, <2>o, <2>l, <2>d DEF Start
    <3>2. CASE Resolve(k)
      BY <3>2, <2>t, <2>k, <2>o, <2>l, <2>d DEF Resolve
    <3>3. CASE TakePermit(k)
      BY <3>3, <2>t, <2>k, <2>o, <2>l, <2>d DEF TakePermit
    <3>4. CASE TcpConnect(k)
      BY <3>4, <2>t, <2>k, <2>o, <2>l, <2>d DEF TcpConnect
    <3>5. CASE TaskTakesLock(k)
      BY <3>5, <2>t, <2>k, <2>o, <2>l, <2>d DEF TaskTakesLock
    <3>6. CASE FailSent(k)
      BY <3>6, <2>t, <2>k, <2>o, <2>l, <2>d DEF FailSent, Sent
    <3>7. CASE RegisterRelay(k)
      BY <3>7, <2>t, <2>k, <2>o, <2>l, <2>d DEF RegisterRelay, Sent, AfterFlush
    <3>8. CASE Flushed(k)
      BY <3>8, <2>t, <2>k, <2>o, <2>l, <2>d DEF Flushed, AfterFlush, Running
    <3>9. CASE TargetData(k)
      BY <3>9, <2>t, <2>k, <2>o, <2>l, <2>d DEF TargetData
    <3>10. CASE TargetEnd(k)
      BY <3>10, <2>t, <2>k, <2>o, <2>l, <2>d DEF TargetEnd
    <3>11. CASE ChunkSent(k)
      BY <3>11, <2>t, <2>k, <2>o, <2>l, <2>d DEF ChunkSent, RelayDone
    <3>12. CASE CloseSent(k)
      BY <3>12, <2>t, <2>k, <2>o, <2>l, <2>d DEF CloseSent, RelayDone
    <3>13. CASE Cancelled(k)
      BY <3>13, <2>t, <2>k, <2>o, <2>l, <2>d DEF Cancelled, RelayDone
    <3> QED
      BY <2>3, <3>1, <3>2, <3>3, <3>4, <3>5, <3>6, <3>7, <3>8, <3>9, <3>10, <3>11, <3>12, <3>13 DEF Task
  <2>4. ASSUME NEW c \in Clients, Environment(c) PROVE CleanupTables(d)'
    BY <2>4, <2>d DEF Environment, PeerStalls, ConnLost
  <2>5. CASE Stop \/ CloseAll
    BY <2>5, <2>d DEF Stop, CloseAll
  <2>6. CASE UNCHANGED vars
    BY <2>6, <2>d
  <2> QED
    BY <2>1, <2>2, <2>3, <2>4, <2>5, <2>6 DEF Next
<1> QED
  BY <1>1, <1>2, TypeCorrect, StreamTablesHold, PTL DEF SafeSpec

\* When the read loop of a client has ended, no table holds anything of the client, and the
\* tasks that still run are about to be cancelled.
THEOREM GoneLeavesNothing == SafeSpec => []GoneIsClean
<1>1. /\ TypeOK
      /\ \A k \in Keys : StreamTables(k)
      /\ \A c \in Clients : CleanupTables(c)
      => GoneIsClean
  <2> SUFFICES ASSUME TypeOK, \A k \in Keys : StreamTables(k), \A c \in Clients : CleanupTables(c),
                      NEW c \in Clients, reader[c] = "gone", NEW k \in Own(c)
               PROVE  /\ k \notin active \cup relays \cup deferred /\ pending[k] = <<>>
                      /\ task[k] \in Live => k \in cancelled
    BY DEF GoneIsClean
  <2>1. k \in Keys
    BY DEF Own, Keys
  <2> QED
    BY <2>1 DEF StreamTables, CleanupTables
<1> QED
  BY <1>1, TypeCorrect, StreamTablesHold, CleanupTablesHold, PTL
-----------------------------------------------------------------------------
(* No permit of the semaphore is lost or made.                               *)

\* The tasks inside "async with self._semaphore".
Holders == {k \in Keys : task[k] \in Permitted}

\* A step of task k from outside the semaphore to outside it, or from inside to inside,
\* leaves the set of holders alone; entering adds k to it and leaving removes k.
LEMMA HoldersStep ==
    ASSUME TypeOK, NEW k \in Keys, NEW state, Goto(k, state)
    PROVE  Holders' = IF state \in Permitted THEN Holders \cup {k} ELSE Holders \ {k}
  BY DEF TypeOK, Goto, Holders

\* The permits and the tasks that hold one are max_connections together, and the holders
\* stay finitely many however many streams there may be.
THEOREM PermitsAreConserved == SafeSpec => []PermitsConserved
<1> DEFINE Inv == IsFiniteSet(Holders) /\ permits + Cardinality(Holders) = MaxConnections
           Streams1 == \A k \in Keys : StreamTables(k)
<1>1. Init => Inv
  <2> SUFFICES ASSUME Init PROVE Inv
    OBVIOUS
  <2>1. Holders = {}
    BY DEF Init, Holders, Permitted
  <2> QED
    BY <2>1, FS_EmptySet, MaxConnectionsAssumption DEF Init
<1>2. TypeOK /\ TypeOK' /\ Streams1 /\ Inv /\ [Next]_vars => Inv'
  <2> SUFFICES ASSUME TypeOK, TypeOK', Streams1, Inv, [Next]_vars PROVE Inv'
    OBVIOUS
  <2>c. Cardinality(Holders) \in Nat /\ permits \in Nat /\ permits' \in Nat
    BY FS_CardinalityType DEF TypeOK
  <2>s. ASSUME task' = task, permits' = permits PROVE Inv'
    BY <2>s DEF Holders
  <2>same. ASSUME NEW k \in Keys, NEW state, Goto(k, state), permits' = permits,
                  task[k] \in Permitted <=> state \in Permitted
           PROVE  Inv'
    <3>1. Holders' = Holders
      BY <2>same, HoldersStep DEF Holders
    <3> QED
      BY <3>1, <2>same
  <2>out. ASSUME NEW k \in Keys, NEW state, Goto(k, state), permits' = permits + 1,
                 task[k] \in Permitted, state \notin Permitted
          PROVE  Inv'
    <3>1. Holders' = Holders \ {k} /\ k \in Holders
      BY <2>out, HoldersStep DEF Holders
    <3>2. IsFiniteSet(Holders') /\ Cardinality(Holders') = Cardinality(Holders) - 1
      BY <3>1, FS_RemoveElement
    <3> QED
      BY <3>2, <2>out, <2>c
  <2>in. ASSUME NEW k \in Keys, NEW state, Goto(k, state), permits' = permits - 1,
                task[k] \notin Permitted, state \in Permitted
         PROVE  Inv'
    <3>1. Holders' = Holders \cup {k} /\ k \notin Holders
      BY <2>in, HoldersStep DEF Holders
    <3>2. IsFiniteSet(Holders') /\ Cardinality(Holders') = Cardinality(Holders) + 1
      BY <3>1, FS_AddElement
    <3> QED
      BY <3>2, <2>in, <2>c
  <2> HIDE DEF Inv
  <2> USE DEF Permitted
  <2>1. ASSUME NEW c \in Clients, Reader(c) PROVE Inv'
    BY <2>1, <2>s DEF Reader, Authenticate, RecvPing, LoopTakesLock, PongSent, TargetDrained, TargetStalled, ReadEnd, CleanNext, CleanAwaited, CleanDone
  <2>2. ASSUME NEW k \in Keys, Frame(k) PROVE Inv'
    <3>1. CASE RecvConnect(k)
      <4>1. task[k] = "none"
        BY <3>1 DEF RecvConnect, StreamTables
      <4> QED
        BY <3>1, <4>1, <2>same DEF RecvConnect
    <3>2. CASE RecvData(k) \/ RecvClose(k)
      BY <3>2, <2>s DEF RecvData, RecvClose
    <3> QED
      BY <2>2, <3>1, <3>2 DEF Frame
  <2>3. ASSUME NEW k \in Keys, Task(k) PROVE Inv'
    <3> USE DEF Running, Sent
    <3>1. CASE Start(k) \/ Resolve(k) \/ TargetData(k) \/ TargetEnd(k)
      <4>1. PICK state \in {"fail", "sem", "dns", "done", "rsend", "rclose"} : Goto(k, state)
        BY <3>1 DEF Start, Resolve, TargetData, TargetEnd
      <4>2. permits' = permits /\ task[k] \in {"start", "dns", "relay"}
        BY <3>1 DEF Start, Resolve, TargetData, TargetEnd
      <4> QED
        BY <4>1, <4>2, <2>same
    <3>2. CASE TakePermit(k)
      BY <3>2, <2>in DEF TakePermit
    <3>3. CASE TcpConnect(k)
      <4>1. PICK state \in {"ok", "failtcp"} : Goto(k, state)
        BY <3>3 DEF TcpConnect
      <4> QED
        BY <3>3, <4>1, <2>same DEF TcpConnect
    <3>4. CASE TaskTakesLock(k)
      BY <3>4, <2>s DEF TaskTakesLock
    <3>5. CASE FailSent(k)
      BY <3>5, <2>same, <2>out DEF FailSent
    <3>6. CASE RegisterRelay(k)
      <4>1. PICK state \in {"flush", "done", "relay"} : Goto(k, state)
        BY <3>6 DEF RegisterRelay, AfterFlush
      <4> QED
        BY <3>6, <4>1, <2>out DEF RegisterRelay
    <3>7. CASE Flushed(k)
      <4>1. PICK state \in {"done", "relay"} : Goto(k, state)
        BY <3>7 DEF Flushed, AfterFlush
      <4> QED
        BY <3>7, <4>1, <2>same DEF Flushed
    <3>8. CASE ChunkSent(k) \/ CloseSent(k)
      <4>1. PICK state \in {"done", "relay"} : Goto(k, state)
        BY <3>8 DEF ChunkSent, CloseSent, RelayDone
      <4>2. permits' = permits /\ task[k] \in {"rsend", "rclose"}
        BY <3>8 DEF ChunkSent, CloseSent
      <4> QED
        BY <4>1, <4>2, <2>same
    <3>9. CASE Cancelled(k)
      <4>1. Goto(k, "done")
        BY <3>9 DEF Cancelled, RelayDone
      <4> QED
        BY <3>9, <4>1, <2>same, <2>out DEF Cancelled
    <3> QED
      BY <2>3, <3>1, <3>2, <3>3, <3>4, <3>5, <3>6, <3>7, <3>8, <3>9 DEF Task
  <2>4. ASSUME NEW c \in Clients, Environment(c) PROVE Inv'
    BY <2>4, <2>s DEF Environment, PeerStalls, ConnLost
  <2>5. CASE Stop \/ CloseAll \/ UNCHANGED vars
    BY <2>5, <2>s DEF Stop, CloseAll
  <2> QED
    BY <2>1, <2>2, <2>3, <2>4, <2>5 DEF Next
<1>3. Inv => PermitsConserved
  BY DEF PermitsConserved, Holders
<1> QED
  BY <1>1, <1>2, <1>3, TypeCorrect, StreamTablesHold, PTL DEF SafeSpec
-----------------------------------------------------------------------------
(* DATA reaches the target in order.                                         *)

\* b holds some of the numbers 1, ..., n, in increasing order; b starts with no gap.
Numbered(b, n) == /\ \A i \in 1..Len(b) : b[i] \in 1..n
                  /\ \A i, j \in 1..Len(b) : i < j => b[i] < b[j]
Gapless(b) == \A i \in 1..Len(b) : b[i] = i

\* One byte more: the number grows, and the sequence may take the byte.
LEMMA NumberedNext ==
    ASSUME NEW b \in Seq(Nat), NEW n \in Nat, Numbered(b, n)
    PROVE  /\ Numbered(b, n + 1)
           /\ Numbered(Append(b, n + 1), n + 1)
           /\ Len(Append(b, n + 1)) = Len(b) + 1
           /\ Gapless(b) /\ Len(b) = n => Gapless(Append(b, n + 1))
<1>1. /\ Len(b) \in Nat /\ Len(Append(b, n + 1)) = Len(b) + 1
      /\ \A i \in 1..Len(b) + 1 : Append(b, n + 1)[i] = IF i = Len(b) + 1 THEN n + 1 ELSE b[i]
  OBVIOUS
<1>2. \A i \in 1..Len(b) : b[i] \in 1..n
  BY DEF Numbered
<1>3. Numbered(b, n + 1)
  BY <1>2 DEF Numbered
<1>4. Numbered(Append(b, n + 1), n + 1)
  <2>1. \A i \in 1..Len(b) + 1 : Append(b, n + 1)[i] \in 1..n + 1
    BY <1>1, <1>2
  <2>2. \A i, j \in 1..Len(b) + 1 : i < j => Append(b, n + 1)[i] < Append(b, n + 1)[j]
    BY <1>1, <1>2 DEF Numbered
  <2> QED
    BY <1>1, <2>1, <2>2 DEF Numbered
<1>5. Gapless(b) /\ Len(b) = n => Gapless(Append(b, n + 1))
  BY <1>1 DEF Gapless
<1> QED
  BY <1>1, <1>3, <1>4, <1>5

\* A first part of numbered bytes is numbered, and has no gap if the whole has none.
LEMMA NumberedPrefix ==
    ASSUME NEW s \in Seq(Nat), NEW t \in Seq(Nat), NEW n \in Nat, Numbered(s \o t, n)
    PROVE  Numbered(s, n) /\ (Gapless(s \o t) => Gapless(s))
<1>1. /\ Len(s) \in Nat /\ Len(t) \in Nat /\ Len(s \o t) = Len(s) + Len(t)
      /\ \A i \in 1..Len(s) : (s \o t)[i] = s[i]
  OBVIOUS
<1>2. 1..Len(s) \subseteq 1..Len(s \o t)
  BY <1>1
<1>3. Numbered(s, n)
  BY <1>1, <1>2 DEF Numbered
<1>4. Gapless(s \o t) => Gapless(s)
  BY <1>1, <1>2 DEF Gapless
<1> QED
  BY <1>3, <1>4

\* Bytes behind bytes.
LEMMA AppendToBytes ==
    ASSUME NEW s \in Seq(Nat), NEW t \in Seq(Nat), NEW n \in Nat
    PROVE  /\ s \o <<>> = s
           /\ s \o t \in Seq(Nat)
           /\ s \o Append(t, n) = Append(s \o t, n)
  OBVIOUS

\* What was written to the target of k and what is buffered for it.
Bytes(k) == toTarget[k] \o pending[k]

\* Why InOrderDelivery lasts: as long as nothing was dropped, the bytes of a stream in
\* active_streams are all that were sent on it.
Ordered(k) ==
    /\ client[k] = "unused" => sent[k] = 0
    /\ Numbered(Bytes(k), sent[k])
    /\ k \notin dropped => /\ Gapless(Bytes(k))
                           /\ k \in active \/ client[k] = "unused" => Len(Bytes(k)) = sent[k]

\* The bytes of every stream are in order, in every state.
LEMMA StreamsAreOrdered == SafeSpec => [](\A k \in Keys : Ordered(k))
<1> DEFINE Others == /\ \A k \in Keys : StreamTables(k)
                     /\ \A c \in Clients : CleanupTables(c)
           Inv == \A k \in Keys : Ordered(k)
<1>1. Init => Inv
  <2> SUFFICES ASSUME Init, NEW k \in Keys PROVE Ordered(k)
    OBVIOUS
  <2>1. toTarget[k] = <<>> /\ pending[k] = <<>> /\ sent[k] = 0
    BY DEF Init
  <2>2. Bytes(k) = <<>> /\ Len(Bytes(k)) = 0
    BY <2>1 DEF Bytes
  <2> QED
    BY <2>1, <2>2 DEF Ordered, Numbered, Gapless
<1>2. TypeOK /\ TypeOK' /\ Others /\ Inv /\ [Next]_vars => Inv'
  <2> SUFFICES ASSUME TypeOK, TypeOK', Others, Inv, [Next]_vars, NEW j \in Keys PROVE Ordered(j)'
    OBVIOUS
  <2>t. /\ toTarget[j] \in Seq(Nat) /\ pending[j] \in Seq(Nat) /\ sent[j] \in Nat
        /\ sent'[j] \in Nat
        /\ DOMAIN client = Keys /\ DOMAIN sent = Keys /\ DOMAIN pending = Keys
        /\ DOMAIN toTarget = Keys
    BY DEF TypeOK
  <2>j. Ordered(j)
    OBVIOUS
  <2>s. StreamTables(j)
    OBVIOUS
  <2>b. Bytes(j) \in Seq(Nat)
    BY <2>t, AppendToBytes DEF Bytes
  \* The bytes are the same, and a stream enters active_streams with its CONNECT only.
  <2>same. ASSUME Bytes(j)' = Bytes(j), sent'[j] = sent[j],
                  client'[j] = "unused" => client[j] = "unused",
                  j \in active' => j \in active \/ client[j] = "unused",
                  j \in dropped => j \in dropped'
           PROVE  Ordered(j)'
    BY <2>same, <2>j DEF Ordered
  \* What is buffered is thrown away, for a stream that is dropped or not in the tables.
  <2>cut. ASSUME toTarget'[j] = toTarget[j], pending'[j] = <<>>, sent'[j] >= sent[j],
                 client'[j] = "unused" => client[j] = "unused" /\ sent'[j] = sent[j],
                 j \notin dropped' => j \notin dropped /\ j \notin active',
                 sent'[j] \in {sent[j], sent[j] + 1}
          PROVE  Ordered(j)'
    <3>1. Bytes(j)' = toTarget[j]
      BY <2>cut, <2>t, AppendToBytes DEF Bytes
    <3>2. Numbered(toTarget[j], sent[j]) /\ (Gapless(Bytes(j)) => Gapless(toTarget[j]))
      BY <2>t, <2>j, NumberedPrefix DEF Ordered, Bytes
    <3>3. Numbered(toTarget[j], sent'[j])
      BY <3>2, <2>cut, <2>t, NumberedNext
    <3>4. client'[j] = "unused" => sent'[j] = 0 /\ Len(toTarget[j]) = 0
      <4>1. Len(toTarget[j]) \in Nat
        BY <2>t
      <4> QED
        BY <4>1, <3>3, <2>cut, <2>j DEF Ordered, Numbered
    <3> QED
      BY <3>1, <3>2, <3>3, <3>4, <2>cut, <2>j DEF Ordered
  <2> HIDE DEF Inv
  <2>1. ASSUME NEW c \in Clients, Reader(c) PROVE Ordered(j)'
    <3>1. CASE CleanDone(c)
      <4>1. CASE j[1] = c
        <5>1. j \in Own(c)
          BY <4>1 DEF Keys, Own
        <5>2. j \notin active
          BY <3>1, <5>1 DEF CleanDone, CleanupTables
        <5>3. pending'[j] = <<>>
          BY <3>1, <4>1, <2>t DEF CleanDone
        <5> QED
          BY <3>1, <5>2, <5>3, <2>t, <2>cut DEF CleanDone
      <4>2. CASE j[1] # c
        <5>1. pending'[j] = pending[j]
          BY <3>1, <4>2, <2>t DEF CleanDone
        <5> QED
          BY <3>1, <5>1, <2>same DEF CleanDone, Bytes
      <4> QED
        BY <4>1, <4>2
    <3>2. ASSUME ~CleanDone(c) PROVE Ordered(j)'
      <4>1. /\ UNCHANGED <<toTarget, pending, sent, client>>
            /\ active' \subseteq active /\ dropped \subseteq dropped'
        BY <2>1, <3>2 DEF Reader, Authenticate, RecvPing, LoopTakesLock, PongSent, TargetDrained, TargetStalled, ReadEnd, CleanNext, CleanAwaited, PopTask
      <4> QED
        BY <4>1, <2>same DEF Bytes
    <3> QED
      BY <3>1, <3>2
  <2>2. ASSUME NEW k \in Keys, Frame(k) PROVE Ordered(j)'
    <3>1. CASE RecvConnect(k)
      BY <3>1, <2>t, <2>same DEF RecvConnect, Bytes
    <3>2. CASE RecvClose(k)
      <4>1. pending'[j] = pending[j]
        BY <3>2, <2>s, <2>t DEF RecvClose, StreamTables
      <4>2. /\ UNCHANGED <<toTarget, sent, dropped>> /\ active' \subseteq active
            /\ client'[j] = "unused" => client[j] = "unused"
        BY <3>2, <2>t DEF RecvClose, PopTask
      <4> QED
        BY <4>1, <4>2, <2>same DEF Bytes
    <3>3. CASE RecvData(k)
      <4>1. CASE k # j
        <5>1. /\ toTarget'[j] = toTarget[j] /\ pending'[j] = pending[j] /\ sent'[j] = sent[j]
              /\ UNCHANGED <<client, active>> /\ (j \in dropped => j \in dropped')
          BY <3>3, <4>1, <2>t DEF RecvData
        <5> QED
          BY <5>1, <2>same DEF Bytes
      <4>2. CASE k = j
        <5>1. /\ client[j] = "open" /\ sent'[j] = sent[j] + 1
              /\ UNCHANGED <<client, active>> /\ (j \in dropped => j \in dropped')
          BY <3>3, <4>2, <2>t DEF RecvData
        <5>2. CASE Bytes(j)' = Append(Bytes(j), sent[j] + 1) /\ dropped' = dropped /\ j \in active
          BY <5>1, <5>2, <2>b, <2>t, <2>j, NumberedNext DEF Ordered
        <5>3. CASE pending'[j] = <<>> /\ toTarget' = toTarget /\ j \in dropped'
          BY <5>1, <5>3, <2>t, <2>cut
        <5>4. CASE Bytes(j)' = Bytes(j) /\ j \notin active /\ dropped' = dropped
          BY <5>1, <5>4, <2>b, <2>t, <2>j, NumberedNext DEF Ordered
        <5>5. CASE j \in relays
          <6>1. pending[j] = <<>> /\ j \in active
            BY <5>5, <2>s DEF StreamTables
          <6>2. /\ toTarget'[j] = Append(toTarget[j], sent[j] + 1) /\ pending' = pending
                /\ dropped' = dropped
            BY <3>3, <4>2, <5>1, <5>5, <2>t DEF RecvData
          <6>3. Bytes(j)' = Append(Bytes(j), sent[j] + 1)
            BY <6>1, <6>2, <2>t, AppendToBytes DEF Bytes
          <6> QED
            BY <6>1, <6>2, <6>3, <5>2
        <5>6. CASE j \notin relays /\ j \in active
          <6>1. \/ /\ pending'[j] = Append(pending[j], sent[j] + 1) /\ toTarget' = toTarget
                   /\ dropped' = dropped
                \/ pending'[j] = <<>> /\ toTarget' = toTarget /\ j \in dropped'
            BY <3>3, <4>2, <5>1, <5>6, <2>t DEF RecvData
          <6>2. ASSUME pending'[j] = Append(pending[j], sent[j] + 1), toTarget' = toTarget
                PROVE  Bytes(j)' = Append(Bytes(j), sent[j] + 1)
            BY <6>2, <2>t, AppendToBytes, SMTT(30) DEF Bytes
          <6> QED
            BY <6>1, <6>2, <5>2, <5>3, <5>6
        <5>7. CASE j \notin relays /\ j \notin active
          BY <3>3, <4>2, <5>7, <5>4 DEF RecvData, Bytes
        <5> QED
          BY <5>5, <5>6, <5>7
      <4> QED
        BY <4>1, <4>2
    <3> QED
      BY <2>2, <3>1, <3>2, <3>3 DEF Frame
  <2>3. ASSUME NEW k \in Keys, Task(k) PROVE Ordered(j)'
    <3>1. CASE FailSent(k)
      <4>1. CASE k = j
        BY <3>1, <4>1, <2>t, <2>cut DEF FailSent
      <4>2. CASE k # j
        <5>1. pending'[j] = pending[j]
          BY <3>1, <4>2, <2>t DEF FailSent
        <5> QED
          BY <3>1, <5>1, <2>same DEF FailSent, Bytes
      <4> QED
        BY <4>1, <4>2
    <3>2. CASE RegisterRelay(k)
      <4>1. Bytes(j)' = Bytes(j)
        <5>1. CASE k = j
          <6>1. pending'[j] = <<>> /\ toTarget'[j] = Bytes(j)
            BY <3>2, <5>1, <2>t DEF RegisterRelay, Bytes
          <6> QED
            BY <6>1, <2>b, AppendToBytes DEF Bytes
        <5>2. CASE k # j
          BY <3>2, <5>2, <2>t DEF RegisterRelay, Bytes
        <5> QED
          BY <5>1, <5>2
      <4>2. k \in active
        BY <3>2 DEF RegisterRelay, Sent, StreamTables, Live, Connecting
      <4>3. active' = active
        BY <3>2, <4>2 DEF RegisterRelay, AfterFlush
      <4> QED
        BY <3>2, <4>1, <4>3, <2>same DEF RegisterRelay
    <3>3. ASSUME ~FailSent(k), ~RegisterRelay(k) PROVE Ordered(j)'
      <4>1. CASE Flushed(k)
        <5>1. k \in active
          BY <4>1 DEF Flushed, Running, StreamTables, Live
        <5> QED
          BY <4>1, <5>1, <2>same DEF Flushed, AfterFlush, Bytes
      <4>2. ASSUME ~Flushed(k) PROVE Ordered(j)'
        <5>1. UNCHANGED <<toTarget, pending, sent, client, dropped>> /\ active' \subseteq active
          BY <2>3, <3>3, <4>2 DEF Task, Start, Resolve, TakePermit, TcpConnect, TaskTakesLock, TargetData, TargetEnd, ChunkSent, CloseSent, Cancelled, RelayDone
        <5> QED
          BY <5>1, <2>same DEF Bytes
      <4> QED
        BY <4>1, <4>2
    <3> QED
      BY <3>1, <3>2, <3>3
  <2>4. ASSUME NEW c \in Clients, Environment(c) PROVE Ordered(j)'
    BY <2>4, <2>same DEF Environment, PeerStalls, ConnLost, Bytes
  <2>5. CASE Stop \/ CloseAll \/ UNCHANGED vars
    BY <2>5, <2>same DEF Stop, CloseAll, Bytes
  <2> QED
    BY <2>1, <2>2, <2>3, <2>4, <2>5 DEF Next
<1> QED
  BY <1>1, <1>2, TypeCorrect, StreamTablesHold, CleanupTablesHold, PTL DEF SafeSpec

\* The bytes of a stream reach the target in the order the client sent them, and with no
\* gap unless the server dropped the stream.
THEOREM DeliveryIsInOrder == SafeSpec => []InOrderDelivery
<1>1. TypeOK /\ (\A k \in Keys : Ordered(k)) => InOrderDelivery
  <2> SUFFICES ASSUME TypeOK, NEW k \in Keys, Ordered(k)
               PROVE  /\ \A i, j \in DOMAIN Bytes(k) : i < j => Bytes(k)[i] < Bytes(k)[j]
                      /\ k \notin dropped => \A i \in DOMAIN Bytes(k) : Bytes(k)[i] = i
    BY DEF InOrderDelivery, Bytes
  <2>1. Bytes(k) \in Seq(Nat)
    BY AppendToBytes DEF TypeOK, Bytes
  <2>2. DOMAIN Bytes(k) = 1..Len(Bytes(k))
    BY <2>1
  <2> QED
    BY <2>2 DEF Ordered, Numbered, Gapless
<1> QED
  BY <1>1, TypeCorrect, StreamsAreOrdered, PTL
-----------------------------------------------------------------------------
(* What a client sees of a stream: the order of its frames, and that a stream it takes for open *)
(* is served.                                                                *)

\* The form of the frames of one stream.
Grammatical(s) == \A i \in DOMAIN s :
    /\ s[i] \in {"OK", "FAIL"} <=> i = 1
    /\ s[i] \in {"FAIL", "CLOSE"} => i = Len(s)

\* The frames of a stream that was accepted and has not ended.
Accepted(s) ==
    /\ Len(s) > 0 /\ s[1] = "OK"
    /\ \A i \in DOMAIN s : i # 1 => s[i] = "DATA"

Ends(s) == s = <<>> \/ s[Len(s)] \in {"FAIL", "CLOSE"}

\* Who need not be served: the stream ended, was given up, or its tunnel or the server is
\* about to end.  None of these is ever taken back.
Excused(k) ==
    \/ ~running \/ conn[k[1]] # "open" \/ reader[k[1]] \in {"clean", "await", "gone"}
    \/ client[k] = "closed" \/ k \in dropped

\* What was written of a stream, from where its task is.  A frame that is missing was
\* discarded by a connection that is not open, and never will be again.
Written(k) ==
    LET inside == holder[k[1]] = k
        lost   == conn[k[1]] # "open"
    IN
    /\ inside => task[k] \in Sending
    /\ task[k] \in {"none", "start", "dns", "sem", "tcp"} => toClient[k] = <<>>
    /\ task[k] \in {"ok", "fail", "failtcp"} =>
          \/ toClient[k] = <<>> /\ (inside => lost)
          \/ inside /\ toClient[k] = <<FrameOf(task[k])>>
    /\ task[k] \in {"flush", "relay", "rsend", "rclose"} =>
          \/ toClient[k] = <<>> /\ lost
          \/ Accepted(toClient[k]) /\ (inside /\ task[k] = "rclose" => lost)
          \/ inside /\ task[k] = "rclose" /\ Ends(toClient[k])
    /\ Grammatical(toClient[k])

\* Why a stream is not served any more.
Served(k) ==
    /\ k \in deferred => Excused(k)
    /\ k \in cancelled => Excused(k)
    /\ socket[k] = "closed" /\ task[k] \in Live => Excused(k)
    /\ task[k] = "done" => Excused(k) \/ Ends(toClient[k])
    /\ task[k] \in {"none", "start", "dns", "sem", "tcp"} => socket[k] = "none"
    /\ task[k] \in {"ok", "flush"} \cup Relaying => socket[k] # "none"

\* The frames of a stream before and after its first one.
LEMMA FirstFrame ==
    /\ Grammatical(<<>>) /\ Ends(<<>>)
    /\ Grammatical(<<"OK">>) /\ Accepted(<<"OK">>)
    /\ Grammatical(<<"FAIL">>) /\ Ends(<<"FAIL">>)
  BY DEF Grammatical, Accepted, Ends

\* What may follow the frames of an accepted stream.
LEMMA NextFrame ==
    ASSUME NEW s \in Seq(Frames), Accepted(s)
    PROVE  /\ Accepted(Append(s, "DATA")) /\ Grammatical(Append(s, "DATA"))
           /\ Ends(Append(s, "CLOSE")) /\ Grammatical(Append(s, "CLOSE"))
           /\ Grammatical(s)
  BY DEF Grammatical, Accepted, Ends

\* A stream that is not the one of the step keeps what was written of it.
Unmoved(j) ==
    /\ task'[j] = task[j] /\ toClient'[j] = toClient[j]
    /\ holder'[j[1]] = j => holder[j[1]] = j
    /\ holder[j[1]] = j => holder'[j[1]] = j
    /\ conn[j[1]] # "open" => conn'[j[1]] # "open"

\* A step that writes nothing of stream k and leaves its task alone keeps what is known of it.
LEMMA UnmovedWritten ==
    ASSUME NEW j \in Keys, Written(j), Unmoved(j)
    PROVE  Written(j)'
  BY DEF Written, Unmoved

\* The end of a drain frees the lock and never opens a connection.
LEMMA DrainFacts ==
    ASSUME TypeOK, NEW c \in Clients, NEW ok \in BOOLEAN, DrainEnds(c, ok)
    PROVE  /\ holder' = [holder EXCEPT ![c] = None]
           /\ \A d \in Clients : conn[d] # "open" => conn'[d] # "open"
           /\ ~ok => conn'[c] # "open"
  BY DEF DrainEnds, TypeOK

\* Frames of the stream keep their form.
LEMMA FramesWritten == SafeSpec => [](\A k \in Keys : Written(k))
<1> DEFINE Inv == \A k \in Keys : Written(k)
<1>1. Init => Inv
  BY FirstFrame, SendersAssumption DEF Init, Written, Keys
<1>2. TypeOK /\ (\A k \in Keys : StreamTables(k)) /\ Inv /\ [Next]_vars => Inv'
  <2> SUFFICES ASSUME TypeOK, \A k \in Keys : StreamTables(k), Inv, [Next]_vars, NEW j \in Keys PROVE Written(j)'
    OBVIOUS
  <2>t. /\ task \in [Keys -> Live \cup {"none", "done"}]
        /\ toClient \in [Keys -> Seq(Frames)]
        /\ conn \in [Clients -> {"open", "closing", "lost"}]
        /\ holder \in [Clients -> Keys \cup {Pong, None}]
        /\ j[1] \in Clients /\ j # None /\ j # Pong
    BY SendersAssumption DEF TypeOK, Keys
  <2>j. Written(j)
    OBVIOUS
  <2>s. toClient[j] \in Seq(Frames)
    BY <2>t
  <2> HIDE DEF Inv
  <2>1. ASSUME NEW c \in Clients, Reader(c) PROVE Written(j)'
    <3>1. CASE Authenticate(c) \/ RecvPing(c) \/ TargetDrained(c) \/ TargetStalled(c) \/ ReadEnd(c)
               \/ CleanNext(c) \/ CleanAwaited(c)
      BY <3>1, <2>j DEF Authenticate, RecvPing, TargetDrained, TargetStalled, ReadEnd, CleanNext,
                        CleanAwaited, Written
    <3>2. CASE LoopTakesLock(c)
      <4>1. Unmoved(j)
        BY <3>2, <2>t DEF LoopTakesLock, TakeLock, Unmoved
      <4> QED
        BY <4>1, <2>j, UnmovedWritten
    <3>3. CASE PongSent(c)
      <4>1. Unmoved(j)
        BY <3>3, <2>t, DrainFacts DEF PongSent, Unmoved
      <4> QED
        BY <4>1, <2>j, UnmovedWritten
    <3>4. CASE CleanDone(c)
      <4>1. Unmoved(j)
        BY <3>4, <2>t DEF CleanDone, Unmoved
      <4> QED
        BY <4>1, <2>j, UnmovedWritten
    <3> QED
      BY <2>1, <3>1, <3>2, <3>3, <3>4 DEF Reader
  <2>2. ASSUME NEW k \in Keys, Frame(k) PROVE Written(j)'
    <3>1. CASE RecvConnect(k)
      <4>1. task[k] = "none"
        BY <3>1 DEF RecvConnect, StreamTables
      <4> QED
        <5>1. /\ task' = [task EXCEPT ![k] = "start"] /\ UNCHANGED <<holder, conn, toClient>>
          BY <3>1 DEF RecvConnect, Goto
        <5> QED
          BY <4>1, <5>1, <2>t, <2>j DEF Written, Sending
    <3>2. CASE RecvData(k) \/ RecvClose(k)
      BY <3>2, <2>j DEF RecvData, RecvClose, Written
    <3> QED
      BY <2>2, <3>1, <3>2 DEF Frame
  <2>3. ASSUME NEW k \in Keys, Task(k) PROVE Written(j)'
    <3>k. k[1] \in Clients /\ k # None /\ k # Pong
      BY SendersAssumption DEF Keys
    <3>1. CASE Start(k) \/ Resolve(k) \/ TakePermit(k) \/ TcpConnect(k)
      BY <3>1, <2>t, <2>j DEF Start, Resolve, TakePermit, TcpConnect, Running, Goto, Written, Sending
    <3>2. CASE TaskTakesLock(k)
      <4>1. CASE j # k
        <5>1. Unmoved(j)
          BY <3>2, <3>k, <4>1, <2>t DEF TaskTakesLock, TakeLock, Unmoved
        <5> QED
          BY <5>1, <2>j, UnmovedWritten
      <4>2. CASE j = k
        <5>1. /\ task[j] \in Sending /\ task' = task /\ conn' = conn
              /\ holder[j[1]] # j /\ holder'[j[1]] = j
              /\ toClient'[j] = IF conn[j[1]] = "open"
                                THEN Append(toClient[j], FrameOf(task[j])) ELSE toClient[j]
          BY <3>2, <4>2, <2>t DEF TaskTakesLock, TakeLock
        <5>2. CASE conn[j[1]] # "open"
          BY <5>1, <5>2, <2>j DEF Written, Sending
        <5>3. CASE conn[j[1]] = "open" /\ task[j] \in {"ok", "fail", "failtcp"}
          <6>1. toClient[j] = <<>>
            BY <5>1, <5>3, <2>j DEF Written
          <6>2. toClient'[j] = <<FrameOf(task[j])>> /\ FrameOf(task[j]) \in {"OK", "FAIL"}
            BY <5>1, <5>3, <6>1 DEF FrameOf
          <6> QED
            BY <5>1, <5>3, <6>2, FirstFrame DEF Written
        <5>4. CASE conn[j[1]] = "open" /\ task[j] = "rsend"
          <6>1. Accepted(toClient[j])
            BY <5>1, <5>4, <2>j DEF Written
          <6>2. toClient'[j] = Append(toClient[j], "DATA")
            BY <5>1, <5>4 DEF FrameOf
          <6>3. Accepted(toClient'[j]) /\ Grammatical(toClient'[j])
            BY <6>1, <6>2, <2>s, NextFrame
          <6> QED
            BY <5>1, <5>4, <6>3 DEF Written
        <5>5. CASE conn[j[1]] = "open" /\ task[j] = "rclose"
          <6>1. Accepted(toClient[j])
            BY <5>1, <5>5, <2>j DEF Written
          <6>2. toClient'[j] = Append(toClient[j], "CLOSE")
            BY <5>1, <5>5 DEF FrameOf
          <6>3. Ends(toClient'[j]) /\ Grammatical(toClient'[j])
            BY <6>1, <6>2, <2>s, NextFrame
          <6> QED
            BY <5>1, <5>5, <6>3 DEF Written
        <5> QED
          BY <5>1, <5>2, <5>3, <5>4, <5>5 DEF Sending
      <4> QED
        BY <4>1, <4>2
    <3>3. ASSUME NEW states, NEW ok \in BOOLEAN, Sent(k, states, ok), toClient' = toClient,
                 \A u \in Keys : u # k => task'[u] = task[u],
                 task'[k] \in {"done", "flush", "relay"},
                 task'[k] # "done" => task[k] \in {"ok", "rsend"}
          PROVE  Written(j)'
      <4>1. /\ holder[k[1]] = k /\ holder' = [holder EXCEPT ![k[1]] = None]
            /\ \A d \in Clients : conn[d] # "open" => conn'[d] # "open"
        BY <3>3, <3>k, DrainFacts DEF Sent
      <4>2. CASE j # k
        <5>1. Unmoved(j)
          BY <3>3, <4>1, <4>2, <2>t DEF Unmoved
        <5> QED
          BY <5>1, <2>j, UnmovedWritten
      <4>3. CASE j = k
        <5>1. holder'[j[1]] # j /\ holder[j[1]] = j
          BY <4>1, <4>3, <2>t
        <5>2. CASE task'[j] = "done"
          BY <5>1, <5>2, <2>j, <3>3 DEF Written
        <5>3. CASE task[j] = "ok" /\ task'[j] \in {"flush", "relay"}
          <6>1. (toClient[j] = <<>> /\ conn[j[1]] # "open") \/ toClient[j] = <<"OK">>
            BY <5>1, <5>3, <2>j DEF Written, FrameOf
          <6> QED
            BY <6>1, <5>1, <5>3, <4>1, <3>3, <2>t, <2>j, FirstFrame DEF Written
        <5>4. CASE task[j] = "rsend" /\ task'[j] \in {"flush", "relay"}
          <6>1. (toClient[j] = <<>> /\ conn[j[1]] # "open") \/ Accepted(toClient[j])
            BY <5>1, <5>4, <2>j DEF Written
          <6> QED
            BY <6>1, <5>1, <5>4, <4>1, <3>3, <2>t, <2>j DEF Written
        <5> QED
          BY <3>3, <4>3, <5>2, <5>3, <5>4
      <4> QED
        BY <4>2, <4>3
    <3>4. CASE FailSent(k)
      BY <3>4, <3>3, <2>t DEF FailSent, Goto
    <3>5. CASE RegisterRelay(k)
      <4>1. PICK ok \in BOOLEAN : Sent(k, {"ok"}, ok)
        BY <3>5 DEF RegisterRelay
      <4>2. task[k] = "ok" /\ toClient' = toClient
        BY <3>5, <4>1 DEF RegisterRelay, Sent
      <4>3. /\ \A u \in Keys : u # k => task'[u] = task[u]
            /\ task'[k] \in {"done", "flush", "relay"}
        BY <3>5, <2>t DEF RegisterRelay, AfterFlush, Goto
      <4> QED
        BY <3>3, <4>1, <4>2, <4>3
    <3>6. CASE Flushed(k)
      <4>1. /\ task[k] = "flush" /\ UNCHANGED <<holder, conn, toClient>>
            /\ task' \in {[task EXCEPT ![k] = "done"], [task EXCEPT ![k] = "relay"]}
        BY <3>6 DEF Flushed, Running, AfterFlush, Goto
      <4> QED
        BY <4>1, <2>t, <2>j DEF Written, Sending
    <3>7. CASE TargetData(k) \/ TargetEnd(k)
      <4>1. /\ task[k] = "relay" /\ UNCHANGED <<holder, conn, toClient>>
            /\ task' \in {[task EXCEPT ![k] = "rsend"], [task EXCEPT ![k] = "rclose"]}
        BY <3>7 DEF TargetData, TargetEnd, Running, Goto
      <4> QED
        BY <4>1, <2>t, <2>j DEF Written, Sending
    <3>8. CASE ChunkSent(k)
      <4>1. PICK ok \in BOOLEAN :
               /\ Sent(k, {"rsend"}, ok)
               /\ IF ok /\ socket[k] = "open"
                  THEN Goto(k, "relay") /\ UNCHANGED <<relays, active, socket>>
                  ELSE RelayDone(k)
        BY <3>8 DEF ChunkSent
      <4>2. task[k] = "rsend" /\ toClient' = toClient
        BY <3>8, <4>1 DEF ChunkSent, Sent
      <4>3. /\ \A u \in Keys : u # k => task'[u] = task[u]
            /\ task'[k] \in {"done", "relay"}
        BY <4>1, <2>t DEF RelayDone, Goto
      <4> QED
        BY <3>3, <4>1, <4>2, <4>3
    <3>9. CASE CloseSent(k)
      BY <3>9, <3>3, <2>t DEF CloseSent, RelayDone, Goto
    <3>10. CASE Cancelled(k)
      <4>1. /\ holder' = [holder EXCEPT ![k[1]] = IF @ = k THEN None ELSE @]
            /\ task' = [task EXCEPT ![k] = "done"] /\ UNCHANGED <<conn, toClient>>
        BY <3>10 DEF Cancelled, RelayDone, Goto
      <4>2. CASE j # k
        <5>1. Unmoved(j)
          BY <3>k, <4>1, <4>2, <2>t DEF Unmoved
        <5> QED
          BY <5>1, <2>j, UnmovedWritten
      <4>3. CASE j = k
        BY <4>1, <4>3, <2>t, <2>j DEF Written
      <4> QED
        BY <4>2, <4>3
    <3> QED
      BY <2>3, <3>1, <3>2, <3>4, <3>5, <3>6, <3>7, <3>8, <3>9, <3>10 DEF Task
  <2>4. ASSUME NEW c \in Clients, Environment(c) PROVE Written(j)'
    <3>1. Unmoved(j)
      BY <2>4, <2>t DEF Environment, PeerStalls, ConnLost, Unmoved
    <3> QED
      BY <3>1, <2>j, UnmovedWritten
  <2>5. CASE Stop \/ CloseAll \/ UNCHANGED vars
    <3>1. Unmoved(j)
      BY <2>5 DEF Stop, CloseAll, Unmoved, vars, tunnelVars, taskVars, wireVars
    <3> QED
      BY <3>1, <2>j, UnmovedWritten
  <2> QED
    BY <2>1, <2>2, <2>3, <2>4, <2>5 DEF Next
<1> QED
  BY <1>1, <1>2, TypeCorrect, StreamTablesHold, PTL DEF SafeSpec

\* A client sees of a stream one answer to its CONNECT, first, and after CONNECT_OK data with
\* at most one CLOSE, which is last.
THEOREM FramesAreGrammatical == SafeSpec => []FrameGrammar
<1>1. (\A k \in Keys : Written(k)) => FrameGrammar
  BY DEF Written, Grammatical, FrameGrammar
<1> QED
  BY <1>1, FramesWritten, PTL

\* What excuses a stream is never taken back.
LEMMA ExcusesStay ==
    ASSUME TypeOK, Next, NEW j \in Keys, Excused(j)
    PROVE  Excused(j)'
<1>t. /\ conn \in [Clients -> {"open", "closing", "lost"}]
      /\ reader \in [Clients -> {"auth", "read", "drain", "pong", "clean", "await", "gone"}]
      /\ client \in [Keys -> {"unused", "open", "closed"}]
      /\ j[1] \in Clients
  BY DEF TypeOK, Keys
<1>1. ASSUME NEW c \in Clients, Reader(c) PROVE Excused(j)'
  <2>1. CASE Authenticate(c) \/ RecvPing(c) \/ TargetDrained(c) \/ TargetStalled(c) \/ ReadEnd(c)
             \/ CleanNext(c) \/ CleanAwaited(c) \/ LoopTakesLock(c)
    BY <2>1, <1>t DEF Authenticate, RecvPing, TargetDrained, TargetStalled, ReadEnd, CleanNext,
                      CleanAwaited, LoopTakesLock, Excused
  <2>2. CASE PongSent(c)
    <3>1. /\ \A d \in Clients : conn[d] # "open" => conn'[d] # "open"
          /\ reader' = [reader EXCEPT ![c] = "read"] /\ UNCHANGED <<running, client, dropped>>
      BY <2>2, DrainFacts DEF PongSent
    <3>2. reader[c] = "pong"
      BY <2>2, SendersAssumption DEF PongSent, TypeOK
    <3> QED
      BY <3>1, <3>2, <1>t DEF Excused
  <2>3. CASE CleanDone(c)
    BY <2>3, <1>t DEF CleanDone, Excused
  <2> QED
    BY <1>1, <2>1, <2>2, <2>3 DEF Reader
<1>2. ASSUME NEW k \in Keys, Frame(k) PROVE Excused(j)'
  <2>1. CASE RecvConnect(k)
    BY <2>1, <1>t DEF RecvConnect, Excused
  <2>2. CASE RecvData(k)
    <3>1. /\ UNCHANGED <<running, conn, client>> /\ dropped \subseteq dropped'
          /\ reader[k[1]] = "read" /\ reader' \in {reader, [reader EXCEPT ![k[1]] = "drain"]}
      BY <2>2 DEF RecvData
    <3> QED
      BY <3>1, <1>t DEF Excused
  <2>3. CASE RecvClose(k)
    BY <2>3, <1>t DEF RecvClose, Excused
  <2> QED
    BY <1>2, <2>1, <2>2, <2>3 DEF Frame
<1>3. ASSUME NEW k \in Keys, Task(k) PROVE Excused(j)'
  <2>k. k[1] \in Clients
    BY DEF Keys
  <2>1. UNCHANGED <<running, reader, client, dropped>>
    BY <1>3 DEF Task, Start, Resolve, TakePermit, TcpConnect, TaskTakesLock, FailSent, RegisterRelay,
                Flushed, TargetData, TargetEnd, ChunkSent, CloseSent, Cancelled
  <2>2. \A d \in Clients : conn[d] # "open" => conn'[d] # "open"
    <3>1. ASSUME NEW states, NEW ok \in BOOLEAN, Sent(k, states, ok)
          PROVE  \A d \in Clients : conn[d] # "open" => conn'[d] # "open"
      BY <3>1, <2>k, DrainFacts DEF Sent
    <3>2. CASE FailSent(k) \/ RegisterRelay(k) \/ ChunkSent(k) \/ CloseSent(k)
      BY <3>1, <3>2 DEF FailSent, RegisterRelay, ChunkSent, CloseSent
    <3>3. CASE \/ Start(k) \/ Resolve(k) \/ TakePermit(k) \/ TcpConnect(k) \/ TaskTakesLock(k)
              \/ Flushed(k) \/ TargetData(k) \/ TargetEnd(k) \/ Cancelled(k)
      BY <3>3 DEF Start, Resolve, TakePermit, TcpConnect, TaskTakesLock, Flushed, TargetData,
                  TargetEnd, Cancelled
    <3> QED
      BY <1>3, <3>2, <3>3 DEF Task
  <2> QED
    BY <2>1, <2>2, <1>t DEF Excused
<1>4. ASSUME NEW c \in Clients, Environment(c) PROVE Excused(j)'
  BY <1>4, <1>t DEF Environment, PeerStalls, ConnLost, Excused
<1>5. CASE Stop \/ CloseAll
  BY <1>5 DEF Stop, CloseAll, Excused
<1> QED
  BY <1>1, <1>2, <1>3, <1>4, <1>5 DEF Next

\* A socket is only ever closed when it was open.
LEMMA SocketSteps ==
    ASSUME NEW S, CloseSockets(S), NEW j \in Keys
    PROVE  /\ \/ socket'[j] = socket[j]
              \/ socket[j] = "open" /\ socket'[j] = "closed"
           /\ j \notin S => socket'[j] = socket[j]
<1>1. CASE j \in S /\ socket[j] = "open"
  BY <1>1 DEF CloseSockets
<1>2. CASE ~(j \in S /\ socket[j] = "open")
  <2>1. socket'[j] = socket[j]
    BY <1>2 DEF CloseSockets
  <2> QED
    BY <2>1
<1> QED
  BY <1>1, <1>2

\* Nothing that Served is about changes for stream j.
Aside(j) ==
    /\ task'[j] = task[j] /\ socket'[j] = socket[j] /\ toClient'[j] = toClient[j]
    /\ j \in deferred' => j \in deferred
    /\ j \in cancelled' => j \in cancelled

\* A step that leaves stream j aside keeps what is known of it.
LEMMA AsideServed ==
    ASSUME NEW j \in Keys, Served(j), Aside(j), Excused(j) => Excused(j)'
    PROVE  Served(j)'
  BY DEF Served, Aside

\* A stream is given up for a reason only.
LEMMA StreamsServed == SafeSpec => [](\A k \in Keys : Served(k))
<1> DEFINE Inv == \A k \in Keys : Served(k)
           Known == \A k \in Keys : StreamTables(k) /\ Written(k)
<1>1. Init => Inv
  BY DEF Init, Served, Live, Connecting, Relaying
<1>2. TypeOK /\ Known /\ Inv /\ [Next]_vars => Inv'
  <2> SUFFICES ASSUME TypeOK, Known, Inv, Next, NEW j \in Keys PROVE Served(j)'
    <3>1. ASSUME UNCHANGED vars PROVE Inv <=> Inv'
      BY <3>1 DEF Served, Excused
    <3> QED
      BY <3>1
  <2>t. /\ task \in [Keys -> Live \cup {"none", "done"}]
        /\ socket \in [Keys -> {"none", "open", "closed"}]
        /\ conn \in [Clients -> {"open", "closing", "lost"}]
        /\ reader \in [Clients -> {"auth", "read", "drain", "pong", "clean", "await", "gone"}]
        /\ client \in [Keys -> {"unused", "open", "closed"}]
        /\ \A c \in Clients : todo[c] \subseteq Own(c) /\ at[c] \in Own(c) \cup {None}
        /\ \A c \in Clients : reader[c] \in {"drain", "await"} <=> at[c] # None
        /\ j[1] \in Clients
    BY DEF TypeOK, Keys
  <2>j. Served(j) /\ StreamTables(j) /\ Written(j)
    OBVIOUS
  <2>e. Excused(j) => Excused(j)'
    BY ExcusesStay
  <2>d. task[j] = "done" => j \notin cancelled
    BY <2>j DEF StreamTables, Live, Connecting, Relaying
  <2> HIDE DEF Inv, Known
  \* A relay that is removed with its task is one that need not be served.
  <2>r. ASSUME NEW k \in Keys, Excused(k)', RemoveRelay(k), PopTask(k),
               UNCHANGED <<task, toClient>>, j \in deferred' => j \in deferred \/ Excused(j)'
        PROVE  Served(j)'
    <3>1. CASE j # k
      <4>1. socket'[j] = socket[j] /\ (j \in cancelled' => j \in cancelled)
        BY <2>r, <3>1, <2>t DEF RemoveRelay, PopTask, CloseSockets
      <4> QED
        BY <4>1, <2>r, <2>e, <2>j DEF Served
    <3>2. CASE j = k
      <4>1. socket'[j] = socket[j] \/ (socket[j] = "open" /\ socket'[j] = "closed")
        <5>1. CloseSockets({k} \cap relays)
          BY <2>r DEF RemoveRelay
        <5> QED
          BY <5>1, SocketSteps, Zenon
      <4> QED
        BY <4>1, <3>2, <2>r, <2>j DEF Served
    <3> QED
      BY <3>1, <3>2
  <2>1. ASSUME NEW c \in Clients, Reader(c) PROVE Served(j)'
    <3>1. CASE \/ Authenticate(c) \/ RecvPing(c) \/ TargetDrained(c) \/ ReadEnd(c)
              \/ CleanAwaited(c) \/ LoopTakesLock(c) \/ PongSent(c) \/ CleanDone(c)
      <4>1. Aside(j)
        BY <3>1 DEF Authenticate, RecvPing, TargetDrained, ReadEnd, CleanAwaited, LoopTakesLock,
                    PongSent, CleanDone, Aside
      <4> QED
        BY <4>1, <2>e, <2>j, AsideServed
    <3>2. CASE TargetStalled(c)
      <4>1. at[c] \in Own(c)
        BY <3>2, <2>t DEF TargetStalled
      <4>2. at[c] \in Keys
        BY <4>1 DEF Own, Keys
      <4>3. PICK k \in Keys :
               /\ RemoveRelay(k) /\ PopTask(k) /\ dropped' = dropped \cup {k}
               /\ UNCHANGED <<task, toClient, deferred>>
        BY <3>2, <4>2 DEF TargetStalled
      <4>4. Excused(k)'
        BY <4>3 DEF Excused
      <4> QED
        BY <4>3, <4>4, <2>r
    <3>3. CASE CleanNext(c)
      <4>1. PICK k \in todo[c] :
               /\ RemoveRelay(k) /\ PopTask(k)
               /\ reader' \in {reader, [reader EXCEPT ![c] = "await"]}
        BY <3>3 DEF CleanNext
      <4>2. k \in Own(c)
        BY <2>t, <4>1
      <4>3. k \in Keys /\ k[1] = c
        BY <4>2 DEF Own, Keys
      <4>4. reader'[c] \in {"clean", "await"}
        BY <3>3, <4>1, <2>t DEF CleanNext
      <4>5. Excused(k)'
        BY <4>3, <4>4 DEF Excused
      <4>6. UNCHANGED <<task, toClient, deferred>>
        BY <3>3 DEF CleanNext
      <4> QED
        BY <4>1, <4>3, <4>5, <4>6, <2>r
    <3> QED
      BY <2>1, <3>1, <3>2, <3>3 DEF Reader
  <2>2. ASSUME NEW k \in Keys, Frame(k) PROVE Served(j)'
    <3>1. CASE RecvConnect(k)
      <4>1. /\ task[k] = "none" /\ task' = [task EXCEPT ![k] = "start"]
            /\ UNCHANGED <<socket, toClient, deferred, cancelled>>
        BY <3>1 DEF RecvConnect, Goto, StreamTables, Known
      <4> QED
        BY <4>1, <2>t, <2>j, <2>e DEF Served, Relaying, Live, Connecting
    <3>2. CASE RecvData(k)
      <4>1. /\ UNCHANGED <<task, socket, toClient, cancelled>>
            /\ j \in deferred' => j \in deferred \/ j \in dropped'
        BY <3>2 DEF RecvData
      <4> QED
        BY <4>1, <2>j, <2>e DEF Served, Excused
    <3>3. CASE RecvClose(k)
      <4>1. Excused(k)' /\ UNCHANGED <<task, toClient>>
        BY <3>3, <2>t DEF RecvClose, Excused
      <4>2. CASE k \in relays
        BY <3>3, <4>1, <4>2, <2>r DEF RecvClose
      <4>3. CASE k \notin relays
        BY <3>3, <4>1, <4>3, <2>j, <2>e DEF RecvClose, Served
      <4> QED
        BY <4>2, <4>3
    <3> QED
      BY <2>2, <3>1, <3>2, <3>3 DEF Frame
  <2>3. ASSUME NEW k \in Keys, Task(k) PROVE Served(j)'
    <3>1. CASE j # k
      <4>1. ASSUME Start(k) \/ Resolve(k) \/ TakePermit(k) \/ TargetData(k) \/ TargetEnd(k)
           PROVE  Aside(j)
        BY <4>1, <3>1, <2>t DEF Start, Resolve, TakePermit, TargetData, TargetEnd, Goto, Aside
      <4>2. ASSUME TcpConnect(k) \/ TaskTakesLock(k) \/ FailSent(k)
           PROVE  Aside(j)
        <5>1. ASSUME TcpConnect(k) PROVE Aside(j)
          BY <5>1, <3>1, <2>t DEF TcpConnect, Goto, Aside
        <5>2. ASSUME TaskTakesLock(k) PROVE Aside(j)
          BY <5>2, <3>1, <2>t DEF TaskTakesLock, Aside
        <5>3. ASSUME FailSent(k) PROVE Aside(j)
          BY <5>3, <3>1, <2>t DEF FailSent, Goto, Aside
        <5> QED
          BY <4>2, <5>1, <5>2, <5>3
      <4>3. ASSUME RegisterRelay(k) \/ Flushed(k)
           PROVE  Aside(j)
        <5>1. /\ toClient' = toClient /\ cancelled' = cancelled /\ task'[j] = task[j]
              /\ deferred' \subseteq deferred
              /\ socket' = socket \/ CloseSockets({k})
          BY <4>3, <3>1, <2>t, ZenonT(40) DEF RegisterRelay, Flushed, AfterFlush, Goto
        <5> QED
          BY <5>1, <3>1, SocketSteps DEF Aside
      <4>4. ASSUME ChunkSent(k) \/ CloseSent(k) \/ Cancelled(k)
           PROVE  Aside(j)
        <5>1. /\ toClient' = toClient /\ cancelled' \subseteq cancelled /\ task'[j] = task[j]
              /\ deferred' = deferred
              /\ socket' = socket \/ CloseSockets({k})
          BY <4>4, <3>1, <2>t DEF ChunkSent, CloseSent, Cancelled, RelayDone, Goto
        <5> QED
          BY <5>1, <3>1, SocketSteps DEF Aside
      <4>5. Aside(j)
        BY <2>3, <4>1, <4>2, <4>3, <4>4 DEF Task
      <4> QED
        BY <4>5, <2>j, <2>e, AsideServed
    <3> SUFFICES ASSUME j = k PROVE Served(j)'
      BY <3>1
    <3>2. CASE Start(k) \/ Resolve(k) \/ TakePermit(k)
      <4>1. /\ task[j] \in {"start", "dns", "sem"}
            /\ task'[j] \in {"dns", "sem", "tcp", "fail", "done"}
            /\ UNCHANGED <<socket, toClient, deferred, cancelled>>
        BY <3>2, <2>t DEF Start, Resolve, TakePermit, Running, Goto
      <4>2. Ends(toClient[j])
        BY <4>1, <2>j, FirstFrame DEF Written
      <4> QED
        BY <4>1, <4>2, <2>j, <2>e DEF Served, Live, Connecting, Relaying
    <3>3. CASE TcpConnect(k)
      <4>1. /\ task[j] = "tcp" /\ UNCHANGED <<toClient, deferred, cancelled>>
            /\ \/ task'[j] = "ok" /\ socket'[j] = "open"
               \/ task'[j] = "failtcp" /\ socket'[j] = socket[j]
        BY <3>3, <2>t DEF TcpConnect, Running, Goto
      <4> QED
        BY <4>1, <2>j, <2>e DEF Served, Live, Connecting, Relaying
    <3>4. CASE TaskTakesLock(k)
      <4>1. /\ task[j] \in Sending
            /\ UNCHANGED <<task, socket, deferred, cancelled>>
        BY <3>4 DEF TaskTakesLock
      <4> QED
        BY <4>1, <2>j, <2>e DEF Served, Sending
    <3>5. CASE FailSent(k)
      <4>1. /\ task[j] \in {"fail", "failtcp"} /\ holder[j[1]] = j /\ task'[j] = "done"
            /\ UNCHANGED <<socket, toClient, cancelled>> /\ deferred' \subseteq deferred
        BY <3>5, <2>t DEF FailSent, Sent, Goto
      <4>2. conn[j[1]] # "open" \/ Ends(toClient[j])
        BY <4>1, <2>j, FirstFrame DEF Written, FrameOf
      <4>3. Excused(j) \/ Ends(toClient[j])
        BY <4>2 DEF Excused
      <4> QED
        BY <4>1, <4>3, <2>j, <2>e DEF Served, Live, Connecting, Relaying
    <3>6. CASE RegisterRelay(k) \/ Flushed(k)
      <4>1. /\ task[j] \in {"ok", "flush"} /\ UNCHANGED <<toClient, cancelled>>
            /\ deferred' \subseteq deferred
            /\ \/ j \in deferred /\ task'[j] = "done"
               \/ task'[j] \in {"relay", "flush"} /\ UNCHANGED socket
        BY <3>6, <2>t, ZenonT(40) DEF RegisterRelay, Flushed, Sent, Running, AfterFlush, Goto
      <4> QED
        BY <4>1, <2>j, <2>e DEF Served, Live, Connecting, Relaying
    <3>7. CASE TargetData(k) \/ TargetEnd(k)
      <4>1. /\ task[j] = "relay" /\ task'[j] \in {"rsend", "rclose"}
            /\ UNCHANGED <<socket, toClient, deferred, cancelled>>
        BY <3>7, <2>t DEF TargetData, TargetEnd, Running, Goto
      <4> QED
        BY <4>1, <2>j, <2>e DEF Served, Live, Connecting, Relaying
    <3>8. CASE ChunkSent(k)
      <4>1. PICK ok \in BOOLEAN :
               /\ Sent(k, {"rsend"}, ok)
               /\ IF ok /\ socket[k] = "open"
                  THEN Goto(k, "relay") /\ UNCHANGED <<relays, active, socket>>
                  ELSE RelayDone(k)
        BY <3>8 DEF ChunkSent
      <4>2. task[j] = "rsend" /\ UNCHANGED <<toClient, deferred, cancelled>>
        BY <3>8, <4>1 DEF ChunkSent, Sent
      <4>3. CASE ok /\ socket[k] = "open"
        <5>1. task'[j] = "relay" /\ socket' = socket
          BY <4>1, <4>3, <2>t DEF Goto
        <5> QED
          BY <4>2, <5>1, <2>j, <2>e DEF Served, Live, Connecting, Relaying
      <4>4. CASE ~ok
        <5>1. conn'[j[1]] # "open" /\ task'[j] = "done"
          BY <4>1, <4>4, <2>t, DrainFacts DEF Sent, RelayDone, Goto
        <5>2. Excused(j)'
          BY <5>1 DEF Excused
        <5> QED
          BY <5>1, <5>2 DEF Served, Live, Connecting, Relaying
      <4>5. CASE socket[k] # "open"
        <5>1. socket[j] = "closed" /\ task[j] \in Live
          BY <4>2, <4>5, <2>j, <2>t DEF Served, Relaying, Live
        <5>2. Excused(j)' /\ task'[j] = "done"
          BY <4>1, <4>5, <5>1, <2>e, <2>j, <2>t DEF Served, RelayDone, Goto
        <5> QED
          BY <5>2 DEF Served, Live, Connecting, Relaying
      <4> QED
        BY <4>3, <4>4, <4>5
    <3>9. CASE CloseSent(k)
      <4>1. /\ task[j] = "rclose" /\ holder[j[1]] = j /\ task'[j] = "done"
            /\ UNCHANGED <<toClient, deferred, cancelled>>
        BY <3>9, <2>t DEF CloseSent, Sent, RelayDone, Goto
      <4>2. conn[j[1]] # "open" \/ Ends(toClient[j])
        BY <4>1, <2>j DEF Written
      <4>3. Excused(j) \/ Ends(toClient[j])
        BY <4>2 DEF Excused
      <4> QED
        BY <4>1, <4>3, <2>j, <2>e DEF Served, Live, Connecting, Relaying
    <3>10. CASE Cancelled(k)
      <4>1. Excused(j)' /\ task'[j] = "done"
        BY <3>10, <2>j, <2>e, <2>t DEF Cancelled, Served, RelayDone, Goto
      <4> QED
        BY <4>1 DEF Served, Live, Connecting, Relaying
    <3> QED
      BY <2>3, <3>2, <3>3, <3>4, <3>5, <3>6, <3>7, <3>8, <3>9, <3>10 DEF Task
  <2>4. ASSUME NEW c \in Clients, Environment(c) PROVE Served(j)'
    <3>1. Aside(j)
      BY <2>4 DEF Environment, PeerStalls, ConnLost, Aside
    <3> QED
      BY <3>1, <2>e, <2>j, AsideServed
  <2>5. CASE Stop
    <3>1. Aside(j)
      BY <2>5 DEF Stop, Aside
    <3> QED
      BY <3>1, <2>e, <2>j, AsideServed
  <2>6. CASE CloseAll
    <3>1. Excused(j)' /\ UNCHANGED <<task, toClient, deferred, cancelled>>
      BY <2>6 DEF CloseAll, Excused
    <3>2. socket'[j] = socket[j] \/ (socket[j] = "open" /\ socket'[j] = "closed")
      <4>1. CloseSockets(relays)
        BY <2>6 DEF CloseAll
      <4> QED
        BY <4>1, SocketSteps, Zenon
    <3> QED
      BY <3>1, <3>2, <2>j DEF Served
  <2> QED
    BY <2>1, <2>2, <2>3, <2>4, <2>5, <2>6 DEF Next
<1>3. (\A k \in Keys : StreamTables(k)) /\ (\A k \in Keys : Written(k)) => Known
  OBVIOUS
<1> QED
  BY <1>1, <1>2, <1>3, TypeCorrect, StreamTablesHold, FramesWritten, PTL DEF SafeSpec

\* A stream that was accepted and that neither side has closed has a task that serves it, as
\* long as its tunnel and the server are up and the server has not given it up.
THEOREM OpenStreamsServed == SafeSpec => []OpenIsServed
<1>1. ASSUME TypeOK, \A k \in Keys : Written(k), \A k \in Keys : Served(k)
      PROVE  OpenIsServed
  <2> SUFFICES ASSUME NEW k \in Keys,
                      running, conn[k[1]] = "open", reader[k[1]] \in {"read", "drain", "pong"},
                      toClient[k] # <<>>, toClient[k][Len(toClient[k])] \in {"OK", "DATA"},
                      client[k] = "open", k \notin dropped
               PROVE  task[k] \in Relaying \cup {"ok", "flush"}
    BY DEF OpenIsServed
  <2>1. ~Excused(k) /\ ~Ends(toClient[k])
    BY DEF Excused, Ends
  <2>2. task[k] # "done"
    BY <2>1, <1>1 DEF Served
  <2>3. task[k] \notin {"none", "start", "dns", "sem", "tcp"}
    BY <1>1 DEF Written
  <2>4. task[k] \notin {"fail", "failtcp"}
    <3>1. ASSUME task[k] \in {"fail", "failtcp"} PROVE FALSE
      <4>1. toClient[k] = <<"FAIL">>
        BY <3>1, <1>1 DEF Written, FrameOf
      <4> QED
        BY <4>1, <2>1, FirstFrame
    <3> QED
      BY <3>1
  <2>5. task[k] \in Live \cup {"none", "done"}
    BY <1>1 DEF TypeOK
  <2> QED
    BY <2>2, <2>3, <2>4, <2>5 DEF Live, Connecting, Relaying
<1> QED
  BY <1>1, TypeCorrect, FramesWritten, StreamsServed, PTL
-----------------------------------------------------------------------------
(* TunnelServer implements FrameWriter on every tunnel: every step maps to a step of the contract *)
(* or to a stutter.                                                          *)

\* The tasks that write to the tunnel of client c, and where they are.
Writers(c) == Own(c) \cup {Pong}
Place(c, p) ==
    IF holder[c] = p THEN "draining"
    ELSE IF p = Pong THEN (IF reader[c] = "pong" THEN "waiting" ELSE "idle")
    ELSE IF task[p] \in Sending THEN "waiting" ELSE "idle"
Places(c) == [p \in Writers(c) |-> Place(c, p)]

\* At first nobody sends.
LEMMA InitImplements == ASSUME Init, NEW c \in Clients PROVE FW(c)!Init
<1>1. Own(c) \subseteq Keys /\ None \notin Writers(c)
  BY SendersAssumption DEF Own, Keys, Writers
<1>2. \A p \in Writers(c) : Place(c, p) = "idle"
  BY <1>1 DEF Init, Writers, Place, Sending
<1> QED
  BY <1>1, <1>2 DEF FW!Init, Init, Writers, Place

\* A step that moves no writer of the tunnel is none of the contract.
LEMMA Stutters ==
    ASSUME NEW c \in Clients, holder'[c] = holder[c], conn'[c] = conn[c],
           c \in stalled' <=> c \in stalled,
           \A p \in Writers(c) : Place(c, p)' = Place(c, p)
    PROVE  UNCHANGED FW(c)!vars
  BY DEF FW!vars, Writers, Place

\* A task comes to its send.
LEMMA Requests ==
    ASSUME NEW c \in Clients, NEW p \in Writers(c), holder'[c] = holder[c], conn'[c] = conn[c],
           c \in stalled' <=> c \in stalled,
           Place(c, p) = "idle", Place(c, p)' = "waiting",
           \A q \in Writers(c) \ {p} : Place(c, q)' = Place(c, q)
    PROVE  FW(c)!Request(p)
<1>1. Places(c)' = [Places(c) EXCEPT ![p] = "waiting"]
  BY DEF Places
<1>2. Places(c)[p] = "idle"
  BY DEF Places
<1> QED
  BY <1>1, <1>2 DEF FW!Request, Writers, Place, Places

\* A task is granted the lock of its tunnel.
LEMMA Acquires ==
    ASSUME TypeOK, NEW c \in Clients, NEW p \in Writers(c), p # None, TakeLock(c, p),
           conn'[c] = conn[c], c \in stalled' <=> c \in stalled, Place(c, p) = "waiting",
           \A q \in Writers(c) \ {p} : Place(c, q)' = Place(c, q)
    PROVE  FW(c)!Acquire(p)
<1>1. holder[c] = None /\ holder'[c] = p
  BY DEF TypeOK, TakeLock
<1>2. Place(c, p)' = "draining"
  BY <1>1 DEF Place
<1>3. Places(c)' = [Places(c) EXCEPT ![p] = "draining"]
  BY <1>2 DEF Places
<1>4. Places(c)[p] = "waiting"
  BY DEF Places
<1> QED
  BY <1>1, <1>3, <1>4 DEF FW!Acquire, Writers, Place, Places

\* A drain ends, in one of the ways the contract has for it.
LEMMA DrainsEnd ==
    ASSUME TypeOK, NEW c \in Clients, NEW p \in Writers(c), holder[c] = p,
           NEW ok \in BOOLEAN, DrainEnds(c, ok), Place(c, p)' = "idle",
           \A q \in Writers(c) \ {p} : Place(c, q)' = Place(c, q)
    PROVE  FW(c)!DrainEnds(p)
<1>1. holder'[c] = None
  BY DEF TypeOK, DrainEnds
<1>2. Places(c)' = [Places(c) EXCEPT ![p] = "idle"]
  BY DEF Places
<1>3. Places(c)[p] = "draining"
  BY DEF Places, Place
<1>4. FW(c)!Release(p)
  BY <1>1, <1>2, <1>3 DEF FW!Release, DrainEnds, Writers, Place, Places
<1>5. CASE conn[c] = "lost"
  <2>1. conn'[c] = conn[c]
    BY <1>5 DEF TypeOK, DrainEnds
  <2> QED
    BY <1>4, <1>5, <2>1 DEF FW!DrainEnds, FW!DrainError
<1>6. CASE conn[c] # "lost" /\ c \in stalled
  <2>1. conn'[c] = "closing"
    BY <1>6 DEF TypeOK, DrainEnds
  <2> QED
    BY <1>4, <1>6, <2>1 DEF FW!DrainEnds, FW!DrainTimeout
<1>7. CASE conn[c] # "lost" /\ c \notin stalled
  <2>1. conn'[c] = conn[c]
    BY <1>7 DEF TypeOK, DrainEnds
  <2> QED
    BY <1>4, <1>7, <2>1 DEF FW!DrainEnds, FW!Drained
<1> QED
  BY <1>5, <1>6, <1>7

\* A task that waits for the lock or drains is cancelled.
LEMMA Cancels ==
    ASSUME NEW c \in Clients, NEW p \in Writers(c),
           holder'[c] = IF holder[c] = p THEN None ELSE holder[c],
           conn'[c] = conn[c], c \in stalled' <=> c \in stalled,
           Place(c, p) # "idle", Place(c, p)' = "idle",
           \A q \in Writers(c) \ {p} : Place(c, q)' = Place(c, q)
    PROVE  FW(c)!Cancel(p)
<1>1. Places(c)' = [Places(c) EXCEPT ![p] = "idle"]
  BY DEF Places
<1>2. Places(c)[p] # "idle"
  BY DEF Places
<1> QED
  BY <1>1, <1>2 DEF FW!Cancel, Writers, Place, Places

\* When the task of stream k moves on, the other writers stay where they are.
LEMMA OthersStay ==
    ASSUME TypeOK, NEW k \in Keys, NEW state, Goto(k, state), UNCHANGED reader,
           \/ UNCHANGED holder
           \/ holder[k[1]] = k /\ holder' = [holder EXCEPT ![k[1]] = None],
           NEW c \in Clients, NEW p \in Writers(c), p # k
    PROVE  Place(c, p)' = Place(c, p)
<1>1. p # None /\ (p = Pong \/ p \in Keys)
  BY SendersAssumption DEF Writers, Own, Keys
<1>2. p # Pong => task'[p] = task[p]
  BY <1>1 DEF Goto, TypeOK
<1>3. holder'[c] = p <=> holder[c] = p
  BY <1>1 DEF TypeOK
<1> QED
  BY <1>2, <1>3 DEF Place

\* Every step is, on every tunnel, a step of the contract or none.
LEMMA StepImplements ==
    ASSUME TypeOK, \A k \in Keys : StreamTables(k) /\ Written(k), Next, NEW c \in Clients
    PROVE  [FW(c)!Next]_(FW(c)!vars)
<1> DEFINE Goal == [FW(c)!Next]_(FW(c)!vars)
           Still == /\ holder'[c] = holder[c] /\ conn'[c] = conn[c]
                    /\ c \in stalled' <=> c \in stalled
<1>k. ASSUME NEW k \in Keys
      PROVE  /\ k[1] \in Clients /\ k \in Writers(k[1]) /\ k # None /\ k # Pong
             /\ \A d \in Clients : d # k[1] => k \notin Writers(d)
  BY <1>k, SendersAssumption DEF Keys, Own, Writers
<1>p. Pong \in Writers(c) /\ Pong # None
  BY SendersAssumption DEF Writers
<1>s. ASSUME Still, \A p \in Writers(c) : Place(c, p)' = Place(c, p) PROVE Goal
  BY <1>s, Stutters
<1>n. ASSUME NEW p \in Writers(c),
             FW(c)!Request(p) \/ FW(c)!Acquire(p) \/ FW(c)!DrainEnds(p) \/ FW(c)!Cancel(p)
      PROVE  Goal
  BY <1>n DEF FW!Next, Writers
<1>1. ASSUME NEW d \in Clients, Reader(d) PROVE Goal
  <2>k. \A p \in Writers(c) : p # Pong => p \in Keys
    BY DEF Writers, Own, Keys
  <2>1. CASE \/ Authenticate(d) \/ ReadEnd(d) \/ TargetDrained(d) \/ TargetStalled(d)
            \/ CleanNext(d) \/ CleanAwaited(d)
    <3>1. UNCHANGED <<holder, conn, stalled, task>>
      BY <2>1 DEF Authenticate, ReadEnd, TargetDrained, TargetStalled, CleanNext, CleanAwaited
    <3>2. reader'[c] = "pong" <=> reader[c] = "pong"
      BY <2>1 DEF Authenticate, ReadEnd, TargetDrained, TargetStalled, CleanNext, CleanAwaited,
                  TypeOK
    <3> QED
      BY <3>1, <3>2, <1>s DEF Place
  <2>2. CASE RecvPing(d)
    <3>1. /\ UNCHANGED <<holder, conn, stalled, task>>
          /\ reader[d] = "read" /\ reader' = [reader EXCEPT ![d] = "pong"]
      BY <2>2 DEF RecvPing
    <3>2. CASE d # c
      BY <3>1, <3>2, <1>s DEF Place, TypeOK
    <3>3. CASE d = c
      <4>1. holder[c] # Pong
        BY <3>1, <3>3 DEF TypeOK
      <4>2. Place(c, Pong) = "idle" /\ Place(c, Pong)' = "waiting"
        BY <3>1, <3>3, <4>1 DEF Place, TypeOK
      <4>3. \A p \in Writers(c) \ {Pong} : Place(c, p)' = Place(c, p)
        BY <3>1 DEF Place
      <4> QED
        BY <3>1, <4>2, <4>3, <1>p, <1>n, Requests
    <3> QED
      BY <3>2, <3>3
  <2>3. CASE LoopTakesLock(d)
    <3>1. /\ UNCHANGED <<conn, stalled, task, reader>> /\ TakeLock(d, Pong)
          /\ reader[d] = "pong"
      BY <2>3 DEF LoopTakesLock
    <3>2. CASE d # c
      <4>1. holder'[c] = holder[c]
        BY <3>1, <3>2 DEF TakeLock, TypeOK
      <4> QED
        BY <3>1, <4>1, <1>s DEF Place
    <3>3. CASE d = c
      <4>1. holder[c] = None /\ holder'[c] = Pong
        BY <3>1, <3>3 DEF TakeLock, TypeOK
      <4>2. Place(c, Pong) = "waiting"
        BY <3>1, <3>3, <4>1, <1>p DEF Place
      <4>3. \A p \in Writers(c) \ {Pong} : Place(c, p)' = Place(c, p)
        BY <3>1, <4>1, <1>k, <2>k DEF Place
      <4> QED
        BY <3>1, <3>3, <4>2, <4>3, <1>p, <1>n, Acquires
    <3> QED
      BY <3>2, <3>3
  <2>4. CASE PongSent(d)
    <3> PICK ok \in BOOLEAN : DrainEnds(d, ok)
      BY <2>4 DEF PongSent
    <3>1. /\ task' = task /\ holder[d] = Pong /\ reader' = [reader EXCEPT ![d] = "read"]
      BY <2>4 DEF PongSent
    <3>2. CASE d # c
      <4>1. Still /\ reader'[c] = reader[c]
        BY <3>1, <3>2 DEF DrainEnds, TypeOK
      <4> QED
        BY <3>1, <4>1, <1>s DEF Place
    <3>3. CASE d = c
      <4>1. holder[c] = Pong /\ holder'[c] = None /\ reader'[c] = "read"
        BY <3>1, <3>3 DEF DrainEnds, TypeOK
      <4>2. Place(c, Pong)' = "idle"
        BY <4>1, <1>p DEF Place
      <4>3. \A p \in Writers(c) \ {Pong} : Place(c, p)' = Place(c, p)
        BY <3>1, <4>1, <1>k, <2>k DEF Place
      <4> QED
        BY <3>3, <4>1, <4>2, <4>3, <1>p, <1>n, DrainsEnd
    <3> QED
      BY <3>2, <3>3
  <2>5. CASE CleanDone(d)
    <3>1. /\ UNCHANGED <<holder, stalled, task>>
          /\ reader[d] = "clean" /\ reader' = [reader EXCEPT ![d] = "gone"]
          /\ conn' = [conn EXCEPT ![d] = IF conn[d] = "open" THEN "closing" ELSE conn[d]]
      BY <2>5 DEF CleanDone
    <3>2. reader'[c] = "pong" <=> reader[c] = "pong"
      BY <3>1 DEF TypeOK
    <3>3. \A p \in Writers(c) : Place(c, p)' = Place(c, p)
      BY <3>1, <3>2 DEF Place
    <3>4. CASE d # c \/ conn[c] # "open"
      <4>1. conn'[c] = conn[c]
        BY <3>1, <3>4 DEF TypeOK
      <4> QED
        BY <3>1, <3>3, <4>1, <1>s
    <3>5. CASE d = c /\ conn[c] = "open"
      <4>1. conn'[c] = "closing"
        BY <3>1, <3>5 DEF TypeOK
      <4>2. Places(c)' = Places(c)
        BY <3>3 DEF Places
      <4>3. FW(c)!CloseWriter
        BY <3>1, <3>5, <4>1, <4>2 DEF FW!CloseWriter, Places, Place, Writers
      <4> QED
        BY <4>3 DEF FW!Next
    <3> QED
      BY <3>4, <3>5
  <2> QED
    BY <1>1, <2>1, <2>2, <2>3, <2>4, <2>5 DEF Reader
<1>2. ASSUME NEW k \in Keys, Frame(k) PROVE Goal
  <2>1. UNCHANGED <<holder, conn, stalled>>
    BY <1>2 DEF Frame, RecvConnect, RecvData, RecvClose
  <2>2. \A d \in Clients : reader'[d] = "pong" <=> reader[d] = "pong"
    BY <1>2 DEF Frame, RecvConnect, RecvData, RecvClose, TypeOK
  <2>3. \A j \in Keys : task'[j] \in Sending <=> task[j] \in Sending
    BY <1>2 DEF Frame, RecvConnect, RecvData, RecvClose, TypeOK, Goto, Sending, StreamTables
  <2>4. \A p \in Writers(c) : p # Pong => p \in Keys
    BY DEF Writers, Own, Keys
  <2> QED
    BY <2>1, <2>2, <2>3, <2>4, <1>s DEF Place
<1>3. ASSUME NEW k \in Keys, Task(k) PROVE Goal
  <2>c. k[1] # c => k \notin Writers(c)
    BY <1>k
  <2>h. holder[k[1]] = k => task[k] \in Sending
    BY DEF Written
  <2>1. ASSUME NEW state, Goto(k, state), UNCHANGED <<reader, holder, conn, stalled>>,
               state \in Sending <=> task[k] \in Sending
        PROVE  Goal
    <3>1. \A p \in Writers(c) : p # k => Place(c, p)' = Place(c, p)
      BY <2>1, OthersStay
    <3>2. Place(c, k)' = Place(c, k)
      BY <2>1, <1>k DEF Place, Goto, TypeOK
    <3> QED
      BY <2>1, <3>1, <3>2, <1>s
  <2>2. ASSUME NEW state \in Sending, task[k] \notin Sending, Goto(k, state),
               UNCHANGED <<reader, holder, conn, stalled>>
        PROVE  Goal
    <3>1. \A p \in Writers(c) : p # k => Place(c, p)' = Place(c, p)
      BY <2>2, OthersStay
    <3>2. CASE k[1] # c
      BY <2>2, <3>1, <3>2, <2>c, <1>s
    <3>3. CASE k[1] = c
      <4>1. holder[c] # k
        BY <2>2, <2>h, <3>3
      <4>2. Place(c, k) = "idle" /\ Place(c, k)' = "waiting"
        BY <2>2, <4>1, <1>k DEF Place, Goto, TypeOK
      <4> QED
        BY <2>2, <3>1, <3>3, <4>2, <1>k, <1>n, Requests
    <3> QED
      BY <3>2, <3>3
  <2>3. ASSUME NEW state, state \notin Sending, Goto(k, state), UNCHANGED reader,
               NEW ok \in BOOLEAN, NEW states, Sent(k, states, ok)
        PROVE  Goal
    <3>1. /\ holder[k[1]] = k /\ DrainEnds(k[1], ok)
          /\ holder' = [holder EXCEPT ![k[1]] = None]
      BY <2>3 DEF Sent, DrainEnds
    <3>2. \A p \in Writers(c) : p # k => Place(c, p)' = Place(c, p)
      BY <2>3, <3>1, OthersStay
    <3>3. CASE k[1] # c
      <4>1. Still
        BY <3>1, <3>3 DEF DrainEnds, TypeOK
      <4> QED
        BY <4>1, <3>2, <3>3, <2>c, <1>s
    <3>4. CASE k[1] = c
      <4>1. holder'[c] = None
        BY <3>1, <3>4 DEF TypeOK
      <4>2. Place(c, k)' = "idle"
        BY <4>1, <2>3, <1>k DEF Place, Goto, TypeOK
      <4> QED
        BY <3>1, <3>2, <3>4, <4>2, <1>k, <1>n, DrainsEnd
    <3> QED
      BY <3>3, <3>4
  <2>4. CASE \/ Start(k) \/ Resolve(k) \/ TakePermit(k) \/ TcpConnect(k) \/ Flushed(k)
            \/ TargetData(k) \/ TargetEnd(k)
    <3>1. /\ UNCHANGED <<reader, holder, conn, stalled>> /\ task[k] \notin Sending
          /\ \E state : Goto(k, state)
      BY <2>4 DEF Start, Resolve, TakePermit, TcpConnect, Flushed, AfterFlush, TargetData,
                  TargetEnd, Running, Sending
    <3> QED
      BY <3>1, <2>1, <2>2
  <2>5. CASE FailSent(k) \/ RegisterRelay(k) \/ ChunkSent(k) \/ CloseSent(k)
    <3>1. /\ UNCHANGED reader
          /\ \E ok \in BOOLEAN : \E states : Sent(k, states, ok)
          /\ \E state \in {"done", "relay", "flush"} : Goto(k, state)
      <4>1. CASE FailSent(k)
        BY <4>1 DEF FailSent
      <4>2. CASE RegisterRelay(k)
        BY <4>2 DEF RegisterRelay, AfterFlush
      <4>3. CASE ChunkSent(k)
        BY <4>3 DEF ChunkSent, RelayDone
      <4>4. CASE CloseSent(k)
        BY <4>4 DEF CloseSent, RelayDone
      <4> QED
        BY <2>5, <4>1, <4>2, <4>3, <4>4
    <3> QED
      BY <3>1, <2>3 DEF Sending
  <2>6. CASE TaskTakesLock(k)
    <3>1. /\ UNCHANGED <<conn, stalled, task, reader>> /\ TakeLock(k[1], k)
          /\ task[k] \in Sending
      BY <2>6 DEF TaskTakesLock
    <3>2. CASE k[1] # c
      <4>1. holder'[c] = holder[c]
        BY <3>1, <3>2 DEF TakeLock, TypeOK
      <4> QED
        BY <3>1, <4>1, <1>s DEF Place
    <3>3. CASE k[1] = c
      <4>1. holder[c] = None /\ holder'[c] = k
        BY <3>1, <3>3 DEF TakeLock, TypeOK
      <4>2. Place(c, k) = "waiting"
        BY <3>1, <4>1, <1>k DEF Place
      <4>3. \A p \in Writers(c) \ {k} : Place(c, p)' = Place(c, p)
        <5>1. \A p \in Writers(c) : p # None
          BY SendersAssumption DEF Writers, Own, Keys
        <5> QED
          BY <3>1, <4>1, <5>1 DEF Place
      <4> QED
        BY <3>1, <3>3, <4>2, <4>3, <1>k, <1>n, Acquires
    <3> QED
      BY <3>2, <3>3
  <2>7. CASE Cancelled(k)
    <3>1. /\ UNCHANGED <<reader, conn, stalled>> /\ Goto(k, "done")
          /\ holder' = [holder EXCEPT ![k[1]] = IF holder[k[1]] = k THEN None ELSE holder[k[1]]]
      BY <2>7 DEF Cancelled, RelayDone
    <3>2. CASE holder[k[1]] = k
      <4>1. holder' = [holder EXCEPT ![k[1]] = None]
        BY <3>1, <3>2
      <4>2. \A p \in Writers(c) : p # k => Place(c, p)' = Place(c, p)
        BY <3>1, <3>2, <4>1, OthersStay
      <4>3. CASE k[1] # c
        <5>1. Still
          BY <3>1, <4>1, <4>3 DEF TypeOK
        <5> QED
          BY <4>2, <4>3, <5>1, <2>c, <1>s
      <4>4. CASE k[1] = c
        <5>1. holder[c] = k /\ holder'[c] = None
          BY <3>2, <4>1, <4>4 DEF TypeOK
        <5>2. Place(c, k) = "draining" /\ Place(c, k)' = "idle"
          BY <3>1, <5>1, <1>k DEF Place, Goto, TypeOK, Sending
        <5> QED
          BY <3>1, <4>2, <4>4, <5>1, <5>2, <1>k, <1>n, Cancels
      <4> QED
        BY <4>3, <4>4
    <3>3. CASE holder[k[1]] # k
      <4>1. holder' = holder
        BY <3>1, <3>3 DEF TypeOK
      <4>2. CASE task[k] \notin Sending
        BY <3>1, <4>1, <4>2, <2>1 DEF Sending
      <4>3. CASE task[k] \in Sending
        <5>1. \A p \in Writers(c) : p # k => Place(c, p)' = Place(c, p)
          BY <3>1, <4>1, OthersStay
        <5>2. CASE k[1] # c
          BY <3>1, <4>1, <5>1, <5>2, <2>c, <1>s
        <5>3. CASE k[1] = c
          <6>1. Place(c, k) = "waiting" /\ Place(c, k)' = "idle"
            BY <3>1, <3>3, <4>1, <4>3, <5>3, <1>k DEF Place, Goto, TypeOK, Sending
          <6> QED
            BY <3>1, <3>3, <4>1, <5>1, <5>3, <6>1, <1>k, <1>n, Cancels
        <5> QED
          BY <5>2, <5>3
      <4> QED
        BY <4>2, <4>3
    <3> QED
      BY <3>2, <3>3
  <2> QED
    BY <1>3, <2>4, <2>5, <2>6, <2>7 DEF Task
<1>4. ASSUME NEW d \in Clients, Environment(d) PROVE Goal
  <2>1. UNCHANGED <<holder, reader, task>>
    BY <1>4 DEF Environment, PeerStalls, ConnLost
  <2>2. Places(c)' = Places(c)
    BY <2>1 DEF Places, Place
  <2>3. CASE d # c
    <3>1. Still
      BY <2>1, <2>3, <1>4 DEF Environment, PeerStalls, ConnLost, TypeOK
    <3> QED
      BY <2>1, <3>1, <1>s DEF Place
  <2>4. CASE d = c /\ PeerStalls(c)
    <3>1. FW(c)!PeerStalls
      BY <2>2, <2>4 DEF FW!PeerStalls, PeerStalls, Places, Place, Writers
    <3> QED
      BY <3>1 DEF FW!Next
  <2>5. CASE d = c /\ ConnLost(c)
    <3>1. FW(c)!Lose
      BY <2>2, <2>5 DEF FW!Lose, ConnLost, TypeOK, Places, Place, Writers
    <3> QED
      BY <3>1 DEF FW!Next
  <2> QED
    BY <1>4, <2>3, <2>4, <2>5 DEF Environment
<1>5. CASE Stop \/ CloseAll
  <2>1. UNCHANGED <<holder, conn, stalled, reader, task>>
    BY <1>5 DEF Stop, CloseAll
  <2> QED
    BY <2>1, <1>s DEF Place
<1> QED
  BY <1>1, <1>2, <1>3, <1>4, <1>5 DEF Next

\* The writes to every tunnel keep the contract of the shared writer, whatever tasks, peers and
\* cancellations do (forward_proxy.py:37-69): the safety part of FrameWriter is implemented.
THEOREM WritesKeepContract == SafeSpec => WriterContract
<1> DEFINE Known == \A k \in Keys : StreamTables(k) /\ Written(k)
           Contract == \A c \in Clients : [FW(c)!Next]_(FW(c)!vars)
<1>1. Init => \A c \in Clients : FW(c)!Init
  BY InitImplements
<1>2. TypeOK /\ Known /\ [Next]_vars => [Contract]_vars
  BY StepImplements
<1>3. (\A k \in Keys : StreamTables(k)) /\ (\A k \in Keys : Written(k)) => Known
  OBVIOUS
<1>4. SafeSpec => [][Contract]_vars
  BY <1>2, <1>3, TypeCorrect, StreamTablesHold, FramesWritten, PTL DEF SafeSpec
<1> QED
  BY <1>1, <1>4, PTL DEF SafeSpec, WriterContract
=============================================================================
