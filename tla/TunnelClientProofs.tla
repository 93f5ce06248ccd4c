------------------------- MODULE TunnelClientProofs -------------------------
(* Theorems about TunnelClient, for any number of create_stream calls and of *)
(* connections.  What the three safety properties rest on is CallInv, one    *)
(* fact per stream that every step keeps, and that _streams is only filled   *)
(* while the tunnel is up or is being torn down.                             *)
EXTENDS TunnelClient, TLAPS

USE DEF vars, connVars, loopVars, streamVars

\* _streams is filled while the tunnel is up, and emptied by the end of every disconnect().
OnlyWhileUp == streams # {} => up \/ Disconnecting

\* What is known of a stream from where its create_stream is.
CallInv(s) ==
    /\ call[s] = "none" => s \notin streams /\ s \notin reached /\ answer[s] = "none"
    /\ call[s] \in {"send", "wait"} => s \in streams \cup closed
    /\ call[s] = "wait" => future[s] # "none"
    /\ call[s] \in {"send", "wait"} /\ ~optimistic => future[s] # "none"
    /\ call[s] \in {"send", "wait"} /\ future[s] = "pending" =>
          s \in streams /\ answer[s] = "none"
    /\ call[s] = "bye" => s \notin streams
    /\ result[s] = "stream" /\ s \notin closed => s \in streams
    /\ result[s] \in {"rejected", "nil"} => s \notin streams

IInv == TypeOK /\ OnlyWhileUp /\ \A s \in Streams : CallInv(s)

\* The initial states are of the right types and satisfy the invariant.
LEMMA InitHolds == Init => IInv
<1> SUFFICES ASSUME Init PROVE IInv
  OBVIOUS
<1>1. TypeOK
  <2>1. connects \in 0..MaxConnects
    BY ConnectsAssumption DEF Init
  <2>2. streams \in SUBSET Streams /\ closed \in SUBSET Streams /\ reached \in SUBSET Streams
    BY DEF Init
  <2> QED
    BY <2>1, <2>2 DEF Init, TypeOK
<1>2. OnlyWhileUp
  BY DEF Init, OnlyWhileUp
<1>3. \A s \in Streams : CallInv(s)
  BY DEF Init, CallInv
<1> QED
  BY <1>1, <1>2, <1>3 DEF IInv

\* connect(), the loops and the connection: no stream changes.
LEMMA TunnelSteps ==
    ASSUME IInv,
           \/ Connect \/ Opened(TRUE) \/ Opened(FALSE)
           \/ Authenticated(TRUE) \/ Authenticated(FALSE)
           \/ \E l \in Loops : LoopEnds(l)
           \/ Ping \/ PongSent \/ DrainTimesOut \/ ConnLost \/ ServerSilent
    PROVE  IInv'
<1>1. UNCHANGED <<optimistic, streamVars>>
  BY DEF Connect, Opened, Authenticated, LoopEnds, Ping, PongSent, DrainTimesOut, ConnLost,
         ServerSilent
<1>2. \A s \in Streams : CallInv(s)'
  BY <1>1 DEF IInv, CallInv
<1>3. TypeOK'
  <2>1. CASE Connect \/ Opened(TRUE) \/ Opened(FALSE)
    BY <2>1, <1>1, ConnectsAssumption DEF IInv, TypeOK, Connect, Opened
  <2>2. CASE Authenticated(TRUE) \/ Authenticated(FALSE)
    <3>1. /\ conn' \in {"none", "open", "closing", "lost"} /\ up' \in BOOLEAN
          /\ quiet' \in BOOLEAN /\ connecting' = "idle"
          /\ UNCHANGED <<connects, cancelled>>
      BY <2>2 DEF IInv, TypeOK, Authenticated
    <3>2. at' \in [Tasks -> {"none", "loop", "pong", "last", "ended"} \cup Loops]
      <4>1. at' = at \/ at' = [t \in Tasks |-> IF t \in Loops THEN "loop" ELSE at[t]]
        BY <2>2 DEF Authenticated
      <4> QED
        BY <4>1 DEF IInv, TypeOK
    <3> QED
      BY <3>1, <3>2, <1>1 DEF IInv, TypeOK
  <2>3. CASE \E l \in Loops : LoopEnds(l)
    <3> PICK l \in Loops : LoopEnds(l)
      BY <2>3
    <3>1. at' \in [Tasks -> {"none", "loop", "pong", "last", "ended"} \cup Loops]
      BY DEF IInv, TypeOK, LoopEnds
    <3>2. cancelled' \in SUBSET Loops /\ UNCHANGED <<connVars, quiet>>
      BY DEF IInv, TypeOK, LoopEnds
    <3> QED
      BY <3>1, <3>2, <1>1 DEF IInv, TypeOK
  <2>4. CASE Ping \/ PongSent \/ DrainTimesOut \/ ConnLost \/ ServerSilent
    <3>1. /\ conn' \in {"none", "open", "closing", "lost"} /\ quiet' \in BOOLEAN
          /\ cancelled' \in SUBSET Loops
          /\ UNCHANGED <<up, connecting, connects>>
      BY <2>4 DEF IInv, TypeOK, Ping, PongSent, DrainTimesOut, ConnLost, ServerSilent
    <3>2. at' \in [Tasks -> {"none", "loop", "pong", "last", "ended"} \cup Loops]
      BY <2>4, SMTT(30)
      DEF IInv, TypeOK, Ping, PongSent, DrainTimesOut, ConnLost, ServerSilent
    <3> QED
      BY <3>1, <3>2, <1>1 DEF IInv, TypeOK
  <2> QED
    BY <2>1, <2>2, <2>3, <2>4
<1>4. OnlyWhileUp'
  <2>1. up \/ Disconnecting => up' \/ Disconnecting'
    <3>1. CASE Connect \/ Opened(TRUE) \/ Opened(FALSE) \/ DrainTimesOut \/ ConnLost
               \/ ServerSilent
      BY <3>1 DEF Disconnecting, Connect, Opened, DrainTimesOut, ConnLost, ServerSilent
    <3>2. CASE Authenticated(TRUE) \/ Authenticated(FALSE)
      BY <3>2 DEF Disconnecting, Authenticated
    <3>3. CASE \E l \in Loops : LoopEnds(l)
      BY <3>3, SMTT(30) DEF IInv, TypeOK, Disconnecting, LoopEnds, Loops, Tasks
    <3>4. CASE Ping \/ PongSent
      BY <3>4, SMTT(30) DEF IInv, TypeOK, Disconnecting, Ping, PongSent, Reading, Loops, Tasks
    <3> QED
      BY <3>1, <3>2, <3>3, <3>4
  <2> QED
    BY <2>1, <1>1 DEF IInv, OnlyWhileUp
<1> QED
  BY <1>2, <1>3, <1>4 DEF IInv

\* The loop that disconnect() turns to next is one of those before it.
LEMMA FirstIsThere ==
    ASSUME NEW ls \in SUBSET Loops, ls # {}
    PROVE  First(ls) \in ls
<1>1. \E l \in ls : ls \subseteq {l} \cup After(l)
  <2>1. CASE "reader" \in ls
    <3>1. ls \subseteq {"reader"} \cup After("reader")
      BY DEF Loops, After
    <3> QED
      BY <2>1, <3>1
  <2>2. CASE "reader" \notin ls /\ "health" \in ls
    <3>1. ls \subseteq {"health"} \cup After("health")
      BY <2>2 DEF Loops, After
    <3> QED
      BY <2>2, <3>1
  <2>3. CASE "reader" \notin ls /\ "health" \notin ls
    <3>1. ls \subseteq {"ping"} \cup After("ping") /\ "ping" \in ls
      BY <2>3 DEF Loops, After
    <3> QED
      BY <3>1
  <2> QED
    BY <2>1, <2>2, <2>3
<1> QED
  BY <1>1 DEF First

\* disconnect() is suspended with the streams as they were, or it closes what it takes out of
\* _streams.
LEMMA GoOnStep ==
    ASSUME IInv, NEW t \in Tasks, NEW ls \in SUBSET Loops, GoOn(t, ls),
           up' \in BOOLEAN,
           UNCHANGED <<optimistic, connecting, connects, quiet, call, result, answer>>
    PROVE  IInv'
<1>1. CASE ls \cap Live # {}
  <2> DEFINE l == First(ls \cap Live)
  <2>1. l \in Loops
    BY <1>1, FirstIsThere
  <2> HIDE DEF l
  <2>2. /\ at' = [at EXCEPT ![t] = l]
        /\ cancelled' = (cancelled \ {t}) \cup {l}
        /\ UNCHANGED <<streams, future, closed, reached, conn>>
    BY <1>1 DEF GoOn, l
  <2>3. at'[t] \in Loops
    BY <2>1, <2>2 DEF IInv, TypeOK
  <2>4. TypeOK'
    BY <2>1, <2>2 DEF IInv, TypeOK
  <2>5. OnlyWhileUp'
    BY <2>3 DEF OnlyWhileUp, Disconnecting
  <2>6. \A s \in Streams : CallInv(s)'
    BY <2>2 DEF IInv, CallInv
  <2> QED
    BY <2>4, <2>5, <2>6 DEF IInv
<1>2. CASE ls \cap Live = {}
  <2>1. /\ at' = [at EXCEPT ![t] = IF t \in Loops THEN "none" ELSE "ended"]
        /\ cancelled' = cancelled \ {t} /\ conn' = "none" /\ CloseStreams
    BY <1>2 DEF GoOn
  <2>2. TypeOK'
    BY <2>1 DEF IInv, TypeOK, CloseStreams
  <2>3. OnlyWhileUp'
    BY <2>1 DEF OnlyWhileUp, CloseStreams
  <2>4. ASSUME NEW s \in Streams PROVE CallInv(s)'
    BY <2>1 DEF IInv, TypeOK, CallInv, CloseStreams
  <2> QED
    BY <2>2, <2>3, <2>4 DEF IInv
<1> QED
  BY <1>1, <1>2

\* disconnect(), from its beginning to its end.
LEMMA DisconnectSteps ==
    ASSUME IInv,
           \/ ReaderDisconnects \/ HealthDisconnects \/ OwnerDisconnects
           \/ \E t \in Tasks : Awaited(t)
    PROVE  IInv'
<1>1. ASSUME NEW t \in Tasks, Disconnect(t) PROVE IInv'
  BY <1>1, GoOnStep DEF Disconnect
<1>2. ASSUME NEW t \in Tasks, Awaited(t) PROVE IInv'
  <2>1. After(at[t]) \in SUBSET Loops
    BY <1>2 DEF Awaited, After, Loops
  <2>2. up' \in BOOLEAN
    BY <1>2 DEF IInv, TypeOK, Awaited
  <2> QED
    BY <1>2, <2>1, <2>2, GoOnStep DEF Awaited
<1> QED
  BY <1>1, <1>2 DEF ReaderDisconnects, HealthDisconnects, OwnerDisconnects, Tasks, Loops

\* A step of one stream: the others keep theirs.
LEMMA StreamSteps ==
    ASSUME IInv, NEW s \in Streams,
           \/ Create(s) \/ Written(s) \/ Sent(s, TRUE) \/ Sent(s, FALSE) \/ Resolved(s)
           \/ TimedOut(s) \/ ByeSent(s) \/ CloseStream(s)
           \/ Answered(s, TRUE) \/ Answered(s, FALSE) \/ ServerCloses(s)
    PROVE  IInv'
<1> USE DEF Return
<1>1. TypeOK'
  <2>1. CASE Create(s)
    BY <2>1 DEF IInv, TypeOK, Create
  <2>2. CASE Written(s) \/ ServerCloses(s) \/ CloseStream(s)
    <3>1. /\ streams' \in SUBSET Streams /\ closed' \in SUBSET Streams
          /\ reached' \in SUBSET Streams /\ quiet' \in BOOLEAN
      BY <2>2 DEF IInv, TypeOK, Written, ServerCloses, CloseStream
    <3>2. UNCHANGED <<optimistic, connVars, at, cancelled, call, result, future, answer>>
      BY <2>2 DEF Written, ServerCloses, CloseStream
    <3> QED
      BY <3>1, <3>2 DEF IInv, TypeOK
  <2>6. CASE ByeSent(s)
    BY <2>6 DEF IInv, TypeOK, ByeSent
  <2>3. CASE Sent(s, TRUE) \/ Sent(s, FALSE)
    BY <2>3 DEF IInv, TypeOK, Sent
  <2>4. CASE Resolved(s) \/ TimedOut(s)
    BY <2>4 DEF IInv, TypeOK, Resolved, TimedOut
  <2>5. CASE Answered(s, TRUE) \/ Answered(s, FALSE)
    <3>1. /\ answer' \in [Streams -> {"none", "ok", "fail"}]
          /\ future' \in [Streams -> {"none", "pending", "done", "failed"}]
          /\ closed' \in SUBSET Streams /\ quiet' \in BOOLEAN
      BY <2>5 DEF IInv, TypeOK, Answered
    <3>2. UNCHANGED <<optimistic, connVars, at, cancelled, streams, call, result, reached>>
      BY <2>5 DEF Answered
    <3> QED
      BY <3>1, <3>2 DEF IInv, TypeOK
  <2> QED
    BY <2>1, <2>2, <2>3, <2>4, <2>5, <2>6
<1>2. OnlyWhileUp'
  BY DEF IInv, OnlyWhileUp, Disconnecting, Create, Written, Sent, Resolved, TimedOut, ByeSent,
         CloseStream, Answered, ServerCloses
<1>3. ASSUME NEW u \in Streams \ {s} PROVE CallInv(u)'
  <2> CallInv(u) /\ TypeOK
    BY DEF IInv
  <2>1. CASE Create(s) \/ Written(s) \/ Sent(s, TRUE) \/ Sent(s, FALSE)
    BY <2>1 DEF TypeOK, CallInv, Create, Written, Sent
  <2>2. CASE Resolved(s) \/ TimedOut(s) \/ ByeSent(s) \/ CloseStream(s)
    BY <2>2 DEF TypeOK, CallInv, Resolved, TimedOut, ByeSent, CloseStream
  <2>3. CASE Answered(s, TRUE) \/ Answered(s, FALSE) \/ ServerCloses(s)
    BY <2>3 DEF TypeOK, CallInv, Answered, ServerCloses
  <2> QED
    BY <2>1, <2>2, <2>3
<1>4. CallInv(s)'
  <2> CallInv(s) /\ TypeOK
    BY DEF IInv
  <2>1. CASE Create(s)
    BY <2>1 DEF TypeOK, CallInv, Create
  <2>2. CASE Written(s)
    BY <2>2 DEF TypeOK, CallInv, Written
  <2>3. CASE Sent(s, TRUE) \/ Sent(s, FALSE)
    BY <2>3 DEF TypeOK, CallInv, Sent
  <2>4. CASE Resolved(s)
    BY <2>4 DEF TypeOK, CallInv, Resolved
  <2>5. CASE TimedOut(s)
    BY <2>5 DEF TypeOK, CallInv, TimedOut
  <2>6. CASE ByeSent(s) \/ CloseStream(s)
    BY <2>6 DEF TypeOK, CallInv, ByeSent, CloseStream
  <2>7. CASE Answered(s, TRUE) \/ Answered(s, FALSE)
    BY <2>7 DEF TypeOK, CallInv, Answered
  <2>8. CASE ServerCloses(s)
    BY <2>8 DEF TypeOK, CallInv, ServerCloses
  <2> QED
    BY <2>1, <2>2, <2>3, <2>4, <2>5, <2>6, <2>7, <2>8
<1> QED
  BY <1>1, <1>2, <1>3, <1>4 DEF IInv

\* Every step keeps the invariant.
LEMMA NextHolds == IInv /\ [Next]_vars => IInv'
<1>1. ASSUME IInv, UNCHANGED vars PROVE IInv'
  BY <1>1 DEF IInv, TypeOK, OnlyWhileUp, Disconnecting, CallInv
<1>2. ASSUME IInv, Next PROVE IInv'
  BY <1>2, TunnelSteps, DisconnectSteps, StreamSteps DEF Next
<1> QED
  BY <1>1, <1>2

\* The invariant holds in every reachable state.
THEOREM InvariantHolds == SafeSpec => []IInv
  BY InitHolds, NextHolds, PTL DEF SafeSpec

\* Every variable of a client's tunnel keeps its type, and create_stream has a result exactly
\* when it has returned.
THEOREM TypeCorrect == SafeSpec => []TypeOK
<1>1. IInv => TypeOK
  BY DEF IInv
<1> QED
  BY <1>1, InvariantHolds, PTL

\* Whoever was handed a stream will be told its end: an open stream is registered with a
\* tunnel that is up or is being torn down.
THEOREM OpenStreamsRegistered == SafeSpec => []OpenIsRegistered
<1>1. IInv => OpenIsRegistered
  BY DEF IInv, CallInv, OnlyWhileUp, OpenIsRegistered
<1> QED
  BY <1>1, InvariantHolds, PTL

\* A create_stream that waits for its answer waits for one that can still come.
THEOREM NoAnswerIsMissed == SafeSpec => []NoAnswerMissed
<1>1. IInv => NoAnswerMissed
  BY DEF IInv, CallInv, OnlyWhileUp, NoAnswerMissed
<1> QED
  BY <1>1, InvariantHolds, PTL

\* A create_stream that handed out no stream left none behind in _streams.
THEOREM NoStreamIsLeaked == SafeSpec => []NoStreamLeaks
<1>1. IInv => NoStreamLeaks
  BY DEF IInv, CallInv, NoStreamLeaks
<1> QED
  BY <1>1, InvariantHolds, PTL
=============================================================================
