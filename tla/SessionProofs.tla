---------------------------- MODULE SessionProofs ----------------------------
(* Theorems about Session, for any bounds.                                   *)
EXTENDS Session, FiniteSetTheorems, TLAPS

USE DEF vars, flags, objects, windows, gui, outside

Kinds == {"connect", "disconnect", "auto"}

\* What the place of a coroutine tells of the rest of its state.
LEMMA TaskShape ==
    ASSUME NEW s \in TaskStates
    PROVE  /\ s.at = "idle" => s = Idle
           /\ s.at = "dialling" \/ s.at = "binding" => s.kind = "connect"
           /\ s.at = "sleeping" \/ s.at = "redialling" =>
                 s.kind = "auto" /\ s.n \in 1..MaxAttempts
           /\ s.at = "redialling" => s.obj \in Ids
           /\ s.at # "idle" /\ s.kind = "connect" /\ s.at \notin {"closing", "dropping"} =>
                 /\ s.obj \in Ids
                 /\ \A p \in {"start", "dialling", "binding"} :
                       [s EXCEPT !.at = p] = [kind |-> "connect", at |-> p, obj |-> s.obj]
  BY DEF TaskStates, Idle, Ids

\* The states a coroutine is put in are states of a coroutine.
LEMMA NewStates ==
    /\ Idle \in TaskStates
    /\ \A kind \in Kinds : [kind |-> kind, at |-> "dropping"] \in TaskStates
    /\ \A kind \in Kinds, obj \in Ids : [kind |-> kind, at |-> "closing", obj |-> obj] \in TaskStates
    /\ \A kind \in {"disconnect", "auto"} : [kind |-> kind, at |-> "start"] \in TaskStates
    /\ \A at \in {"start", "dialling", "binding"}, obj \in Ids :
          [kind |-> "connect", at |-> at, obj |-> obj] \in TaskStates
    /\ \A n \in 1..MaxAttempts : [kind |-> "auto", at |-> "sleeping", n |-> n] \in TaskStates
    /\ \A n \in 1..MaxAttempts, obj \in Ids :
          [kind |-> "auto", at |-> "redialling", n |-> n, obj |-> obj] \in TaskStates
  BY DEF Kinds, Idle, TaskStates

\* The registry and what the program would restore, whatever calls were refused.
LEMMA WindowsTypes ==
    ASSUME registry \in Settings, original \in Settings \cup {"none"}, Enable \/ Restore
    PROVE  registry' \in Settings /\ original' \in Settings \cup {"none"}
  BY DEF Enable, Restore, Half, Settings

\* What a coroutine emits at its end is a sequence of status signals.
LEMMA FarewellTypes == \A kind \in Kinds : Farewell(kind) \in Seq(Statuses)
<1>1. Farewell("connect") = <<"failed">>
  BY DEF Farewell
<1>2. Farewell("disconnect") = <<"disconnected">>
  BY DEF Farewell
<1>3. Farewell("auto") = <<"disconnected", "failed">>
  BY DEF Farewell
<1> QED
  <2>1. <<"failed">> \in Seq(Statuses) /\ <<"disconnected">> \in Seq(Statuses)
    BY DEF Statuses
  <2>2. <<"disconnected", "failed">> \in Seq(Statuses)
    BY DEF Statuses
  <2> QED
    BY <1>1, <1>2, <1>3, <2>1, <2>2 DEF Kinds

\* A signal joins the queue of the GUI thread.
LEMMA EmitTypes ==
    ASSUME signals \in Seq(Statuses), NEW s \in Statuses, Emit(<<s>>)
    PROVE  signals' \in Seq(Statuses)
  BY DEF Emit

\* The loop stops: its coroutines are gone.
LEMMA StopTypes ==
    ASSUME Stop
    PROVE  /\ task' \in [Tasks -> TaskStates] /\ signals' \in Seq(Statuses)
           /\ reconnecting' = FALSE /\ exit' = "stopped" /\ busy' = {}
  BY NewStates DEF Stop

\* The types after a coroutine has finished,
LEMMA FinishTypes ==
    ASSUME TypeOK, NEW t \in Tasks, NEW kind \in Kinds, Finish(t, kind)
    PROVE  /\ task' \in [Tasks -> TaskStates] /\ signals' \in Seq(Statuses)
           /\ reconnecting' \in BOOLEAN
<1>1. task' \in [Tasks -> TaskStates]
  BY NewStates DEF TypeOK, Finish, Goes
<1>2. signals' \in Seq(Statuses)
  BY FarewellTypes DEF TypeOK, Finish, Emit
<1>3. reconnecting' \in BOOLEAN
  BY DEF Finish
<1> QED
  BY <1>1, <1>2, <1>3

\* after a teardown has come to the pool,
LEMMA DropPoolTypes ==
    ASSUME TypeOK, NEW t \in Tasks, NEW kind \in Kinds, DropPool(t, kind)
    PROVE  /\ task' \in [Tasks -> TaskStates] /\ signals' \in Seq(Statuses)
           /\ reconnecting' \in BOOLEAN /\ alive' \subseteq Ids
<1>1. CASE pool = 0
  BY <1>1, FinishTypes DEF DropPool, TypeOK
<1>2. CASE pool # 0
  BY <1>2, NewStates DEF DropPool, TypeOK, Goes
<1> QED
  BY <1>1, <1>2

\* after a teardown has begun,
LEMMA TeardownTypes ==
    ASSUME TypeOK, NEW t \in Tasks, NEW kind \in Kinds, Teardown(t, kind)
    PROVE  /\ task' \in [Tasks -> TaskStates] /\ signals' \in Seq(Statuses)
           /\ reconnecting' \in BOOLEAN /\ alive' \subseteq Ids
           /\ pool' = pool /\ started' = started
           /\ proxy' \in {proxy, 0} /\ port' \in {port, 0} /\ busy' \subseteq Ids
<1>1. CASE proxy \in started
  <2>1. busy' \subseteq Ids /\ port' \in {port, 0}
    BY <1>1 DEF Teardown, CloseServer, TypeOK
  <2> QED
    BY <1>1, <2>1, NewStates DEF Teardown, TypeOK, Goes
<1>2. CASE proxy \notin started
  BY <1>2, DropPoolTypes DEF Teardown, TypeOK
<1> QED
  BY <1>1, <1>2

\* and after the auto-reconnect has slept or given up.
LEMMA NextAttemptTypes ==
    ASSUME TypeOK, NEW t \in Tasks, NEW n \in 1..MaxAttempts, NextAttempt(t, n),
           UNCHANGED <<gui, events>>
    PROVE  TypeOK'
<1>1. CASE n = MaxAttempts /\ running' = FALSE /\ Restore /\ Teardown(t, "auto")
  BY <1>1, TeardownTypes, WindowsTypes DEF TypeOK, Kinds
<1>2. CASE /\ n < MaxAttempts
           /\ UNCHANGED <<objects, windows, busy>>
           /\ IF running THEN AutoSleeps(t, n + 1) /\ UNCHANGED flags ELSE AutoReturns(t)
  <2>1. task' \in [Tasks -> TaskStates]
    <3>1. task \in [Tasks -> TaskStates]
      BY DEF TypeOK
    <3>2. n + 1 \in 1..MaxAttempts
      BY <1>2, SessionAssumption
    <3>3. [kind |-> "auto", at |-> "sleeping", n |-> n + 1] \in TaskStates /\ Idle \in TaskStates
      BY <3>2, NewStates
    <3>4. PICK u \in TaskStates : Goes(t, u)
      BY <1>2, <3>3 DEF AutoSleeps, AutoReturns
    <3> QED
      BY <3>1, <3>4 DEF Goes
  <2>2. signals' \in Seq(Statuses)
    <3>1. CASE running
      BY <1>2, <3>1, EmitTypes DEF TypeOK, AutoSleeps, Statuses
    <3>2. CASE ~running
      BY <1>2, <3>2 DEF TypeOK, AutoReturns
    <3> QED
      BY <3>1, <3>2
  <2> QED
    BY <1>2, <2>1, <2>2 DEF TypeOK, AutoReturns
<1> QED
  BY <1>1, <1>2 DEF NextAttempt

\* Every variable keeps its type.
THEOREM TypeCorrect == SafeSpec => []TypeOK
<1>1. Init => TypeOK
  <2> SUFFICES ASSUME Init PROVE TypeOK
    OBVIOUS
  <2>1. task \in [Tasks -> TaskStates]
    BY NewStates DEF Init
  <2>2. made \in 0..MaxConnects /\ events \in 0..MaxEvents
    BY SessionAssumption DEF Init
  <2>3. signals \in Seq(Statuses)
    BY DEF Init
  <2> QED
    BY <2>1, <2>2, <2>3 DEF Init, TypeOK, Settings
<1>2. TypeOK /\ [Next]_vars => TypeOK'
  <2> SUFFICES ASSUME TypeOK, Next PROVE TypeOK'
    BY DEF TypeOK
  <2>1. ASSUME NEW t \in Tasks, Step(t) PROVE TypeOK'
    <3>s. task[t] \in TaskStates
      BY DEF TypeOK
    <3>1. CASE ConnectStarts(t)
      <4>0. task[t].kind = "connect" /\ task[t].at = "start"
        BY <3>1 DEF ConnectStarts, At
      <4>a. task[t].obj \in Ids /\ [task[t] EXCEPT !.at = "dialling"] \in TaskStates
        <5> DEFINE s == task[t]
        <5>1. s \in TaskStates
          BY <3>s
        <5>2. /\ s.obj \in Ids
              /\ \A p \in {"start", "dialling", "binding"} :
                    [s EXCEPT !.at = p] = [kind |-> "connect", at |-> p, obj |-> s.obj]
          <6> HIDE DEF s
          <6> QED
            BY <5>1, <4>0, TaskShape, Zenon DEF s
        <5> QED
          BY <5>2, NewStates, ZenonT(40)
      <4>1. task[t].obj \in Ids /\ task' \in [Tasks -> TaskStates]
        BY <3>1, <4>a DEF ConnectStarts, Goes, TypeOK
      <4> QED
        BY <3>1, <4>1 DEF ConnectStarts, Emit, TypeOK, Statuses
    <3>2. CASE ConnectDialled(t)
      <4>0. task[t].kind = "connect" /\ task[t].at = "dialling"
        BY <3>2 DEF ConnectDialled, At
      <4>a. task[t].obj \in Ids /\ [task[t] EXCEPT !.at = "binding"] \in TaskStates
        <5> DEFINE s == task[t]
        <5>1. s \in TaskStates
          BY <3>s
        <5>2. /\ s.obj \in Ids
              /\ \A p \in {"start", "dialling", "binding"} :
                    [s EXCEPT !.at = p] = [kind |-> "connect", at |-> p, obj |-> s.obj]
          <6> HIDE DEF s
          <6> QED
            BY <5>1, <4>0, TaskShape, Zenon DEF s
        <5> QED
          BY <5>2, NewStates, ZenonT(40)
      <4>1. task[t].obj \in Ids /\ task' \in [Tasks -> TaskStates]
        BY <3>2, <4>a DEF ConnectDialled, Goes, TypeOK
      <4> QED
        BY <3>2, <4>1 DEF ConnectDialled, TypeOK
    <3>3. CASE ConnectFails(t)
      BY <3>3, TeardownTypes DEF ConnectFails, TypeOK, Kinds
    <3>4. CASE Bound(t)
      <4>1. task[t].obj \in Ids
        BY <3>4, <3>s, TaskShape DEF Bound, At
      <4>2. task' \in [Tasks -> TaskStates] /\ signals' \in Seq(Statuses)
        BY <3>4, NewStates DEF Bound, Goes, Emit, TypeOK, Statuses
      <4>3. registry' \in Settings /\ original' \in Settings \cup {"none"}
        BY <3>4, WindowsTypes DEF Bound, TypeOK
      <4> QED
        BY <3>4, <4>1, <4>2, <4>3 DEF Bound, TypeOK
    <3>5. CASE BindFails(t)
      BY <3>5, TeardownTypes DEF BindFails, TypeOK, Kinds
    <3>6. CASE DisconnectStarts(t)
      BY <3>6, TeardownTypes, WindowsTypes DEF DisconnectStarts, TypeOK, Kinds
    <3>7. CASE Stopped(t)
      BY <3>7, DropPoolTypes DEF Stopped, TypeOK, Kinds
    <3>8. CASE Dropped(t)
      BY <3>8, FinishTypes DEF Dropped, TypeOK, Kinds
    <3>9. CASE AutoStarts(t)
      <4>1. task' \in [Tasks -> TaskStates]
        BY <3>9, NewStates, SessionAssumption DEF AutoStarts, AutoSleeps, Goes, TypeOK
      <4>2. signals' \in Seq(Statuses)
        <5>1. signals \in Seq(Statuses) /\ "reconnecting" \in Statuses
          BY DEF TypeOK, Statuses
        <5>2. Emit(<<"reconnecting">>) \/ UNCHANGED signals
          BY <3>9 DEF AutoStarts, AutoSleeps
        <5> QED
          BY <5>1, <5>2, EmitTypes
      <4> QED
        BY <3>9, <4>1, <4>2 DEF AutoStarts, TypeOK
    <3>10. CASE AutoWakes(t)
      <4>n. task[t].n \in 1..MaxAttempts
        BY <3>10, <3>s, TaskShape DEF AutoWakes, At
      <4>1. CASE ~running /\ AutoReturns(t) /\ UNCHANGED <<objects, windows>>
        BY <3>10, <4>1, NewStates DEF AutoWakes, AutoReturns, Goes, TypeOK
      <4>2. CASE running /\ pool = 0 /\ NextAttempt(t, task[t].n)
        BY <3>10, <4>2, <4>n, NextAttemptTypes DEF AutoWakes
      <4>3. CASE /\ running /\ pool # 0
                 /\ Goes(t, [kind |-> "auto", at |-> "redialling", n |-> task[t].n, obj |-> pool])
                 /\ alive' = alive \ {pool}
                 /\ UNCHANGED <<pool, proxy, started, port, windows, flags, signals>>
        <5>1. task' \in [Tasks -> TaskStates]
          BY <4>3, <4>n, NewStates DEF Goes, TypeOK
        <5> QED
          BY <3>10, <4>3, <5>1 DEF AutoWakes, TypeOK
      <4> QED
        BY <3>10, <4>1, <4>2, <4>3 DEF AutoWakes
    <3>11. CASE AutoRedialled(t)
      <4>1. task[t].obj \in Ids
        BY <3>11, <3>s, TaskShape DEF AutoRedialled, At
      <4>2. task' \in [Tasks -> TaskStates] /\ signals' \in Seq(Statuses)
        BY <3>11, NewStates DEF AutoRedialled, Goes, Emit, TypeOK, Statuses
      <4> QED
        BY <3>11, <4>1, <4>2 DEF AutoRedialled, TypeOK
    <3>12. CASE AutoFails(t)
      BY <3>12, <3>s, TaskShape, NextAttemptTypes DEF AutoFails, At
    <3> QED
      BY <2>1, <3>1, <3>2, <3>3, <3>4, <3>5, <3>6, <3>7, <3>8, <3>9, <3>10, <3>11, <3>12
         DEF Step
  <2>2. ASSUME NEW t \in Tasks, Toggle(t) PROVE TypeOK'
    <3>1. made < MaxConnects => made + 1 \in Ids
      BY SessionAssumption DEF TypeOK, Ids
    <3>2. task' \in [Tasks -> TaskStates]
      BY <2>2, <3>1, NewStates DEF Toggle, Goes, TypeOK
    <3>3. made' \in 0..MaxConnects /\ events' \in 0..MaxEvents
      BY <2>2, SessionAssumption DEF Toggle, TypeOK
    <3> QED
      BY <2>2, <3>2, <3>3 DEF Toggle, TypeOK
  <2>3. CASE Deliver
    BY <2>3 DEF Deliver, TypeOK
  <2>4. ASSUME NEW t \in Tasks, Quit(t) PROVE TypeOK'
    <3>1. CASE Live
      <4>1. task' \in [Tasks -> TaskStates]
        BY <2>4, <3>1, NewStates DEF Quit, Goes, TypeOK
      <4> QED
        BY <2>4, <3>1, <4>1 DEF Quit, TypeOK
    <3>2. CASE ~Live
      BY <2>4, <3>2, StopTypes DEF Quit, TypeOK
    <3> QED
      BY <3>1, <3>2
  <2>5. CASE LoopStops
    BY <2>5, StopTypes DEF LoopStops, TypeOK
  <2>6. ASSUME NEW k \in Ids, NEW t \in Tasks, Loss(k, t) PROVE TypeOK'
    BY <2>6, NewStates, SessionAssumption DEF Loss, Goes, TypeOK
  <2>7. ASSUME NEW k \in Ids, HandlersEnd(k) PROVE TypeOK'
    BY <2>7 DEF HandlersEnd, TypeOK
  <2> QED
    BY <2>1, <2>2, <2>3, <2>4, <2>5, <2>6, <2>7 DEF Next
<1> QED
  BY <1>1, <1>2, PTL DEF SafeSpec
----------------------------------------------------------------------------
(* The user's own proxy setting.                                             *)

\* What Enable and Restore keep of the registry and of the values to restore.
OriginalInv == registry \in Settings /\ OriginalKept

\* A step either sets the system proxy, restores it, or does not touch it.
LEMMA WindowsSteps == [Next]_vars => Enable \/ Restore
<1> SUFFICES ASSUME Next PROVE Enable \/ Restore
  BY DEF Enable, Restore
<1>1. ASSUME NEW t \in Tasks, Step(t) PROVE Enable \/ Restore
  <2>1. CASE \/ ConnectStarts(t) \/ ConnectDialled(t) \/ ConnectFails(t) \/ BindFails(t)
            \/ Stopped(t) \/ Dropped(t) \/ AutoStarts(t) \/ AutoRedialled(t)
    BY <2>1 DEF ConnectStarts, ConnectDialled, ConnectFails, BindFails, Stopped, Dropped,
                AutoStarts, AutoRedialled, Enable
  <2>2. CASE Bound(t) \/ DisconnectStarts(t)
    BY <2>2 DEF Bound, DisconnectStarts
  <2>3. CASE AutoWakes(t) \/ AutoFails(t)
    BY <2>3 DEF AutoWakes, AutoFails, NextAttempt, Enable
  <2> QED
    BY <1>1, <2>1, <2>2, <2>3 DEF Step
<1>2. ASSUME NEW t \in Tasks, Toggle(t) \/ Quit(t)
      PROVE  Enable \/ Restore
  BY <1>2 DEF Toggle, Quit, Stop, Enable
<1>3. ASSUME NEW k \in Ids, NEW t \in Tasks, Loss(k, t) PROVE Enable \/ Restore
  BY <1>3 DEF Loss, Enable
<1>4. CASE Deliver \/ LoopStops
  BY <1>4 DEF Deliver, LoopStops, Enable
<1>5. ASSUME NEW k \in Ids, HandlersEnd(k) PROVE Enable \/ Restore
  BY <1>5 DEF HandlersEnd, Enable
<1> QED
  BY <1>1, <1>2, <1>3, <1>4, <1>5 DEF Next

\* Whatever connects, disconnects, failures and refused registry calls came before, what the
\* program would write back is the user's own setting, and it is known while the setting is
\* the program's.
THEOREM OriginalIsKept == SafeSpec => []OriginalKept
<1>1. Init => OriginalInv
  BY DEF Init, OriginalInv, OriginalKept, Settings
<1>2. OriginalInv /\ [Next]_vars => OriginalInv'
  <2> SUFFICES ASSUME OriginalInv, Enable \/ Restore PROVE OriginalInv'
    BY WindowsSteps
  <2> QED
    BY DEF OriginalInv, OriginalKept, Enable, Restore, Half, Settings
<1>3. OriginalInv => OriginalKept
  BY DEF OriginalInv
<1> QED
  BY <1>1, <1>2, <1>3, PTL DEF SafeSpec
----------------------------------------------------------------------------
(* The guard of the reconnect loop.                                          *)

InLoop(s) == s # Idle /\ s.kind = "auto" /\ s.at # "start"
Loops == {t \in Tasks : InLoop(task[t])}

\* No loop and no guard, or one loop that holds it.
GuardInv ==
    \/ reconnecting = FALSE /\ Loops = {}
    \/ reconnecting = TRUE /\ \E t \in Tasks : Loops = {t}

\* What a coroutine may do to the guard when it moves on to s.
GuardMove(t, s) ==
    \/ (InLoop(s) <=> InLoop(task[t])) /\ reconnecting' = reconnecting
    \/ InLoop(task[t]) /\ ~InLoop(s) /\ reconnecting' = FALSE
    \/ ~InLoop(task[t]) /\ InLoop(s) /\ reconnecting = FALSE /\ reconnecting' = TRUE

\* Such a move keeps the guard with the one loop there is.
LEMMA GuardMoves ==
    ASSUME TypeOK, GuardInv, NEW t \in Tasks, NEW s, Goes(t, s), GuardMove(t, s)
    PROVE  GuardInv'
<1> task \in [Tasks -> TaskStates]
  BY DEF TypeOK
<1>1. Loops' = {u \in Tasks : IF u = t THEN InLoop(s) ELSE InLoop(task[u])}
  BY DEF Loops, Goes, InLoop
<1>2. CASE (InLoop(s) <=> InLoop(task[t])) /\ reconnecting' = reconnecting
  <2>1. Loops' = Loops
    BY <1>1, <1>2 DEF Loops
  <2> QED
    BY <2>1, <1>2 DEF GuardInv
<1>3. CASE InLoop(task[t]) /\ ~InLoop(s) /\ reconnecting' = FALSE
  <2>1. t \in Loops
    BY <1>3 DEF Loops
  <2>2. Loops = {t}
    BY <2>1 DEF GuardInv
  <2>3. Loops' = {}
    BY <1>1, <1>3, <2>2 DEF Loops
  <2> QED
    BY <2>3, <1>3 DEF GuardInv
<1>4. CASE ~InLoop(task[t]) /\ InLoop(s) /\ reconnecting = FALSE /\ reconnecting' = TRUE
  <2>1. Loops = {}
    BY <1>4 DEF GuardInv
  <2>2. Loops' = {t}
    BY <1>1, <1>4, <2>1 DEF Loops
  <2> QED
    BY <2>2, <1>4 DEF GuardInv
<1> QED
  BY <1>2, <1>3, <1>4 DEF GuardMove

\* The end of a teardown lets go of the guard when it is the loop's.
LEMMA FinishGuard ==
    ASSUME TypeOK, GuardInv, NEW t \in Tasks, NEW kind \in Kinds,
           InLoop(task[t]) <=> kind = "auto", Finish(t, kind)
    PROVE  GuardInv'
<1>1. Goes(t, Idle) /\ reconnecting' = (reconnecting /\ kind # "auto")
  BY DEF Finish
<1>2. GuardMove(t, Idle)
  BY <1>1 DEF GuardMove, InLoop, TypeOK
<1> QED
  BY <1>1, <1>2, GuardMoves

\* A coroutine within its teardown is as much the loop as before.
LEMMA ClosingGuard ==
    ASSUME TypeOK, GuardInv, NEW t \in Tasks, NEW kind \in Kinds, NEW s,
           s = [kind |-> kind, at |-> "dropping"]
              \/ s = [kind |-> kind, at |-> "closing", obj |-> proxy],
           InLoop(task[t]) <=> kind = "auto", Goes(t, s), UNCHANGED reconnecting
    PROVE  GuardInv'
<1>1. InLoop(s) <=> kind = "auto"
  BY DEF InLoop, Idle
<1>2. GuardMove(t, s)
  BY <1>1 DEF GuardMove
<1> QED
  BY <1>2, GuardMoves

\* The reconnect guard over the end of a teardown,
LEMMA DropPoolGuard ==
    ASSUME TypeOK, GuardInv, NEW t \in Tasks, NEW kind \in Kinds,
           InLoop(task[t]) <=> kind = "auto", DropPool(t, kind)
    PROVE  GuardInv'
<1>1. CASE pool = 0
  BY <1>1, FinishGuard DEF DropPool
<1>2. CASE pool # 0
  BY <1>2, ClosingGuard DEF DropPool
<1> QED
  BY <1>1, <1>2

\* and over its beginning.
LEMMA TeardownGuard ==
    ASSUME TypeOK, GuardInv, NEW t \in Tasks, NEW kind \in Kinds,
           InLoop(task[t]) <=> kind = "auto", Teardown(t, kind)
    PROVE  GuardInv'
<1>1. CASE proxy \in started
  BY <1>1, ClosingGuard DEF Teardown
<1>2. CASE proxy \notin started
  BY <1>2, DropPoolGuard DEF Teardown
<1> QED
  BY <1>1, <1>2

\* The next attempt of the loop is the loop still; its end lets go of the guard.
LEMMA NextAttemptGuard ==
    ASSUME TypeOK, GuardInv, NEW t \in Tasks, NEW n, InLoop(task[t]), NextAttempt(t, n)
    PROVE  GuardInv'
<1>1. CASE n = MaxAttempts /\ running' = FALSE /\ Restore /\ Teardown(t, "auto")
  BY <1>1, TeardownGuard DEF Kinds
<1>2. CASE AutoSleeps(t, n + 1) /\ UNCHANGED flags
  <2>1. InLoop([kind |-> "auto", at |-> "sleeping", n |-> n + 1])
    BY DEF InLoop, Idle
  <2>2. Goes(t, [kind |-> "auto", at |-> "sleeping", n |-> n + 1])
    BY <1>2 DEF AutoSleeps
  <2>3. GuardMove(t, [kind |-> "auto", at |-> "sleeping", n |-> n + 1])
    BY <2>1, <1>2 DEF GuardMove
  <2> QED
    BY <2>2, <2>3, GuardMoves
<1>3. CASE AutoReturns(t)
  <2>1. GuardMove(t, Idle) /\ Goes(t, Idle)
    BY <1>3 DEF GuardMove, InLoop, AutoReturns
  <2> QED
    BY <2>1, GuardMoves
<1> QED
  BY <1>1, <1>2, <1>3 DEF NextAttempt

\* The guard is held exactly while there is a reconnect loop, and there is one at most.
THEOREM GuardHolds == SafeSpec => []ReconnectGuard
<1>1. Init => GuardInv
  BY DEF Init, GuardInv, Loops, InLoop
<1>2. TypeOK /\ GuardInv /\ [Next]_vars => GuardInv'
  <2> SUFFICES ASSUME TypeOK, GuardInv, Next PROVE GuardInv'
    BY DEF GuardInv, Loops, InLoop
  <2>1. ASSUME NEW t \in Tasks, Step(t) PROVE GuardInv'
    <3>1. CASE ConnectStarts(t)
      <4>1. GuardMove(t, [task[t] EXCEPT !.at = "dialling"])
        BY <3>1 DEF ConnectStarts, At, GuardMove, InLoop
      <4> QED
        BY <3>1, <4>1, GuardMoves DEF ConnectStarts
    <3>2. CASE ConnectDialled(t)
      <4>1. GuardMove(t, [task[t] EXCEPT !.at = "binding"])
        BY <3>2 DEF ConnectDialled, At, GuardMove, InLoop
      <4> QED
        BY <3>2, <4>1, GuardMoves DEF ConnectDialled
    <3>3. CASE ConnectFails(t) \/ BindFails(t)
      <4>1. ~InLoop(task[t]) /\ Teardown(t, "connect")
        BY <3>3 DEF ConnectFails, BindFails, At, InLoop
      <4> QED
        BY <4>1, TeardownGuard DEF Kinds
    <3>4. CASE Bound(t)
      <4>1. GuardMove(t, Idle) /\ Goes(t, Idle)
        BY <3>4 DEF Bound, At, GuardMove, InLoop
      <4> QED
        BY <4>1, GuardMoves
    <3>5. CASE DisconnectStarts(t)
      <4>1. ~InLoop(task[t]) /\ Teardown(t, "disconnect")
        BY <3>5 DEF DisconnectStarts, At, InLoop
      <4> QED
        BY <4>1, TeardownGuard DEF Kinds
    <3>6. CASE Stopped(t)
      <4>1. PICK kind \in Kinds : At(t, kind, "closing") /\ DropPool(t, kind)
        BY <3>6 DEF Stopped, Kinds
      <4>2. InLoop(task[t]) <=> kind = "auto"
        BY <4>1 DEF At, InLoop, Idle
      <4> QED
        BY <4>1, <4>2, DropPoolGuard
    <3>7. CASE Dropped(t)
      <4>1. PICK kind \in Kinds : At(t, kind, "dropping") /\ Finish(t, kind)
        BY <3>7 DEF Dropped, Kinds
      <4>2. InLoop(task[t]) <=> kind = "auto"
        BY <4>1 DEF At, InLoop, Idle
      <4> QED
        BY <4>1, <4>2, FinishGuard
    <3>8. CASE AutoStarts(t)
      <4>1. ~InLoop(task[t])
        BY <3>8 DEF AutoStarts, At, InLoop
      <4>2. CASE running /\ ~reconnecting
        <5>1. InLoop([kind |-> "auto", at |-> "sleeping", n |-> 1])
          BY DEF InLoop, Idle
        <5>2. /\ Goes(t, [kind |-> "auto", at |-> "sleeping", n |-> 1])
              /\ GuardMove(t, [kind |-> "auto", at |-> "sleeping", n |-> 1])
          BY <3>8, <4>1, <4>2, <5>1 DEF AutoStarts, AutoSleeps, GuardMove, TypeOK
        <5> QED
          BY <5>2, GuardMoves
      <4>3. CASE ~(running /\ ~reconnecting)
        <5>1. GuardMove(t, Idle) /\ Goes(t, Idle)
          BY <3>8, <4>1, <4>3 DEF AutoStarts, GuardMove, InLoop
        <5> QED
          BY <5>1, GuardMoves
      <4> QED
        BY <4>2, <4>3
    <3>9. CASE AutoWakes(t)
      <4>1. InLoop(task[t])
        BY <3>9 DEF AutoWakes, At, InLoop, Idle
      <4>2. CASE AutoReturns(t)
        <5>1. GuardMove(t, Idle) /\ Goes(t, Idle)
          BY <4>1, <4>2 DEF GuardMove, InLoop, AutoReturns
        <5> QED
          BY <5>1, GuardMoves
      <4>3. CASE NextAttempt(t, task[t].n)
        BY <4>1, <4>3, NextAttemptGuard
      <4>4. CASE /\ Goes(t, [kind |-> "auto", at |-> "redialling", n |-> task[t].n, obj |-> pool])
                 /\ UNCHANGED flags
        <5>1. InLoop([kind |-> "auto", at |-> "redialling", n |-> task[t].n, obj |-> pool])
          BY DEF InLoop, Idle
        <5>2. GuardMove(t, [kind |-> "auto", at |-> "redialling", n |-> task[t].n, obj |-> pool])
          BY <4>1, <4>4, <5>1 DEF GuardMove
        <5> QED
          BY <4>4, <5>2, GuardMoves
      <4> QED
        BY <3>9, <4>2, <4>3, <4>4 DEF AutoWakes
    <3>10. CASE AutoRedialled(t)
      <4>1. GuardMove(t, Idle) /\ Goes(t, Idle)
        BY <3>10 DEF AutoRedialled, At, GuardMove, InLoop, Idle
      <4> QED
        BY <4>1, GuardMoves
    <3>11. CASE AutoFails(t)
      <4>1. InLoop(task[t])
        BY <3>11 DEF AutoFails, At, InLoop, Idle
      <4> QED
        BY <3>11, <4>1, NextAttemptGuard DEF AutoFails
    <3> QED
      BY <2>1, <3>1, <3>2, <3>3, <3>4, <3>5, <3>6, <3>7, <3>8, <3>9, <3>10, <3>11 DEF Step
  <2>2. CASE Deliver
    BY <2>2 DEF Deliver, GuardInv, Loops, InLoop
  <2>3. ASSUME NEW t \in Tasks, Toggle(t) \/ (Quit(t) /\ Live) PROVE GuardInv'
    <3>1. ~InLoop(task[t]) /\ UNCHANGED reconnecting
      BY <2>3 DEF Toggle, Quit, Free, InLoop
    <3>2. PICK s : Goes(t, s) /\ s \in [kind : {"disconnect", "connect"}, at : {"start"}]
                                  \cup [kind : {"connect"}, at : {"start"}, obj : {made + 1}]
      BY <2>3 DEF Toggle, Quit
    <3>3. ~InLoop(s)
      BY <3>2 DEF InLoop
    <3> QED
      BY <3>1, <3>2, <3>3, GuardMoves DEF GuardMove
  <2>4. ASSUME Stop PROVE GuardInv'
    BY <2>4 DEF Stop, GuardInv, Loops, InLoop
  <2>5. ASSUME NEW k \in Ids, NEW t \in Tasks, Loss(k, t) PROVE GuardInv'
    <3>1. /\ ~InLoop(task[t]) /\ UNCHANGED reconnecting
          /\ Goes(t, [kind |-> "auto", at |-> "start"])
      BY <2>5 DEF Loss, Free, InLoop
    <3>2. ~InLoop([kind |-> "auto", at |-> "start"])
      BY DEF InLoop
    <3> QED
      BY <3>1, <3>2, GuardMoves DEF GuardMove
  <2>6. ASSUME NEW k \in Ids, HandlersEnd(k) PROVE GuardInv'
    BY <2>6 DEF HandlersEnd, GuardInv, Loops, InLoop
  <2> QED
    BY <2>1, <2>2, <2>3, <2>4, <2>5, <2>6 DEF Next, LoopStops, Quit
<1>3. GuardInv => ReconnectGuard
  <2>1. ReconnectGuard <=> Cardinality(Loops) = IF reconnecting THEN 1 ELSE 0
    BY DEF ReconnectGuard, Loops, InLoop
  <2> QED
    BY <2>1, FS_EmptySet, FS_Singleton DEF GuardInv
<1> QED
  BY <1>1, <1>2, <1>3, TypeCorrect, PTL DEF SafeSpec
=============================================================================
