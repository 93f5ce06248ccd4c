-------------------------- MODULE TunnelPoolProofs --------------------------
(* Theorems about TunnelPool, for any size of the pool and any number of     *)
(* connect() calls.  The tunnels are numbered as they are made, so those of  *)
(* earlier batches come before the current batch, and those not yet made     *)
(* after it.                                                                 *)
EXTENDS TunnelPool, TLAPS

USE DEF vars

Old(t)    == t <= (batches - 1) * PoolSize
Unmade(t) == t > batches * PoolSize \/ (connecting = "teardown" /\ ~Old(t))

\* How the flags, the list of tunnels and the tasks go together.
GlobalInv ==
    /\ tunnels # <<>> => tunnels = Batch(batches) /\ batches \in 1..MaxBatches
    /\ running <=> batches > 0 /\ disconnecting = "never"
    /\ connecting # "idle" => batches > 0
    /\ running /\ connecting # "teardown" => tunnels # <<>>
    /\ running => closing \cap Members = {}
    /\ \A i \in Index : reconnect[i] \in {"sleep", "dial"} => running /\ tunnels # <<>>
    /\ disconnecting = "never" /\ tunnels = <<>> => \A i \in Index : reconnect[i] = "none"

\* What is left of the tunnels of earlier batches, and nothing is there of those to come.
TunnelInv(t) ==
    /\ Old(t) => \/ link[t] \in {"new", "down"}
                 \/ connecting = "teardown" /\ t \in closing /\ link[t] \in {"up", "dropping"}
    /\ Unmade(t) => link[t] = "new" /\ results[t] = "none" /\ t \notin closing

\* A tunnel of the running pool and its reconnect task.
SlotInv(i) == LET c == tunnels[i] IN
    /\ reconnect[i] = "dial" => link[c] = "opening"
    /\ reconnect[i] \in {"check", "sleep"} => link[c] = "down"
    /\ reconnect[i] = "none" =>
          \/ link[c] \in {"up", "dropping"}
          \/ /\ connecting = "dial"
             /\ \/ link[c] = "opening" /\ results[c] = "none"
                \/ link[c] = "down" /\ results[c] = "failed"
    /\ results[c] = "none" =>
          reconnect[i] = "none" /\ link[c] = "opening" /\ connecting = "dial"
    /\ connecting = "dial" /\ results[c] = "failed" =>
          reconnect[i] = "none" /\ link[c] = "down"

SlotsInv == running /\ tunnels # <<>> => \A i \in Index : SlotInv(i)

\* A disconnect() that does not overtake a connect().
StopInv == disconnecting # "never" /\ ~raced =>
    /\ connecting = "idle"
    /\ \A i \in Index : reconnect[i] = "none"
    /\ \A t \in Tunnels :
          \/ link[t] \in {"new", "down"}
          \/ disconnecting = "teardown" /\ t \in closing \cap Members /\ link[t] \in {"up", "dropping"}

IInv ==
    /\ TypeOK
    /\ GlobalInv
    /\ \A t \in Tunnels : TunnelInv(t)
    /\ SlotsInv
    /\ StopInv

\* The numbers of a batch.
LEMMA BatchFacts ==
    ASSUME NEW b \in 1..MaxBatches
    PROVE  /\ Batch(b) \in [Index -> Tunnels] /\ Batch(b) # <<>> /\ 1 \in Index
           /\ \A i \in Index : (b - 1) * PoolSize < Batch(b)[i] /\ Batch(b)[i] <= b * PoolSize
           /\ \A i, j \in Index : Batch(b)[i] = Batch(b)[j] => i = j
           /\ \A t \in Tunnels : (b - 1) * PoolSize < t /\ t <= b * PoolSize =>
                 \E i \in Index : Batch(b)[i] = t
<1> PoolSize \in Nat /\ MaxBatches \in Nat /\ PoolSize > 0 /\ b \in Nat /\ b >= 1 /\ b <= MaxBatches
  BY PoolAssumption
<1>1. b * PoolSize = (b - 1) * PoolSize + PoolSize /\ (b - 1) * PoolSize \in Nat
  OBVIOUS
<1>2. b * PoolSize <= PoolSize * MaxBatches
  OBVIOUS
<1>3. \A i \in Index : Batch(b)[i] = (b - 1) * PoolSize + i
  BY DEF Batch
<1>4. 1 \in Index
  BY DEF Index
<1>5. Batch(b) \in [Index -> Tunnels]
  BY <1>1, <1>2, <1>3 DEF Batch, Index, Tunnels
<1>6. Batch(b) # <<>>
  <2>1. DOMAIN Batch(b) = Index
    BY DEF Batch
  <2> QED
    BY <2>1, <1>4
<1>7. \A i \in Index : (b - 1) * PoolSize < Batch(b)[i] /\ Batch(b)[i] <= b * PoolSize
  BY <1>1, <1>3 DEF Index
<1>8. \A i, j \in Index : Batch(b)[i] = Batch(b)[j] => i = j
  BY <1>1, <1>3 DEF Index
<1>9. ASSUME NEW t \in Tunnels, (b - 1) * PoolSize < t, t <= b * PoolSize
      PROVE  \E i \in Index : Batch(b)[i] = t
  <2>1. t - (b - 1) * PoolSize \in Index
    BY <1>1, <1>9 DEF Index, Tunnels
  <2> QED
    BY <1>1, <1>3, <2>1 DEF Tunnels
<1> QED
  BY <1>4, <1>5, <1>6, <1>7, <1>8, <1>9

\* The list of tunnels is empty or has one for each index, each a tunnel of its own.
LEMMA ListFacts ==
    ASSUME TypeOK, GlobalInv, tunnels # <<>>
    PROVE  /\ tunnels = Batch(batches) /\ tunnels \in [Index -> Tunnels]
           /\ DOMAIN tunnels = Index
           /\ \A i, j \in Index : tunnels[i] = tunnels[j] => i = j
           /\ \A i \in Index : ~Old(tunnels[i]) /\ tunnels[i] <= batches * PoolSize
           /\ Members = {tunnels[i] : i \in Index}
<1>1. tunnels = Batch(batches) /\ batches \in 1..MaxBatches
  BY DEF GlobalInv
<1>2. /\ Batch(batches) \in [Index -> Tunnels]
      /\ \A i \in Index : /\ (batches - 1) * PoolSize < Batch(batches)[i]
                          /\ Batch(batches)[i] <= batches * PoolSize
      /\ \A i, j \in Index : Batch(batches)[i] = Batch(batches)[j] => i = j
  BY <1>1, BatchFacts
<1>3. (batches - 1) * PoolSize \in Int /\ batches * PoolSize \in Int
  BY <1>1, PoolAssumption
<1>4. \A i \in Index : Batch(batches)[i] \in Int
  BY <1>2 DEF Tunnels
<1>5. \A i \in Index : ~Old(tunnels[i])
  BY <1>1, <1>2, <1>3, <1>4 DEF Old
<1> QED
  BY <1>1, <1>2, <1>5 DEF Members

\* Initially there are no tunnels.
LEMMA InitHolds == Init => IInv
<1> SUFFICES ASSUME Init PROVE IInv
  OBVIOUS
<1>1. TypeOK
  <2>1. batches \in 0..MaxBatches /\ closing \in SUBSET Tunnels
    BY PoolAssumption DEF Init
  <2>2. tunnels \in {<<>>} \cup {Batch(b) : b \in 1..MaxBatches}
    BY DEF Init
  <2> QED
    BY <2>1, <2>2 DEF Init, TypeOK
<1>2. GlobalInv
  BY DEF Init, GlobalInv, Members
<1>3. ASSUME NEW t \in Tunnels PROVE TunnelInv(t)
  BY DEF Init, TunnelInv
<1> QED
  BY <1>1, <1>2, <1>3 DEF Init, IInv, SlotsInv, StopInv

\* connect() with nothing to tear down, which is the first one.
LEMMA FirstConnect ==
    ASSUME IInv, connecting = "idle", disconnecting = "never", batches < MaxBatches,
           running' = TRUE, notified' = FALSE, batches' = batches + 1,
           tunnels = <<>>, NewBatch(batches'),
           UNCHANGED <<reconnect, closing, results, disconnecting, raced>>
    PROVE  IInv'
<1> USE DEF IInv
<1>0. batches \in 0..MaxBatches
  BY DEF TypeOK
<1>1. batches = 0 /\ batches' = 1 /\ 1 \in 1..MaxBatches /\ 0 * PoolSize = 0 /\ 1 * PoolSize = PoolSize
  <2>1. ~running
    BY DEF GlobalInv
  <2> QED
    BY <1>0, <2>1, PoolAssumption DEF GlobalInv
<1>2. /\ Batch(1) \in [Index -> Tunnels] /\ Batch(1) # <<>>
      /\ \A i \in Index : 0 < Batch(1)[i] /\ Batch(1)[i] <= PoolSize
  BY <1>1, BatchFacts
<1>3. \A t \in Tunnels : link[t] = "new" /\ results[t] = "none" /\ t \notin closing /\ t > 0
  BY <1>1 DEF TunnelInv, Unmade, Tunnels
<1>4. /\ tunnels' = Batch(1) /\ connecting' = "dial"
      /\ link' \in [Tunnels -> {"new", "opening"}]
      /\ \A i \in Index : link'[Batch(1)[i]] = "opening"
  BY <1>1, <1>2, <1>3 DEF NewBatch
<1>5. TypeOK'
  <2>1. tunnels' \in {<<>>} \cup {Batch(b) : b \in 1..MaxBatches}
    BY <1>1, <1>4
  <2>2. link' \in [Tunnels -> {"new", "opening", "up", "dropping", "down"}]
    BY <1>4
  <2>3. batches' \in 0..MaxBatches
    BY <1>1
  <2> QED
    BY <1>4, <2>1, <2>2, <2>3 DEF TypeOK
<1>6. GlobalInv'
  BY <1>1, <1>2, <1>3, <1>4 DEF GlobalInv, TypeOK, Members
<1>7. ASSUME NEW t \in Tunnels PROVE TunnelInv(t)'
  <2>1. ~Old(t)'
    BY <1>1 DEF Old, Tunnels
  <2>2. Unmade(t)' => \A i \in Index : Batch(1)[i] # t
    BY <1>1, <1>2, <1>4, PoolAssumption DEF Unmade, Tunnels
  <2>3. Unmade(t)' => link'[t] = "new"
    BY <1>1, <1>3, <2>2 DEF NewBatch
  <2> QED
    BY <1>3, <2>1, <2>3 DEF TunnelInv
<1>8. SlotsInv'
  BY <1>2, <1>3, <1>4 DEF SlotsInv, SlotInv, GlobalInv, TypeOK
<1> QED
  BY <1>5, <1>6, <1>7, <1>8 DEF StopInv

\* connect() again: the batch there is gets abandoned, all of it to be torn down.
LEMMA ConnectAgain ==
    ASSUME IInv, connecting = "idle", disconnecting = "never", batches < MaxBatches,
           running' = TRUE, notified' = FALSE, batches' = batches + 1,
           tunnels # <<>>, CancelReconnects, closing' = Members, tunnels' = <<>>,
           connecting' = "teardown", UNCHANGED <<results, disconnecting, raced>>
    PROVE  IInv'
<1> USE DEF IInv
<1>0. /\ batches \in 1..MaxBatches /\ running
      /\ (batches' - 1) * PoolSize = batches * PoolSize
      /\ batches * PoolSize = (batches - 1) * PoolSize + PoolSize
      /\ batches' * PoolSize = batches * PoolSize + PoolSize
      /\ batches * PoolSize \in Nat /\ PoolSize \in Nat
  <2>1. batches \in 1..MaxBatches /\ running
    BY DEF GlobalInv, TypeOK
  <2>2. batches \in Nat /\ PoolSize \in Nat /\ batches' = batches + 1
    BY <2>1, PoolAssumption
  <2>3. (batches' - 1) * PoolSize = batches * PoolSize
    BY <2>2
  <2> QED
    BY <2>1, <2>2, <2>3
<1>1. /\ tunnels = Batch(batches) /\ tunnels \in [Index -> Tunnels] /\ DOMAIN tunnels = Index
      /\ \A i, j \in Index : tunnels[i] = tunnels[j] => i = j
      /\ \A i \in Index : ~Old(tunnels[i]) /\ tunnels[i] <= batches * PoolSize
      /\ Members = {tunnels[i] : i \in Index}
  BY ListFacts
<1>2. \A i \in Index : reconnect'[i] = "none"
  BY DEF CancelReconnects
<1>3. \A i \in Index : link'[tunnels[i]] \in {"up", "dropping", "down"}
  BY <1>0, <1>1 DEF CancelReconnects, SlotsInv, SlotInv, TypeOK
<1>4. \A t \in Tunnels : t \notin Members => link'[t] = link[t]
  BY <1>1 DEF CancelReconnects
<1>5. TypeOK'
  <2>1. link' \in [Tunnels -> {"new", "opening", "up", "dropping", "down"}]
    BY DEF CancelReconnects, TypeOK
  <2>2. reconnect' \in [Index -> {"none", "check", "sleep", "dial"}]
    BY DEF CancelReconnects
  <2>3. closing' \in SUBSET Tunnels
    BY <1>1
  <2>4. batches' \in 0..MaxBatches
    BY <1>0, PoolAssumption
  <2> QED
    BY <2>1, <2>2, <2>3, <2>4 DEF TypeOK
<1>6. GlobalInv'
  BY <1>0, <1>2 DEF GlobalInv, Members
<1>7. ASSUME NEW t \in Tunnels PROVE TunnelInv(t)'
  <2>1. CASE t \in Members
    <3>1. Old(t)' /\ t \in closing' /\ ~Unmade(t)'
      BY <2>1, <1>0, <1>1 DEF Old, Unmade, Tunnels
    <3> QED
      BY <2>1, <3>1, <1>1, <1>3 DEF TunnelInv
  <2>2. CASE t \notin Members
    <3>1. Old(t) \/ Unmade(t)
      <4>1. ~((batches - 1) * PoolSize < t /\ t <= batches * PoolSize)
        BY <2>2, <1>0, <1>1, BatchFacts
      <4> QED
        BY <4>1, <1>0 DEF Old, Unmade, Tunnels
    <3>2. Old(t) => Old(t)' /\ ~Unmade(t)'
      BY <1>0 DEF Old, Unmade, Tunnels
    <3>3. ~Old(t) => ~Old(t)'
      BY <3>1, <1>0 DEF Old, Unmade, Tunnels
    <3> QED
      BY <2>2, <3>1, <3>2, <3>3, <1>4 DEF TunnelInv
  <2> QED
    BY <2>1, <2>2
<1> QED
  BY <1>5, <1>6, <1>7 DEF SlotsInv, StopInv

\* The new batch, once the old one is torn down.
LEMMA BuildStep ==
    ASSUME IInv, Build
    PROVE  IInv'
<1> USE DEF IInv, Build
<1>0. /\ batches \in 1..MaxBatches
      /\ batches * PoolSize = (batches - 1) * PoolSize + PoolSize
      /\ batches * PoolSize \in Nat /\ PoolSize \in Nat
      /\ tunnels = <<>>
  BY PoolAssumption DEF GlobalInv, TypeOK
<1>1. /\ Batch(batches) \in [Index -> Tunnels] /\ Batch(batches) # <<>>
      /\ \A i \in Index : /\ (batches - 1) * PoolSize < Batch(batches)[i]
                          /\ Batch(batches)[i] <= batches * PoolSize
  BY <1>0, BatchFacts
<1>2. \A i \in Index : ~Old(Batch(batches)[i])
  BY <1>0, <1>1 DEF Old, Tunnels
<1>3. \A i \in Index : results[Batch(batches)[i]] = "none"
  BY <1>1, <1>2 DEF TunnelInv, Unmade
<1>4. /\ tunnels' = Batch(batches) /\ connecting' = "dial"
      /\ link' \in [Tunnels -> {"new", "opening", "up", "dropping", "down"}]
      /\ \A i \in Index : link'[Batch(batches)[i]] = "opening"
  BY <1>1 DEF NewBatch, TypeOK
<1>5. TypeOK'
  BY <1>0, <1>1, <1>4 DEF TypeOK
<1>6. GlobalInv'
  BY <1>0, <1>1, <1>4 DEF GlobalInv, Members
<1>7. ASSUME NEW t \in Tunnels PROVE TunnelInv(t)'
  <2>1. (Old(t)' <=> Old(t)) /\ (Unmade(t)' => Unmade(t))
    BY <1>0, <1>4 DEF Old, Unmade, Tunnels
  <2>2. Old(t) \/ Unmade(t)' => link'[t] = link[t]
    BY <1>0, <1>1, <1>2, <1>4 DEF NewBatch, Unmade, Tunnels
  <2> QED
    BY <2>1, <2>2 DEF TunnelInv
<1>8. SlotsInv'
  BY <1>0, <1>1, <1>3, <1>4 DEF SlotsInv, SlotInv, GlobalInv
<1> QED
  BY <1>5, <1>6, <1>7, <1>8 DEF StopInv

\* A tunnel of the list is of the current batch, which has been made.
LEMMA MemberFacts ==
    ASSUME IInv, tunnels # <<>>, NEW i \in Index
    PROVE  /\ tunnels[i] \in Tunnels /\ ~Old(tunnels[i]) /\ ~Unmade(tunnels[i])
           /\ tunnels[i] \in Members
<1>1. /\ tunnels[i] \in Tunnels /\ ~Old(tunnels[i]) /\ tunnels[i] <= batches * PoolSize
      /\ tunnels[i] \in Members
  BY ListFacts DEF IInv
<1>2. batches * PoolSize \in Int /\ connecting # "teardown"
  BY PoolAssumption DEF IInv, TypeOK
<1> QED
  BY <1>1, <1>2 DEF Unmade, Tunnels

\* An attempt of connect() ends.
LEMMA DialledStep ==
    ASSUME IInv, NEW t \in Tunnels, NEW ok \in BOOLEAN, Dialled(t, ok)
    PROVE  IInv'
<1> USE DEF IInv, Dialled
<1>1. TypeOK'
  BY DEF TypeOK
<1>2. GlobalInv'
  BY DEF GlobalInv, Members
<1>3. ~Old(t) /\ ~Unmade(t)
  BY DEF TunnelInv
<1>4. ASSUME NEW u \in Tunnels PROVE TunnelInv(u)'
  <2>1. Old(u)' = Old(u) /\ Unmade(u)' = Unmade(u)
    BY DEF Old, Unmade
  <2> QED
    BY <1>3, <2>1 DEF TunnelInv, TypeOK
<1>5. SlotsInv'
  <2> SUFFICES ASSUME running, tunnels # <<>>, NEW i \in Index PROVE SlotInv(i)'
    BY DEF SlotsInv
  <2> tunnels[i] \in Tunnels /\ SlotInv(i)
    BY MemberFacts DEF SlotsInv
  <2> QED
    BY DEF SlotInv, TypeOK
<1>6. StopInv'
  BY DEF StopInv, TypeOK
<1> QED
  BY <1>1, <1>2, <1>4, <1>5, <1>6

\* connect() returns.
LEMMA ConnectedStep ==
    ASSUME IInv, Connected
    PROVE  IInv'
<1> USE DEF IInv, Connected
<1>1. TypeOK'
  BY DEF TypeOK
<1>2. GlobalInv'
  BY DEF GlobalInv, Members
<1>3. ASSUME NEW u \in Tunnels PROVE TunnelInv(u)'
  <2>1. Old(u)' = Old(u) /\ Unmade(u)' = Unmade(u)
    BY DEF Old, Unmade
  <2> QED
    BY <2>1 DEF TunnelInv
<1>4. SlotsInv'
  <2> SUFFICES ASSUME running, tunnels # <<>>, NEW i \in Index PROVE SlotInv(i)'
    BY DEF SlotsInv
  <2> tunnels[i] \in Tunnels /\ SlotInv(i) /\ tunnels = Batch(batches)
    BY MemberFacts, ListFacts DEF SlotsInv
  <2> QED
    BY DEF SlotInv, TypeOK
<1>5. StopInv'
  BY DEF StopInv
<1> QED
  BY <1>1, <1>2, <1>3, <1>4, <1>5

\* A tunnel starts to go down.
LEMMA LoseStep ==
    ASSUME IInv, NEW t \in Tunnels, Lose(t)
    PROVE  IInv'
<1> USE DEF IInv, Lose
<1>1. TypeOK'
  BY DEF TypeOK
<1>2. GlobalInv'
  BY DEF GlobalInv, Members
<1>3. ASSUME NEW u \in Tunnels PROVE TunnelInv(u)'
  <2>1. Old(u)' = Old(u) /\ Unmade(u)' = Unmade(u)
    BY DEF Old, Unmade
  <2> QED
    BY <2>1 DEF TunnelInv, TypeOK
<1>4. SlotsInv'
  <2> SUFFICES ASSUME running, tunnels # <<>>, NEW i \in Index PROVE SlotInv(i)'
    BY DEF SlotsInv
  <2> tunnels[i] \in Tunnels /\ SlotInv(i)
    BY MemberFacts DEF SlotsInv
  <2> QED
    BY DEF SlotInv, TypeOK
<1>5. StopInv'
  BY DEF StopInv, TypeOK, Members
<1> QED
  BY <1>1, <1>2, <1>3, <1>4, <1>5

\* The callback gives the tunnel its task, in a pool that runs.
LEMMA CallbackFacts ==
    ASSUME IInv, NEW t \in Tunnels, OnTunnelLost(t)
    PROVE  /\ reconnect' \in [Index -> {"none", "check", "sleep", "dial"}] /\ notified' \in BOOLEAN
           /\ \A i \in Index :
                 IF running /\ tunnels # <<>> /\ tunnels[i] = t /\ reconnect[i] = "none"
                 THEN reconnect'[i] = "check" ELSE reconnect'[i] = reconnect[i]
<1>1. reconnect' \in [Index -> {"none", "check", "sleep", "dial"}] /\ notified' \in BOOLEAN
  BY DEF IInv, TypeOK, OnTunnelLost
<1>2. tunnels # <<>> => DOMAIN tunnels = Index
  BY ListFacts DEF IInv
<1>3. tunnels = <<>> => DOMAIN tunnels = {}
  OBVIOUS
<1>4. \A i \in Index : i \in DOMAIN tunnels <=> tunnels # <<>>
  BY <1>2, <1>3
<1> QED
  BY <1>1, <1>4 DEF OnTunnelLost

\* A tunnel is down.
LEMMA LostStep ==
    ASSUME IInv, NEW t \in Tunnels, Lost(t)
    PROVE  IInv'
<1> USE DEF IInv, Lost
<1>0. /\ reconnect' \in [Index -> {"none", "check", "sleep", "dial"}] /\ notified' \in BOOLEAN
      /\ \A i \in Index :
            IF running /\ tunnels # <<>> /\ tunnels[i] = t /\ reconnect[i] = "none"
            THEN reconnect'[i] = "check" ELSE reconnect'[i] = reconnect[i]
  BY CallbackFacts
<1>1. TypeOK'
  BY <1>0 DEF TypeOK
<1>2. GlobalInv'
  BY <1>0 DEF GlobalInv, Members
<1>3. ASSUME NEW u \in Tunnels PROVE TunnelInv(u)'
  <2>1. Old(u)' = Old(u) /\ Unmade(u)' = Unmade(u)
    BY DEF Old, Unmade
  <2> QED
    BY <2>1 DEF TunnelInv, TypeOK
<1>4. SlotsInv'
  <2> SUFFICES ASSUME running, tunnels # <<>>, NEW i \in Index PROVE SlotInv(i)'
    BY DEF SlotsInv
  <2> tunnels[i] \in Tunnels /\ SlotInv(i)
    BY MemberFacts DEF SlotsInv
  <2> QED
    BY <1>0 DEF SlotInv, TypeOK
<1>5. StopInv'
  BY <1>0 DEF StopInv, GlobalInv, TypeOK, Members
<1> QED
  BY <1>1, <1>2, <1>3, <1>4, <1>5

\* The end of a t.disconnect() that connect() or disconnect() awaits: no tunnel of a pool
\* that runs.
LEMMA ClosedStep ==
    ASSUME IInv, NEW t \in Tunnels, Closed(t)
    PROVE  IInv'
<1> USE DEF IInv, Closed
<1>0. /\ reconnect' \in [Index -> {"none", "check", "sleep", "dial"}] /\ notified' \in BOOLEAN
      /\ \A i \in Index :
            IF running /\ tunnels # <<>> /\ tunnels[i] = t /\ reconnect[i] = "none"
            THEN reconnect'[i] = "check" ELSE reconnect'[i] = reconnect[i]
  BY CallbackFacts
<1>m. running /\ tunnels # <<>> => \A i \in Index : tunnels[i] # t
  BY MemberFacts DEF GlobalInv
<1>r. \A i \in Index : reconnect'[i] = reconnect[i]
  BY <1>0, <1>m
<1>1. TypeOK'
  BY <1>0 DEF TypeOK
<1>2. GlobalInv'
  BY <1>r DEF GlobalInv, Members
<1>3. ASSUME NEW u \in Tunnels PROVE TunnelInv(u)'
  <2>1. Old(u)' = Old(u) /\ Unmade(u)' = Unmade(u)
    BY DEF Old, Unmade
  <2> QED
    BY <2>1 DEF TunnelInv, TypeOK
<1>4. SlotsInv'
  <2> SUFFICES ASSUME running, tunnels # <<>>, NEW i \in Index PROVE SlotInv(i)'
    BY DEF SlotsInv
  <2> tunnels[i] \in Tunnels /\ SlotInv(i)
    BY MemberFacts DEF SlotsInv
  <2> QED
    BY <1>m, <1>r DEF SlotInv, TypeOK
<1>5. StopInv'
  BY <1>r DEF StopInv, TypeOK, Members
<1> QED
  BY <1>1, <1>2, <1>3, <1>4, <1>5

\* A reconnect task looks at its tunnel.
LEMMA CheckStep ==
    ASSUME IInv, NEW i \in Index, Check(i)
    PROVE  IInv'
<1> USE DEF IInv, Check
<1>0. i \in DOMAIN tunnels <=> tunnels # <<>>
  <2>1. tunnels # <<>> => DOMAIN tunnels = Index
    BY ListFacts
  <2>2. tunnels = <<>> => DOMAIN tunnels = {}
    OBVIOUS
  <2> QED
    BY <2>1, <2>2
<1>1. TypeOK'
  BY DEF TypeOK
<1>2. GlobalInv'
  BY <1>0 DEF GlobalInv, Members, TypeOK
<1>3. ASSUME NEW u \in Tunnels PROVE TunnelInv(u)'
  <2>1. Old(u)' = Old(u) /\ Unmade(u)' = Unmade(u)
    BY DEF Old, Unmade
  <2> QED
    BY <2>1 DEF TunnelInv
<1>4. SlotsInv'
  <2> SUFFICES ASSUME running, tunnels # <<>>, NEW j \in Index PROVE SlotInv(j)'
    BY DEF SlotsInv
  <2> tunnels[j] \in Tunnels /\ SlotInv(j)
    BY MemberFacts DEF SlotsInv
  <2> QED
    BY <1>0 DEF SlotInv, TypeOK
<1>5. StopInv'
  BY DEF StopInv
<1> QED
  BY <1>1, <1>2, <1>3, <1>4, <1>5

\* A reconnect task dials, or its attempt ends: it touches its own tunnel only.
LEMMA DialStep ==
    ASSUME IInv, NEW i \in Index, Wake(i) \/ Redialled(i, TRUE) \/ Redialled(i, FALSE)
    PROVE  IInv'
<1> USE DEF IInv, Wake, Redialled
<1>0. /\ reconnect[i] \in {"sleep", "dial"} /\ running /\ tunnels # <<>>
      /\ tunnels[i] \in Tunnels /\ ~Old(tunnels[i]) /\ ~Unmade(tunnels[i])
      /\ \A j \in Index : tunnels[i] = tunnels[j] => i = j
  <2>1. reconnect[i] \in {"sleep", "dial"} /\ running /\ tunnels # <<>>
    BY DEF GlobalInv
  <2> QED
    BY <2>1, MemberFacts, ListFacts
<1>1. TypeOK'
  BY <1>0 DEF TypeOK
<1>2. GlobalInv'
  <2>1. UNCHANGED <<tunnels, batches, running, disconnecting, connecting, closing>>
    OBVIOUS
  <2> QED
    BY <1>0, <2>1 DEF GlobalInv, Members
<1>3. ASSUME NEW u \in Tunnels PROVE TunnelInv(u)'
  <2>1. Old(u)' = Old(u) /\ Unmade(u)' = Unmade(u)
    BY DEF Old, Unmade
  <2> QED
    BY <1>0, <2>1 DEF TunnelInv, TypeOK
<1>4. SlotsInv'
  <2> SUFFICES ASSUME NEW j \in Index PROVE SlotInv(j)'
    BY DEF SlotsInv
  <2> tunnels[j] \in Tunnels /\ SlotInv(j)
    BY <1>0, MemberFacts DEF SlotsInv
  <2>1. CASE Wake(i)
    BY <2>1, <1>0 DEF SlotInv, TypeOK
  <2>2. CASE Redialled(i, TRUE)
    BY <2>2, <1>0 DEF SlotInv, TypeOK
  <2>3. CASE Redialled(i, FALSE)
    BY <2>3, <1>0 DEF SlotInv, TypeOK
  <2> QED
    BY <2>1, <2>2, <2>3
<1>5. StopInv'
  BY <1>0 DEF StopInv, GlobalInv
<1> QED
  BY <1>1, <1>2, <1>3, <1>4, <1>5

\* disconnect() begins: no task is left that would dial.
LEMMA DisconnectStep ==
    ASSUME IInv, Disconnect
    PROVE  IInv'
<1> USE DEF IInv, Disconnect
<1>0. /\ \A i \in Index : reconnect'[i] = "none"
      /\ reconnect' \in [Index -> {"none", "check", "sleep", "dial"}]
      /\ link' \in [Tunnels -> {"new", "opening", "up", "dropping", "down"}]
      /\ \A t \in Tunnels : link'[t] \in {link[t], "down"}
      /\ \A t \in Tunnels : t \notin Members => link'[t] = link[t]
  BY DEF CancelReconnects, TypeOK, Members
<1>1. Members \subseteq Tunnels /\ running
  <2>1. tunnels = <<>> => Members = {}
    BY DEF Members
  <2>2. tunnels # <<>> => Members \subseteq Tunnels
    BY ListFacts
  <2> QED
    BY <2>1, <2>2 DEF GlobalInv
<1>2. TypeOK'
  BY <1>0, <1>1 DEF TypeOK
<1>3. GlobalInv'
  BY <1>0 DEF GlobalInv
<1>4. ASSUME NEW u \in Tunnels PROVE TunnelInv(u)'
  <2>1. Old(u)' = Old(u) /\ Unmade(u)' = Unmade(u)
    BY DEF Old, Unmade
  <2>2. u \in Members => ~Unmade(u)
    <3>1. tunnels = <<>> => Members = {}
      BY DEF Members
    <3>2. tunnels # <<>> => Members = {tunnels[i] : i \in Index}
      BY ListFacts
    <3> QED
      BY <3>1, <3>2, MemberFacts
  <2> QED
    BY <1>0, <2>1, <2>2 DEF TunnelInv
<1>5. StopInv'
  <2> SUFFICES ASSUME connecting = "idle", NEW t \in Tunnels
               PROVE  \/ link'[t] \in {"new", "down"}
                      \/ /\ disconnecting' = "teardown" /\ t \in closing' \cap Members'
                         /\ link'[t] \in {"up", "dropping"}
    BY <1>0 DEF StopInv, TypeOK
  <2>1. tunnels # <<>> /\ Members' = Members
    BY <1>1 DEF GlobalInv, Members
  <2>2. CASE t \in Members
    <3>1. PICK i \in Index : tunnels[i] = t
      BY <2>1, <2>2, ListFacts
    <3>2. i \in DOMAIN tunnels /\ SlotInv(i)
      BY <2>1, <1>1, ListFacts DEF SlotsInv
    <3>3. link'[t] \in {"up", "dropping", "down"}
      BY <3>1, <3>2, <1>0 DEF SlotInv, CancelReconnects, TypeOK
    <3> QED
      BY <2>1, <2>2, <3>3
  <2>3. CASE t \notin Members
    <3>1. Old(t) \/ Unmade(t)
      <4>1. /\ batches \in 1..MaxBatches /\ tunnels = Batch(batches)
            /\ Members = {tunnels[i] : i \in Index}
        BY <2>1, ListFacts DEF GlobalInv
      <4>2. ~((batches - 1) * PoolSize < t /\ t <= batches * PoolSize)
        BY <2>3, <4>1, BatchFacts
      <4>3. (batches - 1) * PoolSize \in Int /\ batches * PoolSize \in Int
        BY <4>1, PoolAssumption
      <4> QED
        BY <4>2, <4>3 DEF Old, Unmade, Tunnels
    <3> QED
      BY <2>3, <3>1, <1>0 DEF TunnelInv
  <2> QED
    BY <2>2, <2>3
<1> QED
  BY <1>2, <1>3, <1>4, <1>5 DEF SlotsInv

\* disconnect() is done.
LEMMA DisconnectedStep ==
    ASSUME IInv, Disconnected
    PROVE  IInv'
<1> USE DEF IInv, Disconnected
<1>0. ~running /\ Members' = {}
  BY DEF GlobalInv, Members
<1>1. TypeOK'
  BY DEF TypeOK
<1>2. GlobalInv'
  BY <1>0 DEF GlobalInv
<1>3. ASSUME NEW u \in Tunnels PROVE TunnelInv(u)'
  <2>1. Old(u)' = Old(u) /\ Unmade(u)' = Unmade(u)
    BY DEF Old, Unmade
  <2> QED
    BY <2>1 DEF TunnelInv
<1>4. StopInv'
  BY DEF StopInv
<1> QED
  BY <1>0, <1>1, <1>2, <1>3, <1>4 DEF SlotsInv

\* Every step keeps the invariant.
LEMMA NextHolds == IInv /\ [Next]_vars => IInv'
<1>1. ASSUME IInv, UNCHANGED vars PROVE IInv'
  BY <1>1 DEF IInv, TypeOK, GlobalInv, Members, TunnelInv, Old, Unmade, SlotsInv, SlotInv, StopInv
<1>2. ASSUME IInv, Next PROVE IInv'
  <2>1. CASE Connect
    BY <1>2, <2>1, FirstConnect, ConnectAgain DEF Connect
  <2>2. CASE Build \/ Connected \/ Disconnect \/ Disconnected
    BY <1>2, <2>2, BuildStep, ConnectedStep, DisconnectStep, DisconnectedStep
  <2>3. ASSUME NEW t \in Tunnels,
               Lose(t) \/ Lost(t) \/ Closed(t) \/ Dialled(t, TRUE) \/ Dialled(t, FALSE)
        PROVE  IInv'
    BY <1>2, <2>3, LoseStep, LostStep, ClosedStep, DialledStep
  <2>4. ASSUME NEW i \in Index,
               Check(i) \/ Wake(i) \/ Redialled(i, TRUE) \/ Redialled(i, FALSE)
        PROVE  IInv'
    BY <1>2, <2>4, CheckStep, DialStep
  <2> QED
    BY <1>2, <2>1, <2>2, <2>3, <2>4 DEF Next
<1> QED
  BY <1>1, <1>2

\* The invariant holds in every reachable state.
THEOREM InvariantHolds == SafeSpec => []IInv
  BY InitHolds, NextHolds, PTL DEF SafeSpec

\* Every variable of the pool keeps its type, and the list is empty while a batch is torn down.
THEOREM TypeCorrect == SafeSpec => []TypeOK
<1>1. IInv => TypeOK
  BY DEF IInv
<1> QED
  BY <1>1, InvariantHolds, PTL

\* A tunnel of a running pool that is down has a task that reconnects it.
THEOREM DownIsSupervised == SafeSpec => []Supervised
<1>1. IInv => Supervised
  <2> SUFFICES ASSUME IInv, running, connecting = "idle", NEW i \in DOMAIN tunnels,
                      link[tunnels[i]] = "down"
               PROVE  reconnect[i] # "none"
    BY DEF Supervised
  <2>1. tunnels # <<>>
    OBVIOUS
  <2>2. i \in Index /\ SlotInv(i)
    BY <2>1, ListFacts DEF IInv, SlotsInv
  <2> QED
    BY <2>2 DEF SlotInv
<1> QED
  BY <1>1, InvariantHolds, PTL

\* A task that sleeps or dials has its tunnel for itself.
THEOREM TasksDialAlone == SafeSpec => []DialsAlone
<1>1. IInv => DialsAlone
  <2> SUFFICES ASSUME IInv, NEW i \in Index, reconnect[i] \in {"sleep", "dial"}
               PROVE  /\ i \in DOMAIN tunnels
                      /\ link[tunnels[i]] = IF reconnect[i] = "dial" THEN "opening" ELSE "down"
    BY DEF DialsAlone
  <2>1. running /\ tunnels # <<>>
    BY DEF IInv, GlobalInv
  <2>2. i \in DOMAIN tunnels /\ SlotInv(i)
    BY <2>1, ListFacts DEF IInv, SlotsInv
  <2> QED
    BY <2>2 DEF SlotInv
<1> QED
  BY <1>1, InvariantHolds, PTL

\* Nothing of an earlier batch is connected once the new one is built.
THEOREM OldBatchesAreClosed == SafeSpec => []OldBatchesClosed
<1>1. IInv => OldBatchesClosed
  BY DEF IInv, OldBatchesClosed, TunnelInv, Old
<1> QED
  BY <1>1, InvariantHolds, PTL

\* disconnect() leaves nothing connected and no task, unless it overtakes a connect().
THEOREM StopLeavesNothing == SafeSpec => []StopIsComplete
<1>1. IInv => StopIsComplete
  BY DEF IInv, StopIsComplete, StopInv
<1> QED
  BY <1>1, InvariantHolds, PTL
=============================================================================
