---------------------------- MODULE RouterProofs ----------------------------
(* What is proved of client/core/router.py and of what it relies on: the     *)
(* CircuitBreaker, the Router with its two caches, and the streams that the  *)
(* tunnel fills and the router's feeder task empties.                        *)
EXTENDS Router, StreamFeeder, SequenceTheorems, FiniteSetTheorems, WellFoundedInduction, TLAPS

\* Every set of naturals that is not empty has a least element.
LEMMA MinOfNaturals ==
    ASSUME NEW T, T \subseteq Nat, T # {}
    PROVE  \E m \in T : \A k \in T : m <= k
<1> DEFINE R == OpToRel(<, Nat)
<1>1. IsWellFoundedOn(R, Nat)
  BY NatLessThanWellFounded
<1>2. \A x, y \in Nat : <<x, y>> \in R <=> x < y
  BY DEF OpToRel
<1> HIDE DEF R
<1>3. PICK m \in T : \A y \in T : <<y, m>> \notin R
  BY <1>1, WFMin
<1>4. ASSUME NEW k \in T PROVE m <= k
  <2>1. m \in Nat /\ k \in Nat
    OBVIOUS
  <2>2. ~ (k < m)
    BY <1>2, <1>3, <2>1
  <2> QED
    BY <2>1, <2>2
<1> QED
  BY <1>4
-----------------------------------------------------------------------------
(* The circuit breaker.                                                      *)

\* f is an end of s.
Suffix(f, s) ==
    /\ Len(f) <= Len(s)
    /\ \A i \in 1..Len(f) : f[i] = s[Len(s) - Len(f) + i]

\* Times in the order of the clock, up to t.
Ordered(s, t) == \A i, j \in 1..Len(s) : s[i] <= t /\ (i <= j => s[i] <= s[j])

\* The failures of s that a block which ends at b was set for.
Counted(b, s) == {i \in 1..Len(s) : s[i] <= b - Cooldown /\ b - Cooldown - s[i] < Window}
Earned(b, s) == Cardinality(Counted(b, s)) >= Threshold

Tracked(f) == {ip \in IPs : f[ip] # <<>>}

\* What is no longer counted, of a streak s that was evicted after e failures: either it is
\* over a cooldown ago or it led to the block, which ends at b.
Settled(b, f, s, e, t) == \A i \in 1..(Len(s) - Len(f)) :
    i > e => s[i] + Cooldown <= t \/ s[i] + Cooldown <= b

\* The recent failures are an end of all failures since the last success, a block is earned
\* by them, and no failure is forgotten too early: in memory and in the file alike.
MemoryOK(m, t) ==
    /\ m \in Memory
    /\ IsFiniteSet(Tracked(m.failures)) /\ Cardinality(Tracked(m.failures)) <= MaxEntries
    /\ \A ip \in IPs : /\ Len(m.failures[ip]) < Threshold
                       /\ Suffix(m.failures[ip], m.streak[ip])
                       /\ Ordered(m.streak[ip], t)
                       /\ m.blocked[ip] # 0 => Earned(m.blocked[ip], m.streak[ip])
                       /\ Settled(m.blocked[ip], m.failures[ip], m.streak[ip], m.evicted[ip], t)

Held == [blocked |-> blocked, failures |-> failures, streak |-> streak, evicted |-> evicted]

BreakerInv ==
    /\ now \in Nat /\ now > 0 /\ lastSave \in Nat
    /\ dirty \in BOOLEAN /\ saved \in BOOLEAN
    /\ MemoryOK(Held, now) /\ MemoryOK(disk, now)
    /\ CleanMeansSaved

\* What the constants are assumed to be, spelled out.
LEMMA BreakerConstants ==
    /\ Threshold \in Nat /\ Threshold > 0 /\ Cooldown \in Nat /\ Cooldown > 0
    /\ MaxEntries \in Nat /\ MaxEntries > 0 /\ SaveGap \in Nat /\ Window \in Nat
  BY BreakerAssumption DEF Window

\* Of times in order, those within the window are an end.
LEMMA WithinProperties ==
    ASSUME NEW s \in Seq(Nat), now \in Nat, Ordered(s, now)
    PROVE  /\ Within(s) \in Seq(Nat) /\ Suffix(Within(s), s)
           /\ \A i \in 1..Len(Within(s)) : now - Within(s)[i] < Window
           /\ \A i \in 1..(Len(s) - Len(Within(s))) : s[i] + Cooldown <= now
<1> DEFINE old == {i \in DOMAIN s : now - s[i] >= Window}
           fresh == {n \in Nat : n + 1 \notin old}
<1>1. Len(s) \in Nat /\ DOMAIN s = 1..Len(s) /\ \A i \in 1..Len(s) : s[i] \in Nat
  OBVIOUS
<1>2. Len(s) \in fresh
  BY <1>1
<1>3. PICK k \in fresh : \A n \in fresh : k <= n
  <2>1. fresh \subseteq Nat /\ fresh # {}
    BY <1>2
  <2> HIDE DEF fresh
  <2> QED
    BY <2>1, MinOfNaturals
<1>4. k \in Nat /\ k <= Len(s) /\ k + 1 \notin old
  BY <1>2, <1>3
<1>5. ASSUME NEW i \in 1..k PROVE i \in old
  <2>1. i - 1 \in Nat /\ ~(k <= i - 1) /\ (i - 1) + 1 = i
    BY <1>4
  <2> QED
    BY <1>3, <2>1
<1>6. ASSUME NEW i \in 1..Len(s), i > k PROVE now - s[i] < Window
  <2>1. k + 1 \in 1..Len(s) /\ k + 1 <= i
    BY <1>1, <1>4, <1>6
  <2>2. s[k + 1] <= s[i] /\ now - s[k + 1] < Window
    BY <1>1, <1>4, <2>1, BreakerConstants DEF Ordered
  <2> QED
    BY <1>1, <2>1, <2>2, BreakerConstants
<1>7. old = 1..k
  <2>1. ASSUME NEW i \in old PROVE i \in 1..k
    <3>1. i \in 1..Len(s) /\ ~(now - s[i] < Window)
      BY <1>1, BreakerConstants
    <3> QED
      BY <1>4, <1>6, <3>1
  <2> QED
    BY <1>5, <2>1
<1>8. Cardinality(old) = k
  <2>1. Cardinality(1..k) = k
    BY <1>4, FS_Interval
  <2> QED
    BY <1>7, <2>1
<1>9. Within(s) = SubSeq(s, 1 + k, Len(s))
  BY <1>8 DEF Within
<1>13. ASSUME NEW i \in 1..k PROVE s[i] + Cooldown <= now
  <2>1. i \in 1..Len(s) /\ now - s[i] >= Window
    BY <1>1, <1>5
  <2> QED
    BY <1>1, <2>1, BreakerConstants DEF Window
<1> HIDE DEF old, fresh
<1>10. /\ Within(s) \in Seq(Nat) /\ Len(Within(s)) = Len(s) - k
       /\ \A i \in 1..(Len(s) - k) : Within(s)[i] = s[k + i]
  <2>1. 1 + k \in Int /\ Len(s) \in Int /\ \A i \in (1 + k)..Len(s) : s[i] \in Nat
    BY <1>1, <1>4
  <2>2. /\ SubSeq(s, 1 + k, Len(s)) \in Seq(Nat)
        /\ Len(SubSeq(s, 1 + k, Len(s))) = IF 1 + k <= Len(s) THEN Len(s) - (1 + k) + 1 ELSE 0
        /\ \A i \in 1..(Len(s) - (1 + k) + 1) : SubSeq(s, 1 + k, Len(s))[i] = s[1 + k + i - 1]
    BY <2>1, SubSeqProperties
  <2>3. Len(s) - (1 + k) + 1 = Len(s) - k /\ \A i \in 1..(Len(s) - k) : 1 + k + i - 1 = k + i
    BY <1>1, <1>4
  <2>4. (IF 1 + k <= Len(s) THEN Len(s) - (1 + k) + 1 ELSE 0) = Len(s) - k
    <3>1. ASSUME NEW n \in Nat, k <= n
          PROVE  (IF 1 + k <= n THEN n - (1 + k) + 1 ELSE 0) = n - k
      BY <1>4, <3>1
    <3> QED
      BY <1>1, <1>4, <3>1
  <2> QED
    BY <1>9, <2>2, <2>3, <2>4
<1>11. Suffix(Within(s), s)
  BY <1>1, <1>4, <1>10 DEF Suffix
<1>12. ASSUME NEW i \in 1..Len(Within(s)) PROVE now - Within(s)[i] < Window
  <2>1. k + i \in 1..Len(s) /\ k + i > k
    BY <1>1, <1>4, <1>10
  <2> QED
    BY <1>6, <1>10, <2>1
<1>14. ASSUME NEW i \in 1..(Len(s) - Len(Within(s))) PROVE s[i] + Cooldown <= now
  <2>1. Len(s) - Len(Within(s)) = k
    BY <1>1, <1>4, <1>10
  <2> QED
    BY <1>13, <2>1
<1> QED
  BY <1>10, <1>11, <1>12, <1>14

\* An end of an end is an end.
LEMMA SuffixTrans ==
    ASSUME NEW f \in Seq(Nat), NEW g \in Seq(Nat), NEW s \in Seq(Nat), Suffix(f, g), Suffix(g, s)
    PROVE  Suffix(f, s)
<1>1. Len(f) \in Nat /\ Len(g) \in Nat /\ Len(s) \in Nat /\ Len(f) <= Len(g) /\ Len(g) <= Len(s)
  BY DEF Suffix
<1>2. ASSUME NEW i \in 1..Len(f) PROVE f[i] = s[Len(s) - Len(f) + i]
  <2>1. Len(g) - Len(f) + i \in 1..Len(g)
    BY <1>1
  <2>2. f[i] = g[Len(g) - Len(f) + i]
    BY DEF Suffix
  <2>3. g[Len(g) - Len(f) + i] = s[Len(s) - Len(g) + (Len(g) - Len(f) + i)]
    BY <2>1 DEF Suffix
  <2>4. Len(s) - Len(g) + (Len(g) - Len(f) + i) = Len(s) - Len(f) + i
    BY <1>1
  <2> QED
    BY <2>2, <2>3, <2>4
<1> QED
  BY <1>1, <1>2 DEF Suffix

\* One failure more at both ends.
LEMMA SuffixAppend ==
    ASSUME NEW f \in Seq(Nat), NEW s \in Seq(Nat), NEW t \in Nat, Suffix(f, s)
    PROVE  Suffix(Append(f, t), Append(s, t))
<1>1. Len(f) \in Nat /\ Len(s) \in Nat /\ Len(f) <= Len(s)
  BY DEF Suffix
<1>2. Len(Append(f, t)) = Len(f) + 1 /\ Len(Append(s, t)) = Len(s) + 1
  OBVIOUS
<1> DEFINE x == Append(f, t)
           y == Append(s, t)
<1>3. ASSUME NEW i \in 1..(Len(f) + 1)
      PROVE  Append(f, t)[i] = Append(s, t)[(Len(s) + 1) - (Len(f) + 1) + i]
  <2>1. CASE i = Len(f) + 1
    <3>1. (Len(s) + 1) - (Len(f) + 1) + i = Len(s) + 1
      BY <1>1, <2>1
    <3> QED
      BY <2>1, <3>1
  <2>2. CASE i \in 1..Len(f)
    <3>1. (Len(s) + 1) - (Len(f) + 1) + i = Len(s) - Len(f) + i
      BY <1>1
    <3>2. Len(s) - Len(f) + i \in 1..Len(s)
      BY <1>1, <2>2
    <3>3. Append(f, t)[i] = f[i] /\ Append(s, t)[Len(s) - Len(f) + i] = s[Len(s) - Len(f) + i]
      BY <1>1, <2>2, <3>2
    <3> QED
      BY <2>2, <3>1, <3>3 DEF Suffix
  <2>3. i = Len(f) + 1 \/ i \in 1..Len(f)
    BY <1>1
  <2> QED
    BY <2>1, <2>2, <2>3, Zenon
<1>4. Len(x) = Len(f) + 1 /\ Len(y) = Len(s) + 1
      /\ \A i \in 1..(Len(f) + 1) : x[i] = y[(Len(s) + 1) - (Len(f) + 1) + i]
  BY <1>2, <1>3
<1> HIDE DEF x, y
<1>5. Suffix(x, y)
  BY <1>1, <1>4 DEF Suffix
<1> QED
  BY <1>5 DEF x, y

\* Nothing is an end of anything.
LEMMA SuffixEmpty == ASSUME NEW s \in Seq(Nat) PROVE Suffix(<<>>, s)
<1>1. Len(<<>>) = 0 /\ Len(s) \in Nat
  OBVIOUS
<1> QED
  BY <1>1 DEF Suffix

\* The clock does not go back.
LEMMA OrderedAppend ==
    ASSUME NEW s \in Seq(Nat), NEW t \in Nat, Ordered(s, t) PROVE Ordered(Append(s, t), t)
<1>1. Len(s) \in Nat /\ Len(Append(s, t)) = Len(s) + 1 /\ Append(s, t)[Len(s) + 1] = t
      /\ \A i \in 1..Len(s) : Append(s, t)[i] = s[i]
  OBVIOUS
<1>2. \A i \in 1..(Len(s) + 1) : Append(s, t)[i] <= t
  <2> TAKE i \in 1..(Len(s) + 1)
  <2>1. i \in 1..Len(s) \/ i = Len(s) + 1
    BY <1>1
  <2> QED
    BY <1>1, <2>1 DEF Ordered
<1>3. ASSUME NEW i \in 1..(Len(s) + 1), NEW j \in 1..(Len(s) + 1), i <= j
      PROVE  Append(s, t)[i] <= Append(s, t)[j]
  <2>1. CASE j = Len(s) + 1
    BY <1>1, <1>2, <2>1
  <2>2. CASE j \in 1..Len(s)
    <3>1. i \in 1..Len(s)
      BY <1>1, <1>3, <2>2
    <3> QED
      BY <1>1, <1>3, <2>2, <3>1 DEF Ordered
  <2> QED
    BY <1>1, <2>1, <2>2
<1> QED
  BY <1>1, <1>2, <1>3 DEF Ordered

\* A sublist of something in order is in order.
LEMMA OrderedSuffix ==
    ASSUME NEW f \in Seq(Nat), NEW s \in Seq(Nat), NEW t \in Nat, Suffix(f, s), Ordered(s, t)
    PROVE  Ordered(f, t)
<1>1. Len(f) \in Nat /\ Len(s) \in Nat /\ Len(f) <= Len(s)
  BY DEF Suffix
<1>2. \A i \in 1..Len(f) : Len(s) - Len(f) + i \in 1..Len(s)
  BY <1>1
<1>3. \A i, j \in 1..Len(f) : i <= j => Len(s) - Len(f) + i <= Len(s) - Len(f) + j
  BY <1>1
<1> QED
  BY <1>1, <1>2, <1>3 DEF Ordered, Suffix

\* A block stays earned when a failure is added.
LEMMA EarnedAppend ==
    ASSUME NEW s \in Seq(Nat), NEW t \in Nat, NEW b \in Nat, Earned(b, s)
    PROVE  Earned(b, Append(s, t))
<1>1. Len(s) \in Nat /\ Len(Append(s, t)) = Len(s) + 1
      /\ \A i \in 1..Len(s) : Append(s, t)[i] = s[i]
  OBVIOUS
<1>2. Counted(b, s) \subseteq Counted(b, Append(s, t))
  BY <1>1 DEF Counted
<1>3. IsFiniteSet(Counted(b, Append(s, t)))
  <2>1. Counted(b, Append(s, t)) \in SUBSET (1..(Len(s) + 1))
    BY <1>1 DEF Counted
  <2>2. IsFiniteSet(1..(Len(s) + 1))
    BY <1>1, FS_Interval
  <2> QED
    BY <2>1, <2>2, FS_Subset
<1>4. Cardinality(Counted(b, s)) <= Cardinality(Counted(b, Append(s, t)))
  BY <1>2, <1>3, FS_Subset
<1>5. Cardinality(Counted(b, s)) \in Nat /\ Cardinality(Counted(b, Append(s, t))) \in Nat
  BY <1>2, <1>3, FS_Subset, FS_CardinalityType
<1> QED
  BY <1>4, <1>5, BreakerConstants DEF Earned

\* Threshold failures at the end, all within the window, earn a block.
LEMMA TripIsEarned ==
    ASSUME NEW r \in Seq(Nat), NEW s \in Seq(Nat), now \in Nat,
           Suffix(r, s), Ordered(s, now), Len(r) >= Threshold,
           \A i \in 1..Len(r) : now - r[i] < Window
    PROVE  Earned(now + Cooldown, s)
<1> DEFINE d == Len(s) - Len(r)
           b == now + Cooldown
<1>1. Len(r) \in Nat /\ Len(s) \in Nat /\ d \in Nat /\ b - Cooldown = now
  BY BreakerConstants DEF Suffix
<1>2. ASSUME NEW j \in (d + 1)..Len(s) PROVE j \in Counted(b, s)
  <2>1. j - d \in 1..Len(r) /\ d + (j - d) = j /\ j \in 1..Len(s)
    BY <1>1
  <2>2. r[j - d] = s[j]
    BY <2>1 DEF Suffix
  <2>3. s[j] <= now /\ now - s[j] < Window
    BY <2>1, <2>2 DEF Ordered
  <2> QED
    BY <1>1, <2>1, <2>3 DEF Counted
<1>3. IsFiniteSet(Counted(b, s))
  <2>1. Counted(b, s) \in SUBSET (1..Len(s))
    BY DEF Counted
  <2>2. IsFiniteSet(1..Len(s))
    BY <1>1, FS_Interval
  <2> QED
    BY <2>1, <2>2, FS_Subset
<1>4. Cardinality((d + 1)..Len(s)) = Len(r)
  <2>1. Cardinality((d + 1)..Len(s)) = IF d + 1 > Len(s) THEN 0 ELSE Len(s) - (d + 1) + 1
    <3>1. d + 1 \in Int /\ Len(s) \in Int
      BY <1>1
    <3> HIDE DEF d
    <3> QED
      BY <3>1, FS_Interval
  <2> QED
    BY <1>1, <2>1
<1>5. Cardinality((d + 1)..Len(s)) <= Cardinality(Counted(b, s))
  BY <1>2, <1>3, FS_Subset
<1>6. Cardinality(Counted(b, s)) \in Nat
  BY <1>3, FS_CardinalityType
<1> QED
  BY <1>1, <1>4, <1>5, <1>6, BreakerConstants DEF Earned
-----------------------------------------------------------------------------
\* The parts of a sound memory.
LEMMA MemoryFacts ==
    ASSUME NEW m, NEW t, MemoryOK(m, t)
    PROVE  /\ m.blocked \in [IPs -> Nat] /\ m.failures \in [IPs -> Seq(Nat)]
           /\ m.streak \in [IPs -> Seq(Nat)] /\ m.evicted \in [IPs -> Nat]
  BY DEF MemoryOK, Memory

\* A failure stays settled when an expired block is forgotten.
LEMMA StillSettled ==
    ASSUME NEW x \in Nat, NEW b \in Nat, NEW c \in Nat, NEW t \in Nat, c = b \/ b <= t,
           x + Cooldown <= t \/ x + Cooldown <= b
    PROVE  x + Cooldown <= t \/ x + Cooldown <= c
  BY BreakerConstants

\* A streak stays settled when an expired block is forgotten and the oldest of the failures,
\* over a cooldown ago, are.
LEMMA SettledForgets ==
    ASSUME NEW s \in Seq(Nat), NEW f \in Seq(Nat), NEW g \in Seq(Nat), NEW e \in Nat,
           NEW b \in Nat, NEW c \in Nat, NEW t \in Nat, Suffix(f, s), Suffix(g, f),
           Settled(b, f, s, e, t), c = b \/ b <= t,
           \A i \in 1..(Len(f) - Len(g)) : f[i] + Cooldown <= t
    PROVE  Settled(c, g, s, e, t)
<1>1. /\ Len(f) \in Nat /\ Len(s) \in Nat /\ Len(g) \in Nat
      /\ Len(f) <= Len(s) /\ Len(g) <= Len(f)
  BY DEF Suffix
<1>2. ASSUME NEW i \in 1..(Len(s) - Len(g)), i > e
      PROVE  s[i] + Cooldown <= t \/ s[i] + Cooldown <= c
  <2>1. i \in 1..Len(s) /\ s[i] \in Nat /\ i \in Nat
    BY <1>1
  <2>2. CASE i <= Len(s) - Len(f)
    <3>1. s[i] + Cooldown <= t \/ s[i] + Cooldown <= b
      BY <1>1, <1>2, <2>1, <2>2 DEF Settled
    <3> QED
      BY <2>1, <3>1, StillSettled, Zenon
  <2>3. CASE ~(i <= Len(s) - Len(f))
    <3>0. ASSUME NEW x \in Nat, NEW y \in Nat, NEW z \in Nat, NEW k \in 1..(x - z), ~(k <= x - y)
          PROVE  k - (x - y) \in 1..(y - z)
      BY <3>0
    <3>1. i - (Len(s) - Len(f)) \in 1..(Len(f) - Len(g))
      BY <1>1, <2>3, <3>0
    <3>2. i - (Len(s) - Len(f)) \in 1..Len(f)
      BY <1>1, <3>1
    <3>3. Len(s) - Len(f) + (i - (Len(s) - Len(f))) = i
      BY <1>1, <2>1
    <3>4. f[i - (Len(s) - Len(f))] = s[i]
      BY <3>2, <3>3 DEF Suffix
    <3> QED
      BY <3>1, <3>4
  <2> QED
    BY <2>2, <2>3
<1> QED
  BY <1>2 DEF Settled

\* A sound memory stays so when expired blocks are forgotten, and failures over a cooldown
\* ago.
LEMMA MemoryForgets ==
    ASSUME NEW m, NEW t \in Nat, MemoryOK(m, t),
           NEW b \in [IPs -> Nat], NEW f \in [IPs -> Seq(Nat)],
           \A ip \in IPs : b[ip] = m.blocked[ip] \/ (b[ip] = 0 /\ m.blocked[ip] <= t),
           \A ip \in IPs : Suffix(f[ip], m.failures[ip]),
           \A ip \in IPs : \A i \in 1..(Len(m.failures[ip]) - Len(f[ip])) :
               m.failures[ip][i] + Cooldown <= t
    PROVE  MemoryOK([blocked |-> b, failures |-> f, streak |-> m.streak,
                     evicted |-> m.evicted], t)
<1> DEFINE n == [blocked |-> b, failures |-> f, streak |-> m.streak, evicted |-> m.evicted]
<1>1. n \in Memory
  BY MemoryFacts DEF Memory
<1>2. Tracked(f) \in SUBSET Tracked(m.failures)
  <2>1. ASSUME NEW ip \in IPs, f[ip] # <<>> PROVE m.failures[ip] # <<>>
    <3>1. f[ip] \in Seq(Nat) /\ m.failures[ip] \in Seq(Nat)
      BY MemoryFacts
    <3>2. Len(f[ip]) \in Nat /\ Len(f[ip]) > 0 /\ Len(f[ip]) <= Len(m.failures[ip])
      BY <2>1, <3>1 DEF Suffix
    <3>3. m.failures[ip] = <<>> => Len(m.failures[ip]) = 0
      OBVIOUS
    <3> QED
      BY <3>2, <3>3
  <2> QED
    BY <2>1 DEF Tracked
<1>3. IsFiniteSet(Tracked(f)) /\ Cardinality(Tracked(f)) <= MaxEntries
  <2>1. IsFiniteSet(Tracked(m.failures)) /\ Cardinality(Tracked(m.failures)) <= MaxEntries
    BY DEF MemoryOK
  <2>2. IsFiniteSet(Tracked(f)) /\ Cardinality(Tracked(f)) <= Cardinality(Tracked(m.failures))
    BY <1>2, <2>1, FS_Subset
  <2> QED
    BY <2>1, <2>2, FS_CardinalityType, BreakerConstants
<1>4. ASSUME NEW ip \in IPs
      PROVE  Len(f[ip]) < Threshold /\ Suffix(f[ip], m.streak[ip])
  <2>1. /\ f[ip] \in Seq(Nat) /\ m.failures[ip] \in Seq(Nat) /\ m.streak[ip] \in Seq(Nat)
        /\ Suffix(f[ip], m.failures[ip])
    BY MemoryFacts
  <2>2. Suffix(m.failures[ip], m.streak[ip]) /\ Len(m.failures[ip]) < Threshold
    BY DEF MemoryOK
  <2>3. Len(f[ip]) <= Len(m.failures[ip]) /\ Len(f[ip]) \in Nat /\ Len(m.failures[ip]) \in Nat
    BY <2>1 DEF Suffix
  <2> QED
    BY <2>1, <2>2, <2>3, SuffixTrans, BreakerConstants
<1>5. ASSUME NEW ip \in IPs
      PROVE  Ordered(m.streak[ip], t) /\ (b[ip] # 0 => Earned(b[ip], m.streak[ip]))
  BY DEF MemoryOK
<1>8. ASSUME NEW ip \in IPs PROVE Settled(b[ip], f[ip], m.streak[ip], m.evicted[ip], t)
  <2>1. /\ f[ip] \in Seq(Nat) /\ m.failures[ip] \in Seq(Nat) /\ m.streak[ip] \in Seq(Nat)
        /\ m.evicted[ip] \in Nat /\ b[ip] \in Nat /\ m.blocked[ip] \in Nat
    BY MemoryFacts
  <2>2. /\ Suffix(m.failures[ip], m.streak[ip])
        /\ Settled(m.blocked[ip], m.failures[ip], m.streak[ip], m.evicted[ip], t)
    BY DEF MemoryOK
  <2>3. /\ Suffix(f[ip], m.failures[ip]) /\ (b[ip] = m.blocked[ip] \/ m.blocked[ip] <= t)
        /\ \A i \in 1..(Len(m.failures[ip]) - Len(f[ip])) : m.failures[ip][i] + Cooldown <= t
    OBVIOUS
  <2> QED
    BY <2>1, <2>2, <2>3, SettledForgets
<1>6. n.blocked = b /\ n.failures = f /\ n.streak = m.streak /\ n.evicted = m.evicted
  OBVIOUS
<1> HIDE DEF n
<1>7. MemoryOK(n, t)
  BY <1>1, <1>3, <1>4, <1>5, <1>6, <1>8 DEF MemoryOK
<1> QED
  BY <1>7 DEF n

\* To forget nothing.
LEMMA ForgetNothing ==
    ASSUME NEW s \in Seq(Nat) PROVE 1..(Len(s) - Len(s)) = {}
<1>1. Len(s) \in Nat
  OBVIOUS
<1> QED
  BY <1>1

\* Everything is an end of itself.
LEMMA SuffixSelf == ASSUME NEW s \in Seq(Nat) PROVE Suffix(s, s)
<1>1. Len(s) \in Nat /\ \A i \in 1..Len(s) : Len(s) - Len(s) + i = i
  OBVIOUS
<1> QED
  BY <1>1 DEF Suffix

\* A streak stays settled when time passes.
LEMMA SettledAges ==
    ASSUME NEW s \in Seq(Nat), NEW f \in Seq(Nat), NEW e, NEW b, NEW t \in Nat, NEW u \in Nat,
           t <= u, Settled(b, f, s, e, t)
    PROVE  Settled(b, f, s, e, u)
<1>1. Len(s) \in Nat /\ Len(f) \in Nat
  OBVIOUS
<1>2. ASSUME NEW i \in 1..(Len(s) - Len(f)), i > e
      PROVE  s[i] + Cooldown <= u \/ s[i] + Cooldown <= b
  <2>1. i \in 1..Len(s)
    BY <1>1
  <2>2. s[i] \in Nat
    BY <2>1
  <2>3. s[i] + Cooldown <= t \/ s[i] + Cooldown <= b
    BY <1>2 DEF Settled
  <2> QED
    BY <2>2, <2>3, BreakerConstants
<1> QED
  BY <1>2 DEF Settled

\* Time passes.
LEMMA MemoryAges ==
    ASSUME NEW m, NEW t \in Nat, NEW u \in Nat, t <= u, MemoryOK(m, t) PROVE MemoryOK(m, u)
<1>1. ASSUME NEW ip \in IPs PROVE Ordered(m.streak[ip], u)
  <2>1. m.streak[ip] \in Seq(Nat) /\ Ordered(m.streak[ip], t)
    BY MemoryFacts DEF MemoryOK
  <2>2. \A i \in 1..Len(m.streak[ip]) : m.streak[ip][i] \in Nat
    BY <2>1
  <2> QED
    BY <2>1, <2>2, SMTT(30) DEF Ordered
<1>2. ASSUME NEW ip \in IPs
      PROVE  Settled(m.blocked[ip], m.failures[ip], m.streak[ip], m.evicted[ip], u)
  <2>1. /\ m.streak[ip] \in Seq(Nat) /\ m.failures[ip] \in Seq(Nat)
        /\ Settled(m.blocked[ip], m.failures[ip], m.streak[ip], m.evicted[ip], t)
    BY MemoryFacts DEF MemoryOK
  <2> QED
    BY <2>1, SettledAges
<1> QED
  BY <1>1, <1>2 DEF MemoryOK

\* What _prune leaves: some addresses as they were, at most MaxEntries.
LEMMA CappedProperties ==
    ASSUME NEW f \in [IPs -> Seq(Nat)], IsFiniteSet(Tracked(f)), NEW g \in Capped(f)
    PROVE  /\ g \in [IPs -> Seq(Nat)]
           /\ \A ip \in IPs : g[ip] \in {f[ip], <<>>}
           /\ IsFiniteSet(Tracked(g)) /\ Cardinality(Tracked(g)) <= MaxEntries
<1>1. PICK K \in SUBSET Tracked(f) :
        /\ g = [ip \in IPs |-> IF ip \in K THEN f[ip] ELSE <<>>]
        /\ Cardinality(K) <= MaxEntries
  <2> DEFINE Newest(K) == \A k \in K, d \in Tracked(f) \ K : f[k][Len(f[k])] >= f[d][Len(f[d])]
             kept == IF Cardinality(Tracked(f)) <= MaxEntries THEN {Tracked(f)}
                     ELSE {K \in SUBSET Tracked(f) : Cardinality(K) = MaxEntries /\ Newest(K)}
  <2>1. PICK K \in kept : g = [ip \in IPs |-> IF ip \in K THEN f[ip] ELSE <<>>]
    BY DEF Capped, Tracked
  <2>2. K \in SUBSET Tracked(f) /\ Cardinality(K) <= MaxEntries
    BY BreakerConstants
  <2> QED
    BY <2>1, <2>2
<1>2. IsFiniteSet(K)
  BY FS_Subset
<1>3. <<>> \in Seq(Nat)
  OBVIOUS
<1>4. g \in [IPs -> Seq(Nat)] /\ \A ip \in IPs : g[ip] \in {f[ip], <<>>}
  BY <1>1, <1>3
<1>5. Tracked(g) = K
  BY <1>1 DEF Tracked
<1> QED
  BY <1>1, <1>2, <1>4, <1>5

\* A save writes what is in memory but for expired blocks, or nothing is written.
LEMMA SaveKeepsDisk ==
    ASSUME BreakerInv, NEW changed, MaybeSave(changed), now' = now, MemoryOK(Held', now)
    PROVE  /\ MemoryOK(disk', now) /\ lastSave' \in Nat
           /\ changed \in BOOLEAN => dirty' \in BOOLEAN /\ saved' \in BOOLEAN
<1>1. CASE UNCHANGED disk
  BY <1>1 DEF BreakerInv, MaybeSave
<1>2. CASE disk' = Contents
  <2> DEFINE b == [ip \in IPs |-> IF now <= blocked'[ip] THEN blocked'[ip] ELSE 0]
  <2>1. /\ blocked' \in [IPs -> Nat] /\ failures' \in [IPs -> Seq(Nat)]
        /\ streak' \in [IPs -> Seq(Nat)] /\ now \in Nat
        /\ Held'.blocked = blocked' /\ Held'.failures = failures' /\ Held'.streak = streak'
        /\ Held'.evicted = evicted'
    BY MemoryFacts DEF Held, BreakerInv
  <2>2. /\ b \in [IPs -> Nat]
        /\ \A ip \in IPs : b[ip] = Held'.blocked[ip] \/ (b[ip] = 0 /\ Held'.blocked[ip] <= now)
    BY <2>1
  <2>3. \A ip \in IPs : /\ Suffix(failures'[ip], Held'.failures[ip])
                        /\ 1..(Len(Held'.failures[ip]) - Len(failures'[ip])) = {}
    BY <2>1, SuffixSelf, ForgetNothing
  <2>4. disk' = [blocked |-> b, failures |-> failures', streak |-> Held'.streak,
                 evicted |-> Held'.evicted]
    BY <1>2, <2>1 DEF Contents
  <2> HIDE DEF b
  <2>5. MemoryOK(disk', now)
    BY <2>1, <2>2, <2>3, <2>4, MemoryForgets
  <2> QED
    BY <2>5 DEF BreakerInv, MaybeSave
<1> QED
  BY <1>1, <1>2 DEF MaybeSave

\* An end has only elements of the whole.
LEMMA SuffixElements ==
    ASSUME NEW f \in Seq(Nat), NEW s \in Seq(Nat), Suffix(f, s)
    PROVE  Elements(f) \subseteq Elements(s)
<1>1. Len(f) \in Nat /\ Len(s) \in Nat /\ Len(f) <= Len(s)
  BY DEF Suffix
<1>2. DOMAIN f = 1..Len(f) /\ DOMAIN s = 1..Len(s)
  OBVIOUS
<1>3. ASSUME NEW i \in 1..Len(f) PROVE f[i] \in Elements(s)
  <2>1. Len(s) - Len(f) + i \in 1..Len(s)
    BY <1>1
  <2>2. f[i] = s[Len(s) - Len(f) + i]
    BY DEF Suffix
  <2> QED
    BY <1>2, <2>1, <2>2 DEF Elements
<1> QED
  BY <1>2, <1>3 DEF Elements

\* No failures at all.
LEMMA NoFailures ==
    ASSUME NEW t PROVE Ordered(<<>>, t) /\ Suffix(<<>>, <<>>) /\ Elements(<<>>) = {}
<1>1. Len(<<>>) = 0 /\ DOMAIN <<>> = {} /\ 1..0 = {}
  OBVIOUS
<1>2. Ordered(<<>>, t)
  BY <1>1, Zenon DEF Ordered
<1>3. Suffix(<<>>, <<>>)
  BY SuffixEmpty, EmptySeq
<1> QED
  BY <1>1, <1>2, <1>3 DEF Elements

\* Without failures no failure is unsettled.
LEMMA SettledNone == ASSUME NEW b, NEW e, NEW t PROVE Settled(b, <<>>, <<>>, e, t)
<1>1. Len(<<>>) = 0 /\ 1..(0 - 0) = {}
  OBVIOUS
<1> QED
  BY <1>1 DEF Settled

\* A memory without entries is sound.
LEMMA NoFileOK == ASSUME NEW t PROVE MemoryOK(NoFile, t)
<1>1. /\ NoFile.failures = Empty /\ NoFile.streak = Empty /\ NoFile.blocked = Zero
      /\ NoFile.evicted = Zero
  BY DEF NoFile
<1>2. <<>> \in Seq(Nat) /\ Len(<<>>) = 0
  OBVIOUS
<1>3. NoFile \in Memory
  BY <1>2 DEF NoFile, Memory, Empty, Zero
<1>4. Tracked(NoFile.failures) = {}
  BY <1>1 DEF Tracked, Empty
<1>5. ASSUME NEW ip \in IPs
      PROVE  /\ NoFile.failures[ip] = <<>> /\ NoFile.streak[ip] = <<>> /\ NoFile.blocked[ip] = 0
             /\ Suffix(NoFile.failures[ip], NoFile.streak[ip]) /\ Ordered(NoFile.streak[ip], t)
  <2>1. NoFile.failures[ip] = <<>> /\ NoFile.streak[ip] = <<>> /\ NoFile.blocked[ip] = 0
    BY <1>1 DEF Empty, Zero
  <2>2. Ordered(<<>>, t) /\ Suffix(<<>>, <<>>)
    BY NoFailures
  <2> QED
    BY <2>1, <2>2
<1>6. IsFiniteSet({}) /\ Cardinality({}) <= MaxEntries
  BY FS_EmptySet, BreakerConstants
<1>7. \A ip \in IPs : Len(NoFile.failures[ip]) < Threshold
  BY <1>2, <1>5, BreakerConstants
<1>8. \A ip \in IPs :
        Settled(NoFile.blocked[ip], NoFile.failures[ip], NoFile.streak[ip], NoFile.evicted[ip], t)
  BY <1>5, SettledNone
<1> QED
  BY <1>3, <1>4, <1>5, <1>6, <1>7, <1>8 DEF MemoryOK

\* BreakerInit.
LEMMA BreakerInitHolds == ASSUME BreakerInit PROVE BreakerInv
<1>1. now \in Nat /\ now > 0
  BY BreakerConstants DEF BreakerInit, Start
<1>2. Held = NoFile /\ disk = NoFile
  BY DEF BreakerInit, Held, NoFile
<1>3. CleanMeansSaved
  BY DEF BreakerInit, CleanMeansSaved, InForce, NoFile
<1> QED
  BY <1>1, <1>2, <1>3, NoFileOK DEF BreakerInv, BreakerInit

\* What the invariant says of the memory's parts.
LEMMA HeldFacts ==
    ASSUME BreakerInv
    PROVE  /\ blocked \in [IPs -> Nat] /\ failures \in [IPs -> Seq(Nat)]
           /\ streak \in [IPs -> Seq(Nat)] /\ evicted \in [IPs -> Nat]
           /\ Held.blocked = blocked /\ Held.failures = failures /\ Held.streak = streak
           /\ Held.evicted = evicted
           /\ now \in Nat /\ now > 0
           /\ disk.blocked \in [IPs -> Nat] /\ disk.failures \in [IPs -> Seq(Nat)]
           /\ disk.streak \in [IPs -> Seq(Nat)] /\ disk.evicted \in [IPs -> Nat]
<1>1. /\ Held.blocked = blocked /\ Held.failures = failures /\ Held.streak = streak
      /\ Held.evicted = evicted
  BY DEF Held
<1>2. MemoryOK(Held, now) /\ MemoryOK(disk, now) /\ now \in Nat /\ now > 0
  BY DEF BreakerInv
<1> HIDE DEF Held
<1> QED
  BY <1>1, <1>2, MemoryFacts

\* A save that is due and succeeds, or one that stays due, leaves nothing clean and unsaved.
LEMMA SaveKeepsClean ==
    ASSUME BreakerInv, NEW changed \in BOOLEAN, MaybeSave(changed), now' = now,
           blocked' \in [IPs -> Nat],
           ~changed /\ saved => \A ip \in IPs : /\ now <= blocked'[ip] => disk.blocked[ip] = blocked'[ip]
                                               /\ Elements(failures'[ip]) \subseteq Elements(disk.failures[ip])
    PROVE  CleanMeansSaved'
<1>1. CASE dirty' = changed /\ UNCHANGED <<disk, saved>>
  BY <1>1 DEF CleanMeansSaved, InForce
<1>2. CASE disk' = IF saved' THEN Contents ELSE disk
  <2>1. ASSUME saved' PROVE \A ip \in IPs :
            /\ now <= blocked'[ip] => disk'.blocked[ip] = blocked'[ip]
            /\ disk'.failures = failures'
    BY <1>2, <2>1 DEF Contents
  <2> QED
    BY <2>1 DEF CleanMeansSaved, InForce
<1> QED
  BY <1>1, <1>2 DEF MaybeSave

\* is_blocked.
LEMMA CheckBlockedKeeps ==
    ASSUME BreakerInv, NEW ip \in IPs, CheckBlocked(ip), now' = now PROVE BreakerInv'
<1>1. /\ blocked' \in [IPs -> Nat]
      /\ \A i \in IPs : \/ blocked'[i] = Held.blocked[i]
                        \/ blocked'[i] = 0 /\ Held.blocked[i] <= now
  BY HeldFacts DEF CheckBlocked, InForce
<1>6. ASSUME NEW i \in IPs, now <= blocked'[i] PROVE blocked'[i] = blocked[i]
  <2>1. ~ (now <= 0) /\ Held.blocked = blocked
    BY HeldFacts
  <2> QED
    BY <1>1, <1>6, <2>1
<1>2. MemoryOK(Held', now)
  <2>1. \A i \in IPs : /\ Suffix(failures[i], Held.failures[i])
                       /\ 1..(Len(Held.failures[i]) - Len(failures[i])) = {}
    BY HeldFacts, SuffixSelf, ForgetNothing
  <2>2. Held' = [blocked |-> blocked', failures |-> failures, streak |-> Held.streak,
                 evicted |-> Held.evicted]
    BY HeldFacts DEF Held, CheckBlocked
  <2>3. MemoryOK(Held, now)
    BY DEF BreakerInv
  <2> QED
    BY <1>1, <2>1, <2>2, <2>3, HeldFacts, MemoryForgets
<1>3. dirty \in BOOLEAN /\ MaybeSave(dirty)
  BY DEF BreakerInv, CheckBlocked
<1>4. MemoryOK(disk', now) /\ lastSave' \in Nat /\ dirty' \in BOOLEAN /\ saved' \in BOOLEAN
  BY <1>2, <1>3, SaveKeepsDisk
<1>5. CleanMeansSaved'
  <2>1. ASSUME ~dirty, saved, NEW i \in IPs
        PROVE  /\ now <= blocked'[i] => disk.blocked[i] = blocked'[i]
               /\ Elements(failures'[i]) \subseteq Elements(disk.failures[i])
    <3>1. now <= blocked'[i] => blocked'[i] = blocked[i]
      BY <1>6
    <3>2. failures' = failures
      BY DEF CheckBlocked
    <3> QED
      BY <2>1, <3>1, <3>2 DEF BreakerInv, CleanMeansSaved, InForce
  <2> QED
    BY <1>1, <1>3, <2>1, SaveKeepsClean
<1> QED
  BY <1>2, <1>4, <1>5 DEF BreakerInv

\* record_success.
LEMMA RecordSuccessKeeps ==
    ASSUME BreakerInv, NEW ip \in IPs, RecordSuccess(ip), now' = now PROVE BreakerInv'
<1>1. <<>> \in Seq(Nat)
  OBVIOUS
<1>2. /\ blocked' \in [IPs -> Nat] /\ failures' \in [IPs -> Seq(Nat)]
      /\ \A i \in IPs : blocked'[i] \in {0, blocked[i]} /\ failures'[i] \in {<<>>, failures[i]}
  BY <1>1, HeldFacts DEF RecordSuccess
<1>3. /\ IsFiniteSet(Tracked(failures')) /\ Cardinality(Tracked(failures')) <= MaxEntries
  <2>1. IsFiniteSet(Tracked(failures)) /\ Cardinality(Tracked(failures)) <= MaxEntries
    BY HeldFacts DEF BreakerInv, MemoryOK
  <2>2. Tracked(failures') \in SUBSET Tracked(failures)
    BY <1>2 DEF Tracked
  <2>3. IsFiniteSet(Tracked(failures')) /\ Cardinality(Tracked(failures')) <= Cardinality(Tracked(failures))
    BY <2>1, <2>2, FS_Subset
  <2> QED
    BY <2>1, <2>3, FS_CardinalityType, BreakerConstants
<1>4. MemoryOK(Held', now)
  <2>1. /\ Held'.blocked = blocked' /\ Held'.failures = failures'
        /\ Held'.streak = streak' /\ Held'.evicted = evicted'
    BY DEF Held
  <2>2. Held' \in Memory
    BY <1>1, <1>2, HeldFacts DEF Held, Memory, RecordSuccess
  <2>6. ASSUME NEW i \in IPs
        PROVE  /\ Len(failures'[i]) < Threshold
               /\ Suffix(failures'[i], streak'[i])
               /\ Ordered(streak'[i], now)
               /\ blocked'[i] # 0 => Earned(blocked'[i], streak'[i])
               /\ Settled(blocked'[i], failures'[i], streak'[i], evicted'[i], now)
    <3>1. CASE i # ip
      <4>1. /\ streak'[i] = streak[i] /\ failures'[i] = failures[i] /\ blocked'[i] = blocked[i]
            /\ evicted'[i] = evicted[i]
        BY <3>1, HeldFacts DEF RecordSuccess
      <4> QED
        BY <4>1, HeldFacts DEF BreakerInv, MemoryOK
    <3>2. CASE i = ip
      <4>1. streak'[i] = <<>> /\ failures'[i] = <<>> /\ blocked'[i] = 0
        BY <3>2, HeldFacts DEF RecordSuccess
      <4>2. Len(<<>>) = 0 /\ Ordered(<<>>, now) /\ Suffix(<<>>, <<>>)
        BY NoFailures
      <4> QED
        BY <4>1, <4>2, SettledNone, BreakerConstants
    <3> QED
      BY <3>1, <3>2
  <2> QED
    BY <1>3, <2>1, <2>2, <2>6 DEF MemoryOK
<1>5. CleanMeansSaved'
  <2>1. ASSUME ~dirty, saved, NEW i \in IPs
        PROVE  /\ now <= blocked'[i] => disk.blocked[i] = blocked'[i]
               /\ Elements(failures'[i]) \subseteq Elements(disk.failures[i])
    <3>1. now <= blocked'[i] => blocked'[i] = blocked[i]
      BY <1>2, HeldFacts
    <3>2. Elements(failures'[i]) \subseteq Elements(failures[i])
      BY <1>2, NoFailures
    <3> QED
      BY <2>1, <3>1, <3>2 DEF BreakerInv, CleanMeansSaved, InForce
  <2> QED
    BY <2>1 DEF CleanMeansSaved, InForce, RecordSuccess
<1> QED
  BY <1>4, <1>5 DEF BreakerInv, RecordSuccess

\* A new failure is counted.
LEMMA SettledAppend ==
    ASSUME NEW s \in Seq(Nat), NEW f \in Seq(Nat), NEW e \in Nat, NEW b \in Nat, NEW t \in Nat,
           Suffix(f, s), Settled(b, f, s, e, t)
    PROVE  Settled(b, Append(f, t), Append(s, t), e, t)
<1>1. Len(f) \in Nat /\ Len(s) \in Nat /\ Len(f) <= Len(s)
  BY DEF Suffix
<1>2. /\ Len(Append(f, t)) = Len(f) + 1 /\ Len(Append(s, t)) = Len(s) + 1
      /\ \A i \in 1..Len(s) : Append(s, t)[i] = s[i]
  OBVIOUS
<1>3. (Len(s) + 1) - (Len(f) + 1) = Len(s) - Len(f) /\ 1..(Len(s) - Len(f)) \subseteq 1..Len(s)
  BY <1>1
<1> QED
  BY <1>2, <1>3 DEF Settled

\* A block set now settles everything.
LEMMA SettledByBlock ==
    ASSUME NEW s \in Seq(Nat), NEW e, NEW t \in Nat, Ordered(s, t)
    PROVE  Settled(t + Cooldown, <<>>, s, e, t)
<1>1. Len(s) \in Nat /\ Len(<<>>) = 0
  OBVIOUS
<1>2. ASSUME NEW i \in 1..Len(s) PROVE s[i] + Cooldown <= t + Cooldown
  <2>1. s[i] \in Nat /\ s[i] <= t
    BY DEF Ordered
  <2> QED
    BY <2>1, BreakerConstants
<1>3. 1..(Len(s) - Len(<<>>)) = 1..Len(s)
  BY <1>1
<1> QED
  BY <1>2, <1>3 DEF Settled

\* What record_failure counts: the failures within the window, this one among them.
LEMMA RecentFacts ==
    ASSUME BreakerInv, NEW ip \in IPs
    PROVE  /\ Recent(ip) \in Seq(Nat) /\ Append(streak[ip], now) \in Seq(Nat)
           /\ Suffix(Recent(ip), Append(streak[ip], now))
           /\ Ordered(Append(streak[ip], now), now)
           /\ \A i \in 1..Len(Recent(ip)) : now - Recent(ip)[i] < Window
           /\ Settled(blocked[ip], Recent(ip), Append(streak[ip], now), evicted[ip], now)
<1>1. failures[ip] \in Seq(Nat) /\ streak[ip] \in Seq(Nat) /\ now \in Nat
  BY HeldFacts
<1>2. /\ Suffix(failures[ip], streak[ip]) /\ Ordered(streak[ip], now)
      /\ Settled(blocked[ip], failures[ip], streak[ip], evicted[ip], now)
      /\ blocked[ip] \in Nat /\ evicted[ip] \in Nat
  BY HeldFacts DEF BreakerInv, MemoryOK
<1> DEFINE f == Append(failures[ip], now)
           s == Append(streak[ip], now)
<1>3. f \in Seq(Nat) /\ s \in Seq(Nat) /\ Suffix(f, s) /\ Ordered(s, now)
  BY <1>1, <1>2, SuffixAppend, OrderedAppend
<1>4. Recent(ip) = Within(f)
  BY DEF Recent
<1>9. Settled(blocked[ip], f, s, evicted[ip], now)
  BY <1>1, <1>2, SettledAppend
<1> HIDE DEF f, s
<1>5. Ordered(f, now)
  BY <1>1, <1>3, OrderedSuffix
<1>6. /\ Within(f) \in Seq(Nat) /\ Suffix(Within(f), f)
      /\ \A i \in 1..Len(Within(f)) : now - Within(f)[i] < Window
      /\ \A i \in 1..(Len(f) - Len(Within(f))) : f[i] + Cooldown <= now
  BY <1>1, <1>3, <1>5, WithinProperties
<1>7. Suffix(Within(f), s)
  BY <1>3, <1>6, SuffixTrans
<1>8. s \in Seq(Nat) /\ Suffix(Recent(ip), s) /\ Ordered(s, now)
  BY <1>3, <1>4, <1>7
<1>10. Settled(blocked[ip], Within(f), s, evicted[ip], now)
  BY <1>1, <1>2, <1>3, <1>6, <1>9, SettledForgets
<1> QED
  BY <1>4, <1>6, <1>8, <1>10 DEF s

\* record_failure.
LEMMA RecordFailureKeeps ==
    ASSUME BreakerInv, NEW ip \in IPs, RecordFailure(ip), now' = now PROVE BreakerInv'
<1> DEFINE r == Recent(ip)
           s == Append(streak[ip], now)
           trips == Len(r) >= Threshold
           until == [blocked EXCEPT ![ip] = IF trips THEN now + Cooldown ELSE @]
           g == [failures EXCEPT ![ip] = IF trips THEN <<>> ELSE r]
<1>1. /\ blocked' = [i \in IPs |-> IF now > until[i] THEN 0 ELSE until[i]]
      /\ failures' \in Capped(g) /\ streak' = [streak EXCEPT ![ip] = s]
      /\ evicted' = [i \in IPs |-> IF failures'[i] = g[i] THEN evicted[i] ELSE Len(streak'[i])]
      /\ MaybeSave(TRUE)
  BY DEF RecordFailure
<1>2. /\ r \in Seq(Nat) /\ s \in Seq(Nat) /\ Suffix(r, s) /\ Ordered(s, now)
      /\ \A i \in 1..Len(r) : now - r[i] < Window
      /\ Settled(blocked[ip], r, s, evicted[ip], now)
  BY RecentFacts
<1>3. /\ streak'[ip] = s /\ streak' \in [IPs -> Seq(Nat)]
      /\ \A i \in IPs : i # ip => streak'[i] = streak[i]
  BY <1>1, <1>2, HeldFacts
<1>4. /\ g \in [IPs -> Seq(Nat)] /\ g[ip] = (IF trips THEN <<>> ELSE r)
      /\ \A i \in IPs : i # ip => g[i] = failures[i]
  <2>1. <<>> \in Seq(Nat)
    OBVIOUS
  <2> QED
    BY <1>2, <2>1, HeldFacts
<1>5. /\ until \in [IPs -> Nat] /\ until[ip] = (IF trips THEN now + Cooldown ELSE blocked[ip])
      /\ \A i \in IPs : i # ip => until[i] = blocked[i]
  BY HeldFacts, BreakerConstants
<1>6. /\ blocked' \in [IPs -> Nat]
      /\ \A i \in IPs : blocked'[i] \in {0, until[i]} /\ (blocked'[i] = until[i] \/ until[i] <= now)
  <2>1. now \in Nat
    BY HeldFacts
  <2> HIDE DEF r, s, until, g, trips
  <2>2. ASSUME NEW i \in IPs
        PROVE  /\ blocked'[i] \in Nat /\ blocked'[i] \in {0, until[i]}
               /\ blocked'[i] = until[i] \/ until[i] <= now
    <3>1. until[i] \in Nat /\ blocked'[i] = IF now > until[i] THEN 0 ELSE until[i]
      BY <1>1, <1>5
    <3> QED
      BY <2>1, <3>1
  <2> QED
    BY <1>1, <2>2
<1>7. trips => Earned(now + Cooldown, s)
  BY <1>2, TripIsEarned, HeldFacts
<1>8. ~trips => Len(r) < Threshold
  BY <1>2, BreakerConstants
<1> HIDE DEF r, s, until, g, trips
<1>9. IsFiniteSet(Tracked(g))
  <2>1. IsFiniteSet(Tracked(failures))
    BY HeldFacts DEF BreakerInv, MemoryOK
  <2>2. IsFiniteSet(Tracked(failures) \cup {ip})
    BY <2>1, FS_AddElement
  <2>3. Tracked(g) \in SUBSET (Tracked(failures) \cup {ip})
    BY <1>4 DEF Tracked
  <2> QED
    BY <2>2, <2>3, FS_Subset
<1>10. /\ failures' \in [IPs -> Seq(Nat)]
       /\ \A i \in IPs : failures'[i] \in {g[i], <<>>}
       /\ IsFiniteSet(Tracked(failures')) /\ Cardinality(Tracked(failures')) <= MaxEntries
  BY <1>1, <1>4, <1>9, CappedProperties
<1>11. ASSUME NEW i \in IPs
       PROVE  /\ Len(g[i]) < Threshold /\ Suffix(g[i], streak'[i])
              /\ Ordered(streak'[i], now)
              /\ until[i] # 0 => Earned(until[i], streak'[i])
              /\ Settled(until[i], g[i], streak'[i], evicted[i], now)
  <2>1. /\ Len(failures[i]) < Threshold /\ Suffix(failures[i], streak[i])
        /\ Ordered(streak[i], now) /\ (blocked[i] # 0 => Earned(blocked[i], streak[i]))
        /\ Settled(blocked[i], failures[i], streak[i], evicted[i], now)
    BY HeldFacts DEF BreakerInv, MemoryOK
  <2>2. CASE i # ip
    BY <1>3, <1>4, <1>5, <2>1, <2>2
  <2>3. CASE i = ip /\ trips
    <3>1. Suffix(<<>>, s) /\ Len(<<>>) = 0
      BY <1>2, SuffixEmpty
    <3>2. Settled(now + Cooldown, <<>>, s, evicted[ip], now)
      <4>1. now \in Nat
        BY HeldFacts
      <4> QED
        BY <1>2, <4>1, SettledByBlock
    <3> QED
      BY <1>2, <1>3, <1>4, <1>5, <1>7, <2>3, <3>1, <3>2, BreakerConstants
  <2>4. CASE i = ip /\ ~trips
    <3>1. blocked[ip] # 0 => Earned(blocked[ip], s)
      BY <2>1, <2>4, EarnedAppend, HeldFacts DEF s
    <3> QED
      BY <1>2, <1>3, <1>4, <1>5, <1>8, <2>4, <3>1
  <2> QED
    BY <2>2, <2>3, <2>4
<1>12. MemoryOK(Held', now)
  <2>1. /\ Held'.blocked = blocked' /\ Held'.failures = failures' /\ Held'.streak = streak'
        /\ Held'.evicted = evicted' /\ Held' \in Memory
    <3>1. evicted' \in [IPs -> Nat]
      <4>1. \A i \in IPs : Len(streak'[i]) \in Nat
        BY <1>3
      <4> QED
        BY <1>1, <4>1, HeldFacts
    <3> QED
      BY <1>3, <1>6, <1>10, <3>1 DEF Held, Memory
  <2>2. ASSUME NEW i \in IPs
        PROVE  /\ Len(failures'[i]) < Threshold
               /\ Suffix(failures'[i], streak'[i])
               /\ Ordered(streak'[i], now)
               /\ blocked'[i] # 0 => Earned(blocked'[i], streak'[i])
               /\ Settled(blocked'[i], failures'[i], streak'[i], evicted'[i], now)
    <3>1. streak'[i] \in Seq(Nat) /\ Suffix(<<>>, streak'[i]) /\ Len(<<>>) = 0
      BY <1>3, SuffixEmpty
    <3>2. Len(failures'[i]) < Threshold /\ Suffix(failures'[i], streak'[i])
      BY <1>10, <1>11, <3>1, BreakerConstants
    <3>3. CASE failures'[i] = g[i]
      <4>1. /\ evicted'[i] = evicted[i] /\ g[i] \in Seq(Nat) /\ evicted[i] \in Nat
            /\ until[i] \in Nat /\ blocked'[i] \in Nat /\ now \in Nat
        BY <1>1, <1>4, <1>5, <1>6, <3>3, HeldFacts
      <4>2. Suffix(g[i], g[i]) /\ 1..(Len(g[i]) - Len(g[i])) = {}
        BY <4>1, SuffixSelf, ForgetNothing
      <4>3. Suffix(g[i], streak'[i]) /\ Settled(until[i], g[i], streak'[i], evicted[i], now)
        BY <1>11
      <4>4. blocked'[i] = until[i] \/ until[i] <= now
        BY <1>6
      <4>5. Settled(blocked'[i], g[i], streak'[i], evicted[i], now)
        BY <3>1, <4>1, <4>2, <4>3, <4>4, SettledForgets
      <4> QED
        BY <1>6, <1>11, <3>2, <3>3, <4>1, <4>5
    <3>4. CASE failures'[i] # g[i]
      <4>1. evicted'[i] = Len(streak'[i]) /\ Len(streak'[i]) \in Nat /\ Len(failures'[i]) \in Nat
        BY <1>1, <1>10, <3>1, <3>4
      <4>2. Settled(blocked'[i], failures'[i], streak'[i], evicted'[i], now)
        BY <4>1 DEF Settled
      <4> QED
        BY <1>6, <1>11, <3>2, <4>2
    <3> QED
      BY <3>3, <3>4
  <2> QED
    BY <1>10, <2>1, <2>2 DEF MemoryOK
<1>13. MemoryOK(disk', now) /\ lastSave' \in Nat /\ dirty' \in BOOLEAN /\ saved' \in BOOLEAN
  BY <1>1, <1>12, SaveKeepsDisk
<1>14. CleanMeansSaved'
  BY <1>1, <1>6, SaveKeepsClean
<1> QED
  BY <1>12, <1>13, <1>14 DEF BreakerInv

\* _load, of the state file or of none.
LEMMA LoadKeeps == ASSUME BreakerInv, Load, now' = now PROVE BreakerInv'
<1>1. PICK file \in {disk, NoFile} :
        /\ blocked' = [ip \in IPs |-> IF now < file.blocked[ip] THEN file.blocked[ip] ELSE 0]
        /\ failures' = [ip \in IPs |-> Within(file.failures[ip])]
        /\ streak' = file.streak /\ evicted' = file.evicted
  BY DEF Load
<1>2. MemoryOK(file, now) /\ now \in Nat
  BY NoFileOK DEF BreakerInv
<1>3. /\ file.blocked \in [IPs -> Nat] /\ file.failures \in [IPs -> Seq(Nat)]
      /\ file.streak \in [IPs -> Seq(Nat)]
  BY <1>2, MemoryFacts
<1>4. /\ blocked' \in [IPs -> Nat]
      /\ \A ip \in IPs : \/ blocked'[ip] = file.blocked[ip]
                         \/ blocked'[ip] = 0 /\ file.blocked[ip] <= now
  BY <1>1, <1>2, <1>3
<1>5. ASSUME NEW ip \in IPs
      PROVE  /\ Within(file.failures[ip]) \in Seq(Nat)
             /\ Suffix(Within(file.failures[ip]), file.failures[ip])
             /\ \A i \in 1..(Len(file.failures[ip]) - Len(Within(file.failures[ip]))) :
                    file.failures[ip][i] + Cooldown <= now
  <2>1. file.failures[ip] \in Seq(Nat) /\ file.streak[ip] \in Seq(Nat)
    BY <1>3
  <2>2. Suffix(file.failures[ip], file.streak[ip]) /\ Ordered(file.streak[ip], now)
    BY <1>2 DEF MemoryOK
  <2>3. Ordered(file.failures[ip], now)
    BY <1>2, <2>1, <2>2, OrderedSuffix
  <2> QED
    BY <1>2, <2>1, <2>3, WithinProperties
<1>6. /\ failures' \in [IPs -> Seq(Nat)]
      /\ \A ip \in IPs : /\ Suffix(failures'[ip], file.failures[ip])
                         /\ \A i \in 1..(Len(file.failures[ip]) - Len(failures'[ip])) :
                                file.failures[ip][i] + Cooldown <= now
  BY <1>1, <1>5
<1>7. MemoryOK(Held', now)
  <2>1. Held' = [blocked |-> blocked', failures |-> failures', streak |-> file.streak,
                 evicted |-> file.evicted]
    BY <1>1 DEF Held
  <2> QED
    BY <1>2, <1>4, <1>6, <2>1, MemoryForgets
<1>8. CleanMeansSaved'
  <2>1. ASSUME NEW ip \in IPs, now <= blocked'[ip] PROVE disk.blocked[ip] = blocked'[ip]
    <3>1. CASE file = disk
      BY <1>1, <1>3, <2>1, <3>1, HeldFacts
    <3>2. CASE file = NoFile
      <4>1. blocked'[ip] = 0
        BY <1>1, <3>2 DEF NoFile, Zero
      <4> QED
        BY <2>1, <4>1, HeldFacts
    <3> QED
      BY <3>1, <3>2
  <2>2. ASSUME NEW ip \in IPs PROVE Elements(failures'[ip]) \subseteq Elements(disk.failures[ip])
    <3>1. /\ failures'[ip] \in Seq(Nat) /\ file.failures[ip] \in Seq(Nat)
          /\ Suffix(failures'[ip], file.failures[ip])
      BY <1>3, <1>6
    <3>2. Elements(failures'[ip]) \subseteq Elements(file.failures[ip])
      BY <3>1, SuffixElements
    <3>3. CASE file = NoFile
      <4>1. file.failures[ip] = <<>>
        BY <3>3 DEF NoFile, Empty
      <4> QED
        BY <3>2, <4>1, NoFailures
    <3> QED
      BY <3>2, <3>3
  <2>3. UNCHANGED disk
    BY DEF Load
  <2> QED
    BY <2>1, <2>2, <2>3 DEF CleanMeansSaved, InForce
<1> QED
  BY <1>7, <1>8 DEF BreakerInv, Load

\* Every step of the breaker.
LEMMA BreakerStep == ASSUME BreakerInv, [BreakerNext]_<<now, breaker>> PROVE BreakerInv'
<1>1. CASE now' = now + 1 /\ UNCHANGED breaker
  <2>1. UNCHANGED Held /\ now' \in Nat /\ now' > 0 /\ now <= now'
    BY <1>1, HeldFacts DEF Held, breaker
  <2>2. MemoryOK(Held, now') /\ MemoryOK(disk, now')
    BY <2>1, HeldFacts, MemoryAges DEF BreakerInv
  <2>3. CleanMeansSaved'
    <3>1. ASSUME NEW ip \in IPs, now' <= blocked[ip] PROVE now <= blocked[ip]
      BY <2>1, <3>1, HeldFacts
    <3> QED
      BY <1>1, <3>1 DEF BreakerInv, CleanMeansSaved, InForce, breaker
  <2>4. MemoryOK(Held, now)' /\ MemoryOK(disk, now)'
    BY <1>1, <2>1, <2>2 DEF breaker
  <2> QED
    BY <1>1, <2>1, <2>3, <2>4 DEF BreakerInv, breaker
<1>2. CASE Load /\ now' = now
  BY <1>2, LoadKeeps
<1>3. ASSUME NEW ip \in IPs, Operation(ip), now' = now PROVE BreakerInv'
  BY <1>3, CheckBlockedKeeps, RecordFailureKeeps, RecordSuccessKeeps DEF Operation
<1>4. CASE UNCHANGED <<now, breaker>>
  BY <1>4 DEF BreakerInv, MemoryOK, Held, CleanMeansSaved, InForce, breaker
<1> QED
  BY <1>1, <1>2, <1>3, <1>4 DEF BreakerNext

\* What the invariant is for.
LEMMA BreakerInvImplies ==
    ASSUME BreakerInv PROVE BreakerTypeOK /\ BlockIsEarned /\ FailuresBlock /\ CleanMeansSaved
<1>1. BreakerTypeOK
  <2>1. Held \in Memory /\ disk \in Memory
    BY DEF BreakerInv, MemoryOK
  <2>2. \A ip \in IPs : Len(failures[ip]) < Threshold
    BY HeldFacts DEF BreakerInv, MemoryOK
  <2>3. Cardinality({ip \in IPs : failures[ip] # <<>>}) <= MaxEntries
    BY HeldFacts DEF BreakerInv, MemoryOK, Tracked
  <2> QED
    BY <2>1, <2>2, <2>3 DEF BreakerInv, BreakerTypeOK, Held
<1>2. BlockIsEarned
  <2>1. ASSUME NEW ip \in IPs, blocked[ip] # 0
        PROVE  Cardinality({i \in DOMAIN streak[ip] : streak[ip][i] <= blocked[ip] - Cooldown
                   /\ blocked[ip] - Cooldown - streak[ip][i] < Window}) >= Threshold
    <3>1. Earned(blocked[ip], streak[ip]) /\ streak[ip] \in Seq(Nat)
      BY <2>1, HeldFacts DEF BreakerInv, MemoryOK
    <3>2. DOMAIN streak[ip] = 1..Len(streak[ip])
      BY <3>1
    <3> QED
      BY <3>1, <3>2 DEF Earned, Counted
  <2> QED
    BY <2>1 DEF BlockIsEarned
<1>3. ASSUME NEW ip \in IPs, Dead(ip) PROVE InForce(ip)
  <2> DEFINE n == Len(streak[ip])
             j == n - Threshold + 1
  <2>1. /\ streak[ip] \in Seq(Nat) /\ failures[ip] \in Seq(Nat) /\ evicted[ip] \in Nat
        /\ blocked[ip] \in Nat /\ now \in Nat
    BY HeldFacts
  <2>2. /\ Len(failures[ip]) < Threshold
        /\ Settled(blocked[ip], failures[ip], streak[ip], evicted[ip], now)
    BY HeldFacts DEF BreakerInv, MemoryOK
  <2>3. n >= evicted[ip] + Threshold /\ streak[ip][j] + Cooldown > now
    BY <1>3 DEF Dead
  <2>4. n \in Nat /\ Len(failures[ip]) \in Nat
    BY <2>1
  <2>5. j \in 1..n /\ j \in 1..(n - Len(failures[ip])) /\ j > evicted[ip]
    <3>1. ASSUME NEW x \in Nat, NEW y \in Nat, NEW e \in Nat, y < Threshold, x >= e + Threshold,
                 NEW z, z = x - Threshold + 1
          PROVE  z \in 1..x /\ z \in 1..(x - y) /\ z > e
      BY <3>1, BreakerConstants
    <3>2. j = n - Threshold + 1
      OBVIOUS
    <3> HIDE DEF n, j
    <3> QED
      BY <2>1, <2>2, <2>3, <2>4, <3>1, <3>2
  <2>6. streak[ip][j] \in Nat
    BY <2>1, <2>5
  <2>7. streak[ip][j] + Cooldown <= now \/ streak[ip][j] + Cooldown <= blocked[ip]
    BY <2>2, <2>5 DEF Settled
  <2> HIDE DEF j
  <2> QED
    BY <2>1, <2>3, <2>6, <2>7, BreakerConstants, SMTT(30) DEF InForce
<1> QED
  BY <1>1, <1>2, <1>3 DEF BreakerInv, FailuresBlock

\* The breaker's state has the types and the bounds of circuit_breaker.py, in memory and in
\* the file.
THEOREM BreakerTypeCorrect == BreakerSpec => []BreakerTypeOK
<1>1. BreakerInit => BreakerInv
  BY BreakerInitHolds
<1>2. BreakerInv /\ [BreakerNext]_<<now, breaker>> => BreakerInv'
  BY BreakerStep
<1>3. BreakerInv => BreakerTypeOK
  BY BreakerInvImplies
<1> QED
  BY <1>1, <1>2, <1>3, PTL DEF BreakerSpec

\* An address is blocked only for Threshold failures within the window without a success in
\* between, whatever record_failure, _prune, save and _load did meanwhile.
THEOREM BlocksAreEarned == BreakerSpec => []BlockIsEarned
<1>1. BreakerInit => BreakerInv
  BY BreakerInitHolds
<1>2. BreakerInv /\ [BreakerNext]_<<now, breaker>> => BreakerInv'
  BY BreakerStep
<1>3. BreakerInv => BlockIsEarned
  BY BreakerInvImplies
<1> QED
  BY <1>1, <1>2, <1>3, PTL DEF BreakerSpec

\* The last Threshold dials of an address that ended, all of them within the last Cooldown,
\* failed: it is refused, whatever expired, was saved and was loaded since, except for what
\* an eviction forgot.
THEOREM FailuresDoBlock == BreakerSpec => []FailuresBlock
<1>1. BreakerInit => BreakerInv
  BY BreakerInitHolds
<1>2. BreakerInv /\ [BreakerNext]_<<now, breaker>> => BreakerInv'
  BY BreakerStep
<1>3. BreakerInv => FailuresBlock
  BY BreakerInvImplies
<1> QED
  BY <1>1, <1>2, <1>3, PTL DEF BreakerSpec

\* What _save_dirty does not mark is in the state file, unless the last save failed.
THEOREM CleanIsSaved == BreakerSpec => []CleanMeansSaved
<1>1. BreakerInit => BreakerInv
  BY BreakerInitHolds
<1>2. BreakerInv /\ [BreakerNext]_<<now, breaker>> => BreakerInv'
  BY BreakerStep
<1>3. BreakerInv => CleanMeansSaved
  BY BreakerInvImplies
<1> QED
  BY <1>1, <1>2, <1>3, PTL DEF BreakerSpec
-----------------------------------------------------------------------------
(* The router.                                                               *)

\* One operator's worth of typing for the two caches and the calls.
CacheOK(f, max) == IsFiniteSet(DOMAIN f) /\ Cardinality(DOMAIN f) <= max

RouterInv ==
    /\ BreakerInv
    /\ \E D \in SUBSET Names : dns \in [D -> [exp: Nat, ip: IPs]]
    /\ \E D \in SUBSET Hosts : proxyFail \in [D -> Nat]
    /\ CacheOK(dns, DnsMax) /\ CacheOK(proxyFail, FailMax)
    /\ call \in [Calls -> States]

\* What a call's state tells of its fields.
LEMMA CallKinds ==
    ASSUME NEW s \in States
    PROVE  /\ s.at = "resolving" => s.host \in Hosts \cap Names /\ s.rule \in {"DIRECT", None}
           /\ s.at = "dialling" => s.host \in Hosts /\ s.ip \in IPs \cup {None}
           /\ s.at \in {"proxying", "retrying"} =>
                /\ s.host \in Hosts /\ s.began \in Nat
                /\ s \in [at: {"proxying", "retrying"}, host: Hosts, began: Nat]
           /\ s.at = "streaming" => s.host \in Hosts
<1>1. CASE s \in [at: {"idle"}]
  BY <1>1
<1>2. CASE s \in [at: {"resolving"}, host: Hosts \cap Names, rule: {"DIRECT", None}]
  BY <1>2
<1>3. CASE s \in [at: {"dialling"}, host: Hosts, ip: IPs \cup {None}]
  BY <1>3
<1>4. CASE s \in [at: {"proxying", "retrying"}, host: Hosts, began: Nat]
  BY <1>4
<1>5. CASE s \in [at: {"streaming"}, host: Hosts]
  BY <1>5
<1> QED
  BY <1>1, <1>2, <1>3, <1>4, <1>5 DEF States

\* The address a call knows is an address, or none.
LEMMA KnownFacts ==
    ASSUME RouterInv, NEW h PROVE Known(h) \in IPs \cup {None}
<1>1. PICK D \in SUBSET Names : dns \in [D -> [exp: Nat, ip: IPs]]
  BY DEF RouterInv
<1>2. CASE Cached(h)
  BY <1>1, <1>2 DEF Known, Cached
<1> QED
  BY <1>2 DEF Known

\* The breaker as a call leaves it: untouched, or after one operation on an address.
Consulted == UNCHANGED breaker \/ \E ip \in IPs : Operation(ip)

\* A call's next state: of a known kind, and a dial only to an address not in force.
Admitted(s) == s \in States /\ (s.at = "dialling" => s.ip = None \/ ~InForce(s.ip))

Moves(c) == \E s : Goes(c, s) /\ Admitted(s)

\* Anything but a dial is admitted.
LEMMA AdmittedStates ==
    /\ Admitted(Idle)
    /\ \A h \in Hosts \cap Names, r \in {"DIRECT", None} :
          Admitted([at |-> "resolving", host |-> h, rule |-> r])
    /\ \A h \in Hosts :
          /\ Admitted([at |-> "dialling", host |-> h, ip |-> None])
          /\ Admitted([at |-> "streaming", host |-> h])
          /\ \A ip \in IPs : ~InForce(ip) => Admitted([at |-> "dialling", host |-> h, ip |-> ip])
          /\ \A b \in Nat, a \in {"proxying", "retrying"} :
                Admitted([at |-> a, host |-> h, began |-> b])
<1>1. Admitted(Idle)
  BY DEF Admitted, States, Idle
<1>2. ASSUME NEW h \in Hosts \cap Names, NEW r \in {"DIRECT", None}
      PROVE  Admitted([at |-> "resolving", host |-> h, rule |-> r])
  BY DEF Admitted, States
<1>3. ASSUME NEW h \in Hosts, NEW ip \in IPs \cup {None}, ip = None \/ ~InForce(ip)
      PROVE  Admitted([at |-> "dialling", host |-> h, ip |-> ip])
  BY <1>3 DEF Admitted, States
<1>4. ASSUME NEW h \in Hosts PROVE Admitted([at |-> "streaming", host |-> h])
  BY DEF Admitted, States
<1>5. ASSUME NEW h \in Hosts, NEW b \in Nat, NEW a \in {"proxying", "retrying"}
      PROVE  Admitted([at |-> a, host |-> h, began |-> b])
  BY DEF Admitted, States
<1> QED
  BY <1>1, <1>2, <1>3, <1>4, <1>5

\* A decision consults the breaker at most once and moves the call.
LEMMA PerformMoves ==
    ASSUME RouterInv, NEW c \in Calls, NEW h \in Hosts, NEW ip \in IPs \cup {None},
           NEW action, Perform(c, h, ip, action)
    PROVE  Consulted /\ Moves(c)
<1>1. CASE Goes(c, Idle) /\ UNCHANGED breaker
  BY <1>1, AdmittedStates DEF Consulted, Moves
<1>2. CASE Direct(c, h, ip)
  <2>1. CASE ip = None
    BY <1>2, <2>1, AdmittedStates DEF Direct, Consulted, Moves
  <2>2. CASE ip # None
    <3>1. CheckBlocked(ip) /\ ip \in IPs
      BY <1>2, <2>2 DEF Direct
    <3>2. CASE InForce(ip)
      BY <1>2, <2>2, <3>1, <3>2, AdmittedStates DEF Direct, Consulted, Moves, Operation
    <3>3. CASE ~InForce(ip)
      BY <1>2, <2>2, <3>1, <3>3, AdmittedStates DEF Direct, Consulted, Moves, Operation
    <3> QED
      BY <3>2, <3>3
  <2> QED
    BY <2>1, <2>2
<1>3. CASE Proxy(c, h)
  <2>1. now \in Nat
    BY HeldFacts DEF RouterInv
  <2>2. Admitted([at |-> "proxying", host |-> h, began |-> now])
    BY <2>1, AdmittedStates
  <2> QED
    BY <1>3, <2>2, AdmittedStates DEF Proxy, Consulted, Moves
<1> QED
  BY <1>1, <1>2, <1>3 DEF Perform

\* Names and addresses are hosts: what is looked up is asked for.
LEMMA HandlerMoves ==
    ASSUME RouterInv, NEW c \in Calls, Handler(c)
    PROVE  now' = now /\ Consulted /\ Moves(c)
<1> DEFINE s == call[c]
<1>0. s \in States /\ now \in Nat
  BY HeldFacts DEF RouterInv
<1>1. ASSUME NEW h \in Hosts, Route(c, h) PROVE Consulted /\ Moves(c)
  <2>1. PICK rule \in Actions \cup {None} :
          IF Known(h) = None /\ rule \in {"DIRECT", None}
          THEN Goes(c, [at |-> "resolving", host |-> h, rule |-> rule]) /\ UNCHANGED breaker
          ELSE Decide(c, h, Known(h), rule)
    BY <1>1 DEF Route
  <2>2. CASE Known(h) = None /\ rule \in {"DIRECT", None}
    <3>1. h \in Names
      BY <2>2, RouterAssumption DEF Known
    <3> QED
      BY <2>1, <2>2, <3>1, AdmittedStates DEF Consulted, Moves
  <2>3. CASE Decide(c, h, Known(h), rule)
    BY <2>3, KnownFacts, PerformMoves DEF Decide
  <2> QED
    BY <2>1, <2>2, <2>3
<1>2. CASE Resolved(c)
  <2>1. s.host \in Hosts
    BY <1>0, <1>2, CallKinds, RouterAssumption DEF Resolved
  <2> QED
    BY <1>2, <2>1, PerformMoves DEF Resolved, Decide
<1>3. ASSUME s.at \in {"dialling", "proxying", "retrying", "streaming"}
      PROVE  s.host \in Hosts
  BY <1>0, <1>3, CallKinds
<1>4. CASE Connected(c)
  <2>1. s.host \in Hosts /\ s.ip \in IPs \cup {None}
    BY <1>0, <1>4, CallKinds DEF Connected
  <2>2. Moves(c)
    BY <1>4, <2>1, AdmittedStates DEF Connected, Streaming, Moves
  <2> QED
    BY <1>4, <2>1, <2>2 DEF Connected, Consulted, Operation
<1>5. CASE DialFails(c)
  <2>1. s.ip \in IPs \cup {None}
    BY <1>0, <1>5, CallKinds DEF DialFails
  <2> QED
    BY <1>5, <2>1, AdmittedStates DEF DialFails, Consulted, Moves, Operation
<1>6. CASE Opened(c)
  BY <1>3, <1>6, AdmittedStates DEF Opened, InProxy, Streaming, Consulted, Moves
<1>7. CASE Uncarried(c)
  <2>1. s \in [at: {"proxying", "retrying"}, host: Hosts, began: Nat]
    BY <1>0, <1>7, CallKinds DEF Uncarried, InProxy
  <2>2. [s EXCEPT !.at = "retrying"] = [at |-> "retrying", host |-> s.host, began |-> s.began]
    BY <2>1
  <2>3. Admitted([s EXCEPT !.at = "retrying"])
    BY <2>1, <2>2, AdmittedStates, ZenonT(40)
  <2> QED
    BY <1>7, <2>3, AdmittedStates DEF Uncarried, Consulted, Moves
<1>8. CASE Rejected(c)
  BY <1>8, AdmittedStates DEF Rejected, Consulted, Moves
<1>9. CASE StreamEnds(c)
  <2>1. Known(s.host) # None => Known(s.host) \in IPs
    BY KnownFacts
  <2> QED
    BY <1>9, <2>1, AdmittedStates DEF StreamEnds, Consulted, Moves, Operation
<1>10. now' = now
  BY DEF Handler, Route, Resolved, Connected, DialFails, Opened, Uncarried, Rejected, StreamEnds
<1> QED
  BY <1>1, <1>2, <1>4, <1>5, <1>6, <1>7, <1>8, <1>9, <1>10 DEF Handler
-----------------------------------------------------------------------------
\* A pruned cache holds entries it had, no more than its limit.
LEMMA KeptProperties ==
    ASSUME NEW exp, NEW max \in Nat, IsFiniteSet(DOMAIN exp), NEW K \in Kept(exp, max)
    PROVE  K \subseteq DOMAIN exp /\ IsFiniteSet(K) /\ Cardinality(K) <= max
<1> DEFINE live == {x \in DOMAIN exp : now < exp[x]}
<1>1. K \subseteq DOMAIN exp /\ Cardinality(K) <= max
  BY DEF Kept
<1> QED
  BY <1>1, FS_Subset

\* An entry more, and the cache pruned.
LEMMA PrunedProperties ==
    ASSUME NEW f, NEW S, NEW T, NEW D \in SUBSET S, f \in [D -> T], IsFiniteSet(D),
           NEW x \in S, NEW v \in T, NEW max \in Nat, NEW exp, DOMAIN exp = DOMAIN Set(f, x, v),
           NEW K \in Kept(exp, max)
    PROVE  /\ \E E \in SUBSET S : Restrict(Set(f, x, v), K) \in [E -> T]
           /\ CacheOK(Restrict(Set(f, x, v), K), max)
<1>1. /\ DOMAIN f = D /\ DOMAIN Set(f, x, v) = D \cup {x}
      /\ \A y \in D \cup {x} : Set(f, x, v)[y] \in T
  BY DEF Set
<1>2. IsFiniteSet(D \cup {x})
  BY FS_AddElement
<1>3. K \subseteq D \cup {x} /\ IsFiniteSet(K) /\ Cardinality(K) <= max
  BY <1>1, <1>2, KeptProperties
<1>4. Restrict(Set(f, x, v), K) \in [K -> T] /\ DOMAIN Restrict(Set(f, x, v), K) = K
  BY <1>1, <1>3 DEF Restrict
<1> QED
  BY <1>3, <1>4 DEF CacheOK

\* A lookup drops at most an entry.
LEMMA LookupKeeps ==
    ASSUME RouterInv, NEW h
    PROVE  /\ \E D \in SUBSET Names : Lookup(h) \in [D -> [exp: Nat, ip: IPs]]
           /\ CacheOK(Lookup(h), DnsMax)
<1>1. PICK D \in SUBSET Names : dns \in [D -> [exp: Nat, ip: IPs]]
  BY DEF RouterInv
<1>2. CASE Lookup(h) = dns
  BY <1>1, <1>2 DEF RouterInv
<1>3. CASE Lookup(h) = Restrict(dns, DOMAIN dns \ {h})
  <2>1. /\ Lookup(h) \in [D \ {h} -> [exp: Nat, ip: IPs]] /\ DOMAIN Lookup(h) = D \ {h}
        /\ DOMAIN dns = D
    BY <1>1, <1>3 DEF Restrict
  <2>2. IsFiniteSet(D) /\ Cardinality(D) <= DnsMax
    BY <2>1 DEF RouterInv, CacheOK
  <2>3. IsFiniteSet(D \ {h}) /\ Cardinality(D \ {h}) <= Cardinality(D)
    BY <2>2, FS_Subset
  <2>4. Cardinality(D \ {h}) <= DnsMax
    BY <2>2, <2>3, FS_CardinalityType, RouterAssumption
  <2> QED
    BY <2>1, <2>3, <2>4 DEF CacheOK
<1> QED
  BY <1>2, <1>3 DEF Lookup

\* The DNS cache stays within its limit.
LEMMA DnsKept ==
    ASSUME RouterInv, NEW c \in Calls, Handler(c)
    PROVE  /\ \E D \in SUBSET Names : dns' \in [D -> [exp: Nat, ip: IPs]]
           /\ CacheOK(dns', DnsMax)
<1>0. now \in Nat /\ call[c] \in States
  BY HeldFacts DEF RouterInv
<1>1. CASE dns' = dns
  BY <1>1 DEF RouterInv
<1>2. ASSUME NEW h, dns' = Lookup(h)
      PROVE  /\ \E D \in SUBSET Names : dns' \in [D -> [exp: Nat, ip: IPs]]
             /\ CacheOK(dns', DnsMax)
  BY <1>2, LookupKeeps
<1>3. ASSUME Resolved(c), dns' # dns
      PROVE  /\ \E D \in SUBSET Names : dns' \in [D -> [exp: Nat, ip: IPs]]
             /\ CacheOK(dns', DnsMax)
  <2> DEFINE h == call[c].host
             d(ip) == Set(dns, h, [exp |-> now + DnsTTL, ip |-> ip])
             exp(ip) == [x \in DOMAIN d(ip) |-> d(ip)[x].exp]
  <2>1. PICK ip \in IPs : \E K \in Kept(exp(ip), DnsMax) : dns' = Restrict(d(ip), K)
    BY <1>3 DEF Resolved
  <2>2. PICK D \in SUBSET Names : dns \in [D -> [exp: Nat, ip: IPs]]
    BY DEF RouterInv
  <2>3. h \in Names
    BY <1>0, <1>3, CallKinds DEF Resolved
  <2>4. [exp |-> now + DnsTTL, ip |-> ip] \in [exp: Nat, ip: IPs]
    BY <1>0, RouterAssumption
  <2>5. IsFiniteSet(D)
    BY <2>2 DEF RouterInv, CacheOK
  <2>6. DOMAIN exp(ip) = DOMAIN d(ip) /\ DnsMax \in Nat
    BY RouterAssumption
  <2>7. PICK K \in Kept(exp(ip), DnsMax) : dns' = Restrict(d(ip), K)
    BY <2>1
  <2> DEFINE v == [exp |-> now + DnsTTL, ip |-> ip]
             e == exp(ip)
  <2>8. d(ip) = Set(dns, h, v) /\ DOMAIN e = DOMAIN Set(dns, h, v) /\ v \in [exp: Nat, ip: IPs]
        /\ K \in Kept(e, DnsMax) /\ dns' = Restrict(Set(dns, h, v), K)
    BY <2>4, <2>6, <2>7
  <2> DEFINE T == [exp: Nat, ip: IPs]
  <2>9. dns \in [D -> T] /\ v \in T
    BY <2>2, <2>8
  <2> HIDE DEF h, d, exp, v, e, T
  <2>10. /\ \E E \in SUBSET Names : Restrict(Set(dns, h, v), K) \in [E -> T]
         /\ CacheOK(Restrict(Set(dns, h, v), K), DnsMax)
    BY <2>3, <2>5, <2>6, <2>8, <2>9, PrunedProperties
  <2> QED
    BY <2>8, <2>10 DEF T
<1> QED
  BY <1>1, <1>2, <1>3
     DEF Handler, Route, Resolved, Connected, DialFails, Opened, Uncarried, Rejected, StreamEnds

\* So does the cache of targets the server could not reach.
LEMMA FailsKept ==
    ASSUME RouterInv, NEW c \in Calls, Handler(c)
    PROVE  /\ \E D \in SUBSET Hosts : proxyFail' \in [D -> Nat]
           /\ CacheOK(proxyFail', FailMax)
<1>1. CASE proxyFail' = proxyFail
  BY <1>1 DEF RouterInv
<1>2. CASE Rejected(c)
  <2> DEFINE h == call[c].host
             v == call[c].began + FailTTL
             f == Set(proxyFail, h, v)
  <2>1. PICK K \in Kept(f, FailMax) : proxyFail' = Restrict(f, K)
    BY <1>2 DEF Rejected
  <2>2. PICK D \in SUBSET Hosts : proxyFail \in [D -> Nat]
    BY DEF RouterInv
  <2>3. call[c] \in States
    BY DEF RouterInv
  <2>4. h \in Hosts /\ v \in Nat
    BY <1>2, <2>3, CallKinds, RouterAssumption DEF Rejected, InProxy
  <2>5. IsFiniteSet(D) /\ FailMax \in Nat
    BY <2>2, RouterAssumption DEF RouterInv, CacheOK
  <2> HIDE DEF h, v
  <2> QED
    BY <2>1, <2>2, <2>4, <2>5, PrunedProperties, ZenonT(40)
<1> QED
  BY <1>1, <1>2
     DEF Handler, Route, Resolved, Connected, DialFails, Opened, Uncarried, Rejected, StreamEnds

\* What a handler does to the breaker is one operation of it, or nothing.
LEMMA ConsultedStep ==
    ASSUME Consulted, now' = now PROVE [BreakerNext]_<<now, breaker>>
  BY DEF Consulted, BreakerNext

\* The first state of the router.
LEMMA RouterInitHolds == ASSUME Init PROVE RouterInv
<1>1. dns = <<>> /\ proxyFail = <<>> /\ DOMAIN <<>> = {}
  BY DEF Init
<1>2. dns \in [{} -> [exp: Nat, ip: IPs]] /\ proxyFail \in [{} -> Nat]
  BY <1>1
<1>3. CacheOK(dns, DnsMax) /\ CacheOK(proxyFail, FailMax)
  BY <1>1, FS_EmptySet, RouterAssumption DEF CacheOK
<1>4. call \in [Calls -> States]
  BY DEF Init, Idle, States
<1> QED
  BY <1>2, <1>3, <1>4, BreakerInitHolds DEF Init, RouterInv

\* Every step of the router.
LEMMA RouterStep ==
    ASSUME RouterInv, [Next]_vars
    PROVE  RouterInv' /\ [BreakerNext]_<<now, breaker>>
<1>1. CASE Tick
  <2>1. [BreakerNext]_<<now, breaker>> /\ UNCHANGED <<dns, proxyFail, call>>
    BY <1>1 DEF Tick, BreakerNext
  <2> QED
    BY <2>1, BreakerStep DEF RouterInv, CacheOK
<1>2. CASE Restart
  <2>1. [BreakerNext]_<<now, breaker>>
    BY <1>2 DEF Restart, BreakerNext
  <2>2. dns' = <<>> /\ proxyFail' = <<>> /\ DOMAIN <<>> = {}
    BY <1>2 DEF Restart
  <2>3. dns' \in [{} -> [exp: Nat, ip: IPs]] /\ proxyFail' \in [{} -> Nat]
    BY <2>2
  <2>4. CacheOK(dns', DnsMax) /\ CacheOK(proxyFail', FailMax)
    BY <2>2, FS_EmptySet, RouterAssumption DEF CacheOK
  <2>5. call' \in [Calls -> States]
    BY <1>2 DEF Restart, Idle, States
  <2>6. BreakerInv'
    BY <2>1, BreakerStep DEF RouterInv
  <2> QED
    BY <2>1, <2>3, <2>4, <2>5, <2>6 DEF RouterInv, CacheOK
<1>3. ASSUME NEW c \in Calls, Handler(c)
      PROVE  RouterInv' /\ [BreakerNext]_<<now, breaker>>
  <2>1. [BreakerNext]_<<now, breaker>>
    BY <1>3, HandlerMoves, ConsultedStep
  <2>2. BreakerInv'
    BY <2>1, BreakerStep DEF RouterInv
  <2>3. call' \in [Calls -> States]
    BY <1>3, HandlerMoves DEF Moves, Admitted, Goes, RouterInv
  <2> QED
    BY <1>3, <2>1, <2>2, <2>3, DnsKept, FailsKept DEF RouterInv, CacheOK
<1>4. CASE UNCHANGED vars
  <2>1. UNCHANGED <<now, breaker>> /\ UNCHANGED <<dns, proxyFail, call>>
    BY <1>4 DEF vars
  <2> QED
    BY <2>1, BreakerStep DEF RouterInv, CacheOK
<1> QED
  BY <1>1, <1>2, <1>3, <1>4 DEF Next

\* The calls, the two caches within DNS_CACHE_MAX and PROXY_FAIL_MAX, and the breaker have
\* the types router.py gives them.
THEOREM RouterTypeCorrect == SafeSpec => []TypeOK
<1>1. Init => RouterInv
  BY RouterInitHolds
<1>2. RouterInv /\ [Next]_vars => RouterInv'
  BY RouterStep
<1>3. RouterInv => TypeOK
  BY BreakerInvImplies DEF RouterInv, CacheOK, TypeOK
<1> QED
  BY <1>1, <1>2, <1>3, PTL DEF SafeSpec

\* The router uses the breaker as BreakerSpec lets anyone use it, so that what is proved of
\* the breaker holds in the client.
THEOREM RouterUsesBreaker == SafeSpec => BreakerSpec
<1>1. Init => RouterInv /\ BreakerInit
  BY RouterInitHolds DEF Init
<1>2. RouterInv /\ [Next]_vars => RouterInv' /\ [BreakerNext]_<<now, breaker>>
  BY RouterStep
<1> QED
  BY <1>1, <1>2, PTL DEF SafeSpec, BreakerSpec

\* No call starts to dial an address that is known as dead, be it that the address was asked
\* for, was cached, or was looked up while other calls failed on it.
THEOREM DeadIsRefused == SafeSpec => DeadNotDialled
<1> DEFINE Refused == \A ip \in IPs :
               Dead(ip) /\ Dials(ip)' # {} => Dials(ip)' \subseteq Dials(ip)
<1>1. Init => RouterInv
  BY RouterInitHolds
<1>2. RouterInv /\ [Next]_vars => RouterInv'
  BY RouterStep
<1>3. ASSUME RouterInv, [Next]_vars PROVE [Refused]_vars
  <2>1. ASSUME NEW ip \in IPs, Dead(ip), NEW d \in Dials(ip)' PROVE d \in Dials(ip)
    <3>6. InForce(ip)
      BY <1>3, <2>1, BreakerInvImplies DEF RouterInv, FailuresBlock
    <3>1. d \in Calls /\ call'[d].at = "dialling" /\ call'[d].ip = ip
      BY <2>1 DEF Dials
    <3>2. CASE call'[d] = call[d]
      BY <3>1, <3>2 DEF Dials
    <3>3. ASSUME NEW c \in Calls, Handler(c) PROVE call'[d] = call[d]
      <4>1. PICK s : Goes(c, s) /\ Admitted(s)
        BY <1>3, <3>3, HandlerMoves DEF Moves
      <4>2. d # c
        <5>1. d = c => call'[d] = s
          BY <1>3, <4>1 DEF Goes, RouterInv
        <5>2. ip # None
          BY RouterAssumption
        <5> QED
          BY <3>1, <3>6, <4>1, <5>1, <5>2 DEF Admitted
      <4> QED
        BY <1>3, <3>1, <4>1, <4>2 DEF Goes, RouterInv
    <3>4. CASE Tick \/ UNCHANGED vars
      BY <3>2, <3>4 DEF Tick, vars
    <3>5. CASE Restart
      BY <3>1, <3>5 DEF Restart, Idle
    <3> QED
      BY <1>3, <3>2, <3>3, <3>4, <3>5 DEF Next
  <2> QED
    BY <2>1
<1>4. SafeSpec => [][Refused]_vars
  BY <1>1, <1>2, <1>3, PTL DEF SafeSpec
<1> QED
  BY <1>4 DEF DeadNotDialled
-----------------------------------------------------------------------------
(* The streams.                                                              *)

\* s holds the bytes after a and up to b, in order and without a gap.
Run(s, a, b) ==
    /\ s \in Seq(Chunks)
    /\ \A i \in 1..Len(s) : s[i][1] = (IF i = 1 THEN a ELSE s[i-1][2]) + 1
    /\ b = IF s = <<>> THEN a ELSE s[Len(s)][2]

\* The last byte that has left the queue.
Taken == IF leftover = <<>> THEN LastByte(got) ELSE leftover[1][2]

\* The bytes accepted, in three pieces: returned, left over and queued; and where the
\* reader is tells what is empty.
StreamInv ==
    /\ StreamTypeOK
    /\ Run(got, 0, LastByte(got))
    /\ Run(leftover, LastByte(got), Taken)
    /\ Run(Data(queue), Taken, arrived)
    /\ ~closed => Data(queue) = queue
    /\ buffered = arrived - LastByte(got) /\ buffered <= MaxBuffer
    /\ waiting # 0 => leftover = <<>> /\ ~ended
    /\ ended => closed /\ queue = <<>> /\ leftover = <<>>

\* A chunk is an interval of byte numbers, and no EOF.
LEMMA ChunkFacts == ASSUME NEW c \in Chunks
    PROVE  /\ c[1] \in 1..MaxBytes /\ c[2] \in 1..MaxBytes /\ c[1] <= c[2]
           /\ c = <<c[1], c[2]>> /\ c # EOF
  BY BufferAssumption DEF Chunks, EOF

\* A run of no chunks, and of one.
LEMMA RunEmpty == ASSUME NEW a \in Nat PROVE Run(<<>>, a, a)
  BY DEF Run

\* A chunk is a run of its own bytes.
LEMMA RunSingle == ASSUME NEW c \in Chunks PROVE Run(<<c>>, c[1] - 1, c[2])
<1>1. c[1] \in Nat /\ c[2] \in Nat
  BY ChunkFacts, BufferAssumption
<1>2. <<c>> \in Seq(Chunks) /\ Len(<<c>>) = 1 /\ <<c>>[1] = c /\ <<c>> # <<>>
  OBVIOUS
<1> QED
  BY <1>1, <1>2 DEF Run

\* The ends of a run are numbers.
LEMMA RunEnds == ASSUME NEW s, NEW a \in Nat, NEW b, Run(s, a, b) PROVE b \in Nat
  BY ChunkFacts, BufferAssumption DEF Run

\* A run from the first byte ends with the last byte of its last chunk.
LEMMA RunLast == ASSUME NEW s, NEW b, Run(s, 0, b) PROVE b = LastByte(s)
  BY DEF Run, LastByte

\* Two runs that meet are one.
LEMMA RunConcat ==
    ASSUME NEW s, NEW t, NEW a \in Nat, NEW b, NEW c, Run(s, a, b), Run(t, b, c)
    PROVE  Run(s \o t, a, c)
<1>1. s \in Seq(Chunks) /\ t \in Seq(Chunks) /\ Len(s) \in Nat /\ Len(t) \in Nat
  BY DEF Run
<1>2. /\ s \o t \in Seq(Chunks)
      /\ Len(s \o t) = Len(s) + Len(t)
      /\ \A i \in 1..(Len(s) + Len(t)) :
            (s \o t)[i] = IF i <= Len(s) THEN s[i] ELSE t[i - Len(s)]
  BY <1>1, ConcatProperties
<1>3. ASSUME NEW i \in 1..Len(s \o t)
      PROVE  (s \o t)[i][1] = (IF i = 1 THEN a ELSE (s \o t)[i-1][2]) + 1
  <2>1. CASE i <= Len(s)
    BY <1>1, <1>2, <2>1 DEF Run
  <2>2. CASE i > Len(s) /\ i - Len(s) = 1
    <3>1. (s \o t)[i] = t[1] /\ t[1][1] = b + 1
      BY <1>1, <1>2, <2>2 DEF Run
    <3>2. CASE s = <<>>
      <4>1. i = 1 /\ b = a
        BY <2>2, <3>2 DEF Run
      <4> QED
        BY <3>1, <4>1
    <3>3. CASE s # <<>>
      <4>1. i - 1 = Len(s) /\ Len(s) > 0
        BY <1>1, <2>2, <3>3
      <4>2. i - 1 \in 1..(Len(s) + Len(t)) /\ (s \o t)[i-1] = s[Len(s)] /\ i # 1
        BY <1>1, <1>2, <4>1
      <4>3. b = s[Len(s)][2]
        BY <3>3 DEF Run
      <4> QED
        BY <3>1, <4>2, <4>3
    <3> QED
      BY <3>2, <3>3
  <2>3. CASE i > Len(s) /\ i - Len(s) # 1
    <3>1. i - Len(s) \in 2..Len(t) /\ i - 1 \in 1..(Len(s) + Len(t)) /\ ~(i - 1 <= Len(s))
      BY <1>1, <1>2, <2>3
    <3>2. (s \o t)[i] = t[i - Len(s)] /\ (s \o t)[i-1] = t[(i - 1) - Len(s)]
      BY <1>1, <1>2, <2>3, <3>1
    <3>3. (i - 1) - Len(s) = (i - Len(s)) - 1
      BY <1>1, <3>1
    <3> QED
      BY <1>1, <3>1, <3>2, <3>3, SMTT(30) DEF Run
  <2> QED
    BY <1>1, <2>1, <2>2, <2>3
<1>4. c = IF s \o t = <<>> THEN a ELSE (s \o t)[Len(s \o t)][2]
  <2>1. CASE t = <<>>
    <3>1. s \o t = s
      BY <1>1, <2>1
    <3> QED
      BY <2>1, <3>1 DEF Run
  <2>2. CASE t # <<>>
    <3>1. Len(t) > 0 /\ s \o t # <<>>
      BY <1>1, <1>2, <2>2
    <3>2. (s \o t)[Len(s \o t)] = t[Len(t)]
      BY <1>1, <1>2, <3>1
    <3> QED
      BY <2>2, <3>1, <3>2 DEF Run
  <2> QED
    BY <2>1, <2>2
<1> QED
  BY <1>2, <1>3, <1>4 DEF Run

\* One chunk more.
LEMMA RunAppend ==
    ASSUME NEW s, NEW a \in Nat, NEW b, Run(s, a, b), NEW c \in Chunks, c[1] = b + 1
    PROVE  Run(Append(s, c), a, c[2])
<1>1. b \in Nat /\ c[1] - 1 = b
  BY RunEnds
<1>2. Run(<<c>>, b, c[2])
  BY <1>1, RunSingle
<1>3. Append(s, c) = s \o <<c>>
  BY AppendIsConcat DEF Run
<1> QED
  BY <1>2, <1>3, RunConcat

\* The first chunk of a run begins it, and the others are a run behind it.
LEMMA RunTail ==
    ASSUME NEW s, NEW a \in Nat, NEW b, Run(s, a, b), s # <<>>
    PROVE  s[1] \in Chunks /\ s[1][1] = a + 1 /\ Run(Tail(s), s[1][2], b)
<1>1. s \in Seq(Chunks) /\ Len(s) \in Nat /\ Len(s) > 0 /\ s[1] \in Chunks
  BY DEF Run
<1>2. /\ Tail(s) \in Seq(Chunks) /\ Len(Tail(s)) = Len(s) - 1
      /\ \A i \in 1..Len(Tail(s)) : Tail(s)[i] = s[i+1]
  BY <1>1, HeadTailProperties
<1>3. s[1][1] = a + 1
  BY <1>1 DEF Run
<1>4. ASSUME NEW i \in 1..Len(Tail(s))
      PROVE  Tail(s)[i][1] = (IF i = 1 THEN s[1][2] ELSE Tail(s)[i-1][2]) + 1
  <2>1. i + 1 \in 1..Len(s) /\ i + 1 # 1 /\ (i + 1) - 1 = i
    BY <1>1, <1>2
  <2>2. s[i+1][1] = s[i][2] + 1
    BY <2>1 DEF Run
  <2>3. Tail(s)[i] = s[i+1] /\ (i # 1 => Tail(s)[i-1] = s[i])
    BY <1>1, <1>2
  <2> QED
    BY <2>2, <2>3
<1>5. b = IF Tail(s) = <<>> THEN s[1][2] ELSE Tail(s)[Len(Tail(s))][2]
  <2>1. b = s[Len(s)][2]
    BY DEF Run
  <2>2. CASE Tail(s) = <<>>
    <3>1. Len(Tail(s)) = 0
      BY <2>2, EmptySeq
    <3>2. Len(s) = 1
      BY <1>1, <1>2, <3>1
    <3> QED
      BY <2>1, <2>2, <3>2
  <2>3. CASE Tail(s) # <<>>
    <3>1. Len(Tail(s)) > 0
      BY <1>2, <2>3
    <3> QED
      BY <1>1, <1>2, <2>1, <2>3, <3>1
  <2> QED
    BY <2>2, <2>3
<1> QED
  BY <1>1, <1>2, <1>3, <1>4, <1>5 DEF Run
-----------------------------------------------------------------------------
\* Queued chunks, with an EOF behind them or without.
LEMMA DataProperties ==
    ASSUME NEW s \in Seq(Chunks \cup {EOF}), Data(s) \in Seq(Chunks)
    PROVE  /\ Len(s) \in Nat
           /\ Data(s) = s \/ (s = Append(Data(s), EOF) /\ Len(s) = Len(Data(s)) + 1
                                 /\ s[Len(s)] = EOF)
           /\ \A i \in 1..Len(Data(s)) : Data(s)[i] = s[i]
<1>1. CASE s # <<>> /\ s[Len(s)] = EOF
  <2>1. Len(s) \in Nat /\ Len(s) > 0 /\ \A i \in 1..(Len(s) - 1) : s[i] \in Chunks \cup {EOF}
    BY <1>1
  <2>2. Data(s) = SubSeq(s, 1, Len(s) - 1)
    BY <1>1 DEF Data
  <2>3. Len(Data(s)) = Len(s) - 1 /\ \A i \in 1..(Len(s) - 1) : Data(s)[i] = s[i]
    <3>1. /\ Len(SubSeq(s, 1, Len(s) - 1)) = Len(s) - 1
          /\ \A i \in 1..(Len(s) - 1) : SubSeq(s, 1, Len(s) - 1)[i] = s[i]
      <4> DEFINE n == Len(s) - 1
      <4>1. n \in Int /\ n >= 0
        BY <2>1
      <4>2. \A i \in 1..n : s[i] \in Chunks \cup {EOF}
        BY <2>1
      <4> HIDE DEF n
      <4>3. /\ Len(SubSeq(s, 1, n)) = IF 1 <= n THEN n - 1 + 1 ELSE 0
            /\ \A i \in 1..(n - 1 + 1) : SubSeq(s, 1, n)[i] = s[1 + i - 1]
        BY <4>1, <4>2, SubSeqProperties
      <4>4. Len(SubSeq(s, 1, n)) = n /\ \A i \in 1..n : SubSeq(s, 1, n)[i] = s[i]
        BY <4>1, <4>3
      <4> QED
        BY <4>4 DEF n
    <3> QED
      BY <2>2, <3>1
  <2>4. s = Append(Data(s), EOF)
    <3>1. Data(s) \in Seq(Chunks \cup {EOF})
      BY <2>1, <2>2
    <3>2. /\ Append(Data(s), EOF) \in Seq(Chunks \cup {EOF})
          /\ Len(Append(Data(s), EOF)) = Len(s)
          /\ \A i \in 1..Len(s) : Append(Data(s), EOF)[i] = s[i]
      BY <1>1, <2>1, <2>3, <3>1
    <3> QED
      BY <3>2, SeqEqual
  <2> QED
    BY <1>1, <2>1, <2>3, <2>4
<1>2. CASE ~(s # <<>> /\ s[Len(s)] = EOF)
  BY <1>2 DEF Data
<1> QED
  BY <1>1, <1>2

\* A stream of chunks only is its own data.
LEMMA DataOfChunks == ASSUME NEW s \in Seq(Chunks) PROVE Data(s) = s
  BY ChunkFacts DEF Data

\* close puts an EOF behind the chunks.
LEMMA DataOfClosed == ASSUME NEW s \in Seq(Chunks) PROVE Data(Append(s, EOF)) = s
<1>1. /\ Append(s, EOF) \in Seq(Chunks \cup {EOF}) /\ Append(s, EOF) # <<>>
      /\ Len(Append(s, EOF)) = Len(s) + 1 /\ Append(s, EOF)[Len(s) + 1] = EOF
      /\ \A i \in 1..Len(s) : Append(s, EOF)[i] = s[i]
  <2>1. s \in Seq(Chunks \cup {EOF})
    OBVIOUS
  <2> QED
    BY <2>1
<1>2. Data(Append(s, EOF)) = SubSeq(Append(s, EOF), 1, Len(s))
  <2>1. Len(s) + 1 - 1 = Len(s)
    OBVIOUS
  <2> QED
    BY <1>1, <2>1 DEF Data
<1>3. SubSeq(Append(s, EOF), 1, Len(s)) = s
  <2>1. /\ SubSeq(Append(s, EOF), 1, Len(s)) \in Seq(Chunks)
        /\ Len(SubSeq(Append(s, EOF), 1, Len(s))) = Len(s)
        /\ \A i \in 1..Len(s) : SubSeq(Append(s, EOF), 1, Len(s))[i] = s[i]
    BY <1>1, SubSeqProperties
  <2> QED
    BY <2>1, SeqEqual
<1> QED
  BY <1>2, <1>3

\* The head of the queue is a chunk with other chunks behind it, or the EOF with nothing.
LEMMA QueueHead ==
    ASSUME NEW s \in Seq(Chunks \cup {EOF}), s # <<>>, Data(s) \in Seq(Chunks)
    PROVE  /\ Head(s) = EOF => Data(s) = <<>> /\ Tail(s) = <<>>
           /\ Head(s) # EOF => /\ Data(s) # <<>> /\ Head(s) = Data(s)[1] /\ Head(s) \in Chunks
                               /\ Data(Tail(s)) = Tail(Data(s))
<1>1. Len(s) \in Nat /\ Len(s) > 0 /\ Head(s) = s[1] /\ Tail(s) \in Seq(Chunks \cup {EOF})
      /\ Len(Tail(s)) = Len(s) - 1
  OBVIOUS
<1>2. CASE Data(s) = s
  <2>1. Head(s) \in Chunks /\ Head(s) # EOF
    BY <1>1, <1>2, ChunkFacts
  <2>2. Tail(s) \in Seq(Chunks)
    BY <1>2
  <2> QED
    BY <1>1, <1>2, <2>1, <2>2, DataOfChunks
<1>3. CASE /\ s = Append(Data(s), EOF) /\ Len(s) = Len(Data(s)) + 1
           /\ \A i \in 1..Len(Data(s)) : Data(s)[i] = s[i]
  <2>1. CASE Data(s) = <<>>
    <3>1. Len(s) = 1
      BY <1>3, <2>1
    <3>2. Tail(s) = <<>>
      <4>1. Len(Tail(s)) = 0
        BY <1>1, <3>1
      <4> QED
        BY <1>1, <4>1, EmptySeq
    <3>3. s[1] = EOF
      BY <1>3, <2>1
    <3> QED
      BY <1>1, <2>1, <3>2, <3>3
  <2>2. CASE Data(s) # <<>>
    <3>1. Len(Data(s)) \in Nat /\ Len(Data(s)) > 0
      BY <2>2
    <3>2. Head(s) = Data(s)[1] /\ Head(s) \in Chunks /\ Head(s) # EOF
      <4>1. Data(s)[1] \in Chunks
        BY <3>1
      <4>2. Data(s)[1] = s[1]
        BY <1>3, <3>1
      <4> QED
        BY <1>1, <4>1, <4>2, ChunkFacts
    <3>3. Tail(s) = Append(Tail(Data(s)), EOF)
      <4>1. Tail(Append(Data(s), EOF)) = Append(Tail(Data(s)), EOF)
        <5> DEFINE d == Data(s)
        <5>1. d \in Seq(Chunks \cup {EOF}) /\ d # <<>>
          BY <2>2
        <5> HIDE DEF d
        <5>2. Tail(Append(d, EOF)) \in Seq(Chunks \cup {EOF})
          BY <5>1
        <5>3. Append(Tail(d), EOF) \in Seq(Chunks \cup {EOF})
          BY <5>1
        <5>4. Len(Tail(Append(d, EOF))) = Len(d) /\ Len(Append(Tail(d), EOF)) = Len(d)
          BY <5>1
        <5>5. ASSUME NEW i \in 1..Len(d) PROVE Tail(Append(d, EOF))[i] = Append(Tail(d), EOF)[i]
          BY <5>1, <5>5
        <5>6. Tail(Append(d, EOF)) = Append(Tail(d), EOF)
          BY <5>2, <5>3, <5>4, <5>5, SeqEqual
        <5> QED
          BY <5>6 DEF d
      <4> QED
        BY <1>3, <4>1
    <3>4. Tail(Data(s)) \in Seq(Chunks)
      BY <2>2
    <3> QED
      BY <2>2, <3>2, <3>3, <3>4, DataOfClosed
  <2> QED
    BY <2>1, <2>2
<1> QED
  BY <1>2, <1>3, DataProperties
-----------------------------------------------------------------------------
\* The first state of a stream.
LEMMA StreamInitHolds == ASSUME StreamInit PROVE StreamInv
<1>1. StreamTypeOK
  <2>1. arrived \in 0..MaxBytes
    BY BufferAssumption DEF StreamInit
  <2>2. queue \in Seq(Chunks \cup {EOF}) /\ got \in Seq(Chunks)
    BY EmptySeq DEF StreamInit
  <2>3. leftover \in {<<>>} \cup {<<c>> : c \in Chunks} /\ buffered \in Int
    BY DEF StreamInit
  <2> QED
    BY <2>1, <2>2, <2>3 DEF StreamInit, StreamTypeOK
<1>2. Data(<<>>) = <<>>
  BY DEF Data
<1>3. LastByte(got) = 0 /\ Taken = 0
  BY DEF StreamInit, LastByte, Taken
<1> QED
  BY <1>1, <1>2, <1>3, RunEmpty, BufferAssumption DEF StreamInit, StreamInv

\* What the invariant says of the types of its pieces.
LEMMA Pieces ==
    ASSUME StreamInv
    PROVE  /\ LastByte(got) \in Nat /\ Taken \in Nat /\ arrived \in Nat
           /\ queue \in Seq(Chunks \cup {EOF}) /\ Data(queue) \in Seq(Chunks)
           /\ leftover = <<>> => Taken = LastByte(got)
           /\ leftover # <<>> => /\ leftover[1] \in Chunks /\ Taken = leftover[1][2]
                                 /\ leftover[1][1] = LastByte(got) + 1
<1>1. LastByte(got) \in Nat
  BY RunEnds DEF StreamInv
<1>2. Taken \in Nat
  BY <1>1, RunEnds DEF StreamInv
<1>3. leftover # <<>> => leftover[1] \in Chunks /\ leftover[1][1] = LastByte(got) + 1
  BY <1>1, RunTail DEF StreamInv
<1> QED
  BY <1>1, <1>2, <1>3, BufferAssumption DEF StreamInv, StreamTypeOK, Run, Taken

\* close.
LEMMA CloseKeeps == ASSUME StreamInv, Close PROVE StreamInv'
<1>1. queue \in Seq(Chunks) /\ Data(queue) = queue
  BY Pieces DEF StreamInv, Close
<1>2. queue' = Append(queue, EOF) /\ queue' \in Seq(Chunks \cup {EOF})
  BY <1>1 DEF Close
<1>3. Data(queue)' = Data(queue)
  <2>1. Data(Append(queue, EOF)) = queue
    BY <1>1, DataOfClosed
  <2> QED
    BY <1>1, <1>2, <2>1
<1>4. UNCHANGED <<LastByte(got), Taken>>
  BY DEF Close, LastByte, Taken
<1>5. StreamTypeOK'
  BY <1>2 DEF StreamInv, StreamTypeOK, Close
<1> QED
  BY <1>3, <1>4, <1>5 DEF StreamInv, Close

\* A payload is fed.
LEMMA FeedKeeps ==
    ASSUME StreamInv, NEW size \in Sizes, FeedData(size) PROVE StreamInv'
<1> DEFINE c == <<arrived + 1, arrived + size>>
<1>1. size \in Nat /\ size > 0 /\ arrived \in Nat /\ arrived' = arrived + size
      /\ arrived' \in 0..MaxBytes
  BY Pieces, SizesAssumption, BufferAssumption DEF FeedData
<1>2. c \in Chunks /\ c[1] = arrived + 1 /\ c[2] = arrived'
  <2>1. arrived + 1 \in 1..MaxBytes /\ arrived + size \in 1..MaxBytes /\ arrived + 1 <= arrived + size
    BY <1>1, BufferAssumption DEF FeedData
  <2>2. c[1] = arrived + 1 /\ c[2] = arrived + size
    OBVIOUS
  <2> QED
    BY <1>1, <2>1, <2>2 DEF Chunks
<1>3. queue \in Seq(Chunks) /\ Data(queue) = queue
  BY Pieces DEF StreamInv, FeedData
<1> HIDE DEF c
<1>4. queue' = Append(queue, c) /\ queue' \in Seq(Chunks) /\ Data(queue') = queue'
  <2>1. queue' = Append(queue, c)
    BY DEF FeedData, c
  <2>2. Append(queue, c) \in Seq(Chunks)
    BY <1>2, <1>3
  <2> QED
    BY <2>1, <2>2, DataOfChunks
<1>5. Run(queue', Taken, arrived')
  BY <1>2, <1>3, <1>4, Pieces, RunAppend DEF StreamInv
<1>6. UNCHANGED <<LastByte(got), Taken>>
  BY DEF FeedData, LastByte, Taken
<1>7. StreamTypeOK'
  <2>1. buffered' \in Int
    BY <1>1 DEF FeedData, StreamInv, StreamTypeOK
  <2>2. queue' \in Seq(Chunks \cup {EOF})
    BY <1>4
  <2> QED
    BY <1>1, <2>1, <2>2 DEF StreamInv, StreamTypeOK, FeedData
<1>8. buffered' = arrived' - LastByte(got)' /\ buffered' <= MaxBuffer
  BY <1>1, <1>6, Pieces DEF StreamInv, FeedData
<1>9. (~closed => Data(queue) = queue)'
  BY <1>4
<1>10. Run(Data(queue), Taken, arrived)'
  <2>1. Data(queue)' = queue'
    BY <1>4
  <2> QED
    BY <1>5, <1>6, <2>1
<1> QED
  BY <1>6, <1>7, <1>8, <1>9, <1>10 DEF StreamInv, FeedData

\* The chunk after what was returned is returned, all of it or its first bytes.
LEMMA ReturnKeeps ==
    ASSUME StreamInv, NEW c \in Chunks, c[1] = LastByte(got) + 1,
           NEW n \in Sizes \cup {-1}, Return(c, n)
    PROVE  /\ Run(got', 0, LastByte(got'))
           /\ Run(leftover', LastByte(got'), c[2]) /\ Taken' = c[2]
           /\ leftover' \in {<<>>} \cup {<<d>> : d \in Chunks}
           /\ buffered' = arrived - LastByte(got') /\ buffered' <= MaxBuffer
<1> DEFINE more == n > 0 /\ n < Size(c)
           last == IF more THEN c[1] + n - 1 ELSE c[2]
<1>1. /\ c[1] \in Nat /\ c[2] \in Nat /\ c[1] > 0 /\ c[1] <= c[2] /\ c[2] <= MaxBytes
      /\ n \in Int /\ Size(c) = c[2] - c[1] + 1
  BY ChunkFacts, SizesAssumption, BufferAssumption DEF Size
<1>2. last \in Nat /\ c[1] <= last /\ last <= c[2] /\ (more => last < c[2])
  BY <1>1
<1>3. /\ got' = Append(got, <<c[1], last>>)
      /\ leftover' = IF more THEN <<<<last + 1, c[2]>>>> ELSE <<>>
      /\ buffered' = buffered - (last - c[1] + 1)
  BY DEF Return
<1>4. ~more => last = c[2]
  OBVIOUS
<1> HIDE DEF more, last
<1> DEFINE d == <<c[1], last>>
<1>5. d \in Chunks /\ d[1] = LastByte(got) + 1 /\ d[2] = last
  BY <1>1, <1>2, BufferAssumption DEF Chunks
<1>6. Run(got', 0, last)
  <2> HIDE DEF d
  <2>1. Run(Append(got, d), 0, d[2])
    BY <1>5, RunAppend DEF StreamInv
  <2> QED
    BY <1>3, <1>5, <2>1 DEF d
<1>7. LastByte(got') = last
  BY <1>6, RunLast
<1>8. /\ Run(leftover', last, c[2]) /\ Taken' = c[2]
      /\ leftover' \in {<<>>} \cup {<<e>> : e \in Chunks}
  <2>1. CASE more
    <3> DEFINE r == <<last + 1, c[2]>>
    <3>1. r \in Chunks /\ r[1] - 1 = last /\ r[2] = c[2] /\ leftover' = <<r>>
      BY <1>1, <1>2, <1>3, <2>1, BufferAssumption DEF Chunks
    <3> HIDE DEF r
    <3>2. Run(<<r>>, last, c[2])
      BY <3>1, RunSingle
    <3>3. <<r>> # <<>> /\ <<r>>[1] = r
      OBVIOUS
    <3>4. Taken' = c[2]
      BY <3>1, <3>3 DEF Taken
    <3> QED
      BY <3>1, <3>2, <3>4
  <2>2. CASE ~more
    <3>1. leftover' = <<>> /\ last = c[2]
      BY <1>3, <1>4, <2>2
    <3>2. Taken' = c[2]
      BY <1>7, <3>1 DEF Taken, LastByte
    <3> QED
      BY <1>2, <3>1, <3>2, RunEmpty
  <2> QED
    BY <2>1, <2>2
<1>9. buffered' = arrived - last /\ buffered' <= MaxBuffer
  <2>1. /\ buffered = arrived - LastByte(got) /\ buffered <= MaxBuffer
        /\ arrived \in Nat /\ LastByte(got) \in Nat
    BY Pieces DEF StreamInv
  <2>2. buffered' = buffered - (last - c[1] + 1)
    BY <1>3
  <2> QED
    BY <1>1, <1>2, <2>1, <2>2, BufferAssumption
<1> QED
  BY <1>6, <1>7, <1>8, <1>9
\* The head of the queue is taken, by a read that holds no leftover.
LEMMA TakeHeadKeeps ==
    ASSUME StreamInv, queue # <<>>, leftover = <<>>, ~ended, NEW n \in Sizes \cup {-1},
           TakeHead(n), arrived' = arrived, waiting' = 0
    PROVE  StreamInv'
<1>1. /\ queue \in Seq(Chunks \cup {EOF}) /\ Data(queue) \in Seq(Chunks)
      /\ Taken = LastByte(got) /\ Taken \in Nat /\ queue' = Tail(queue)
      /\ queue' \in Seq(Chunks \cup {EOF}) /\ Run(Data(queue), Taken, arrived)
  BY Pieces DEF TakeHead, StreamInv
<1>2. CASE Head(queue) = EOF
  <2>1. queue' = <<>> /\ Data(queue) = <<>>
    BY <1>1, <1>2, QueueHead
  <2>2. Data(<<>>) = <<>>
    BY DEF Data
  <2>3. /\ ended' /\ closed' /\ UNCHANGED <<arrived, buffered, leftover, got>>
    BY <1>2 DEF TakeHead, ReturnEOF
  <2>4. UNCHANGED <<LastByte(got), Taken>>
    BY <2>3 DEF LastByte, Taken
  <2>5. StreamTypeOK'
    BY <1>1, <1>2, <2>3 DEF StreamInv, StreamTypeOK, TakeHead, ReturnEOF
  <2>6. Run(Data(queue), Taken, arrived)'
    <3>1. Data(queue)' = Data(queue)
      BY <2>1, <2>2
    <3> QED
      BY <1>1, <2>3, <2>4, <3>1
  <2> QED
    BY <2>1, <2>3, <2>4, <2>5, <2>6 DEF StreamInv
<1>3. CASE Head(queue) # EOF
  <2> DEFINE c == Head(queue)
  <2>1. /\ c \in Chunks /\ Data(queue) # <<>> /\ c = Data(queue)[1]
        /\ Data(queue') = Tail(Data(queue))
    BY <1>1, <1>3, QueueHead
  <2>2. c[1] = LastByte(got) + 1 /\ Run(Data(queue'), c[2], arrived)
    BY <1>1, <2>1, RunTail
  <2>3. Return(c, n) /\ UNCHANGED <<closed, ended>>
    BY <1>3 DEF TakeHead
  <2> HIDE DEF c
  <2>4. /\ Run(got', 0, LastByte(got'))
        /\ Run(leftover', LastByte(got'), c[2]) /\ Taken' = c[2]
        /\ leftover' \in {<<>>} \cup {<<d>> : d \in Chunks}
        /\ buffered' = arrived - LastByte(got') /\ buffered' <= MaxBuffer
    BY <2>1, <2>2, <2>3, ReturnKeeps
  <2>5. StreamTypeOK'
    <3>1. LastByte(got') \in Nat
      BY <2>4, RunEnds
    <3>2. got' \in Seq(Chunks) /\ buffered' \in Int
      BY <2>4, <3>1, Pieces DEF Run
    <3> QED
      BY <1>1, <2>3, <2>4, <3>2 DEF StreamInv, StreamTypeOK
  <2>6. ~closed' => Data(queue') = queue'
    <3>1. CASE ~closed
      <4>1. queue \in Seq(Chunks)
        BY <1>1, <3>1 DEF StreamInv
      <4>2. Tail(queue) \in Seq(Chunks)
        BY <4>1, HeadTailProperties
      <4> QED
        BY <1>1, <4>2, DataOfChunks
    <3>2. CASE closed
      BY <2>3, <3>2
    <3> QED
      BY <3>1, <3>2
  <2>7. ~ended'
    BY <2>3
  <2> QED
    BY <2>2, <2>4, <2>5, <2>6, <2>7 DEF StreamInv
<1> QED
  BY <1>2, <1>3

\* read(n) of a leftover.
LEMMA ReadLeftoverKeeps ==
    ASSUME StreamInv, NEW n \in Sizes \cup {-1}, ReadLeftover(n) PROVE StreamInv'
<1> DEFINE c == leftover[1]
<1>1. c \in Chunks /\ c[1] = LastByte(got) + 1 /\ c[2] = Taken
  BY Pieces DEF ReadLeftover
<1>2. Return(c, n) /\ UNCHANGED <<arrived, queue, closed, waiting, ended>> /\ waiting = 0 /\ ~ended
  BY DEF ReadLeftover
<1> HIDE DEF c
<1>3. /\ Run(got', 0, LastByte(got'))
      /\ Run(leftover', LastByte(got'), c[2]) /\ Taken' = c[2]
      /\ leftover' \in {<<>>} \cup {<<d>> : d \in Chunks}
      /\ buffered' = arrived - LastByte(got') /\ buffered' <= MaxBuffer
  BY <1>1, <1>2, ReturnKeeps
<1>4. StreamTypeOK'
  <2>1. LastByte(got') \in Nat
    BY <1>3, RunEnds
  <2>2. got' \in Seq(Chunks) /\ buffered' \in Int
    BY <1>3, <2>1, Pieces DEF Run
  <2> QED
    BY <1>2, <1>3, <2>2 DEF StreamInv, StreamTypeOK
<1>5. Data(queue)' = Data(queue) /\ Taken' = Taken
  BY <1>1, <1>2, <1>3
<1> QED
  BY <1>2, <1>3, <1>4, <1>5 DEF StreamInv

\* All there is, up to an EOF, is returned or moved: what was returned then ends with the
\* last byte that arrived.
LEMMA AllReturned ==
    ASSUME StreamInv
    PROVE  /\ Run(got \o leftover \o Data(queue), 0, arrived)
           /\ LastByte(got \o leftover \o Data(queue)) = arrived
<1>1. LastByte(got) \in Nat /\ Taken \in Nat
  BY Pieces
<1>2. Run(got \o leftover, 0, Taken)
  BY RunConcat DEF StreamInv
<1>3. Run((got \o leftover) \o Data(queue), 0, arrived)
  BY <1>2, RunConcat DEF StreamInv
<1> QED
  BY <1>3, RunLast

\* read() takes all.
LEMMA ReadAllKeeps == ASSUME StreamInv, ReadAll PROVE StreamInv'
<1>1. /\ leftover = <<>> /\ ~ended /\ waiting = 0 /\ queue # <<>> /\ got' = got \o Data(queue)
      /\ queue' = <<>> /\ UNCHANGED <<arrived, leftover, waiting, ended>>
      /\ buffered' = buffered - (LastByte(got') - LastByte(got))
      /\ closed' = (closed \/ queue[Len(queue)] = EOF)
  BY DEF ReadAll, Fresh
<1>2. Run(got', 0, arrived) /\ LastByte(got') = arrived
  <2>1. got \in Seq(Chunks) /\ Taken = LastByte(got)
    BY <1>1, Pieces DEF StreamInv, Run
  <2>2. Run(got \o Data(queue), 0, arrived)
    BY <2>1, Pieces, RunConcat DEF StreamInv
  <2> QED
    BY <1>1, <2>2, RunLast
<1>3. Data(<<>>) = <<>>
  BY DEF Data
<1>4. Taken' = arrived'
  BY <1>1, <1>2 DEF Taken
<1>5. arrived \in Nat /\ LastByte(got) \in Nat /\ buffered = arrived - LastByte(got)
  BY Pieces DEF StreamInv
<1>6. buffered' = 0
  BY <1>1, <1>2, <1>5
<1>7. StreamTypeOK'
  <2>1. got' \in Seq(Chunks) /\ queue' \in Seq(Chunks \cup {EOF})
    BY <1>1, <1>2, EmptySeq DEF Run
  <2>2. closed' \in BOOLEAN
    BY <1>1
  <2> QED
    BY <1>1, <1>6, <2>1, <2>2 DEF StreamInv, StreamTypeOK
<1>8. Run(leftover, LastByte(got), Taken)' /\ Run(Data(queue), Taken, arrived)'
  BY <1>1, <1>2, <1>3, <1>4, <1>5, RunEmpty
<1> QED
  BY <1>1, <1>2, <1>3, <1>5, <1>6, <1>7, <1>8, BufferAssumption DEF StreamInv

\* read(n) of an empty stream.
LEMMA ReadEmptyKeeps ==
    ASSUME StreamInv, NEW n \in Sizes \cup {-1}, ReadEmpty(n) PROVE StreamInv'
<1>1. /\ leftover = <<>> /\ ~ended /\ waiting = 0 /\ queue = <<>>
      /\ UNCHANGED <<arrived, queue, buffered, leftover, closed, got>>
  BY DEF ReadEmpty, ReturnEOF, Fresh
<1>2. UNCHANGED <<LastByte(got), Taken, Data(queue)>>
  BY <1>1 DEF LastByte, Taken
<1>3. /\ closed => ended' /\ waiting' = waiting
      /\ ~closed => ended' = ended /\ waiting' = n
  BY DEF ReadEmpty, ReturnEOF
<1>4. StreamTypeOK'
  BY <1>1, <1>3 DEF StreamInv, StreamTypeOK, ReadEmpty, ReturnEOF
<1> QED
  BY <1>1, <1>2, <1>3, <1>4 DEF StreamInv

\* Every step of the consumer.
LEMMA ReadingKeeps == ASSUME StreamInv, Reading PROVE StreamInv'
<1>1. CASE ReadResumes
  <2>1. leftover = <<>> /\ ~ended /\ waiting \in Sizes \cup {-1}
    BY <1>1 DEF ReadResumes, StreamInv, StreamTypeOK
  <2> QED
    BY <1>1, <2>1, TakeHeadKeeps DEF ReadResumes
<1>2. ASSUME NEW n \in Sizes \cup {-1}, ReadHead(n) PROVE StreamInv'
  <2>1. leftover = <<>> /\ ~ended /\ waiting = 0
    BY <1>2 DEF ReadHead, Fresh
  <2> QED
    BY <1>2, <2>1, TakeHeadKeeps DEF ReadHead
<1>3. ASSUME NEW n \in Sizes \cup {-1}, Read(n) PROVE StreamInv'
  BY <1>2, <1>3, ReadLeftoverKeeps, ReadEmptyKeeps, ReadAllKeeps DEF Read
<1> QED
  BY <1>1, <1>3 DEF Reading

\* The feeder moves all there is and waits again.
LEMMA MoveAllKeeps == ASSUME StreamInv, ~closed, MoveAll PROVE StreamInv'
<1>1. /\ got' = got \o leftover \o queue /\ queue' = <<>> /\ leftover' = <<>> /\ buffered' = 0
      /\ waiting' = IOChunk /\ UNCHANGED <<arrived, closed, ended>> /\ queue = Data(queue)
  BY DEF MoveAll, StreamInv
<1>2. Run(got', 0, arrived) /\ LastByte(got') = arrived
  BY <1>1, AllReturned
<1>3. Taken' = arrived'
  BY <1>1, <1>2 DEF Taken
<1>4. Data(<<>>) = <<>>
  BY DEF Data
<1>5. ~ended
  BY DEF StreamInv
<1>6. arrived \in Nat
  BY Pieces
<1>7. StreamTypeOK'
  <2>1. got' \in Seq(Chunks) /\ queue' \in Seq(Chunks \cup {EOF})
    BY <1>1, <1>2, EmptySeq DEF Run
  <2>2. IOChunk \in Sizes \cup {0, -1}
    BY IOChunkAssumption
  <2> QED
    BY <1>1, <2>1, <2>2 DEF StreamInv, StreamTypeOK
<1>8. Run(leftover, LastByte(got), Taken)' /\ Run(Data(queue), Taken, arrived)'
  BY <1>1, <1>2, <1>3, <1>4, <1>6, RunEmpty
<1> QED
  BY <1>1, <1>2, <1>4, <1>5, <1>6, <1>7, <1>8, BufferAssumption DEF StreamInv

\* What the invariant says of the whole.
LEMMA StreamInvImplies == ASSUME StreamInv PROVE NothingLost /\ BufferAccounting
<1> DEFINE front == got \o leftover
           all == front \o queue
           chunks == front \o Data(queue)
<1>1. Run(chunks, 0, arrived) /\ LastByte(chunks) = arrived
  BY AllReturned
<1>2. /\ got \in Seq(Chunks) /\ leftover \in Seq(Chunks) /\ front \in Seq(Chunks)
      /\ queue \in Seq(Chunks \cup {EOF}) /\ Data(queue) \in Seq(Chunks)
  BY Pieces DEF StreamInv, Run
<1>3. \/ all = chunks
      \/ all = Append(chunks, EOF)
  <2>1. CASE Data(queue) = queue
    BY <2>1
  <2>2. CASE queue = Append(Data(queue), EOF)
    <3> HIDE DEF front
    <3> DEFINE d == Data(queue)
    <3>1. d \in Seq(Chunks \cup {EOF}) /\ front \in Seq(Chunks \cup {EOF})
      BY <1>2
    <3> HIDE DEF d
    <3>2. front \o Append(d, EOF) = Append(front \o d, EOF)
      <4>1. front \o Append(d, EOF) \in Seq(Chunks \cup {EOF})
        BY <3>1
      <4>2. Append(front \o d, EOF) \in Seq(Chunks \cup {EOF})
        BY <3>1
      <4>3. /\ Len(front \o Append(d, EOF)) = Len(front) + Len(d) + 1
            /\ Len(Append(front \o d, EOF)) = Len(front) + Len(d) + 1
        BY <3>1
      <4>4. ASSUME NEW i \in 1..(Len(front) + Len(d) + 1)
            PROVE  (front \o Append(d, EOF))[i] = Append(front \o d, EOF)[i]
        BY <3>1
      <4> QED
        BY <4>1, <4>2, <4>3, <4>4, SeqEqual
    <3> QED
      BY <2>2, <3>2 DEF d
  <2> QED
    BY <1>2, <2>1, <2>2, DataProperties
<1> HIDE DEF front, all, chunks
<1>4. chunks \in Seq(Chunks) /\ Len(chunks) \in Nat
  BY <1>1 DEF Run
<1>5. \A i \in 1..Len(chunks) :
         chunks[i] # EOF /\ chunks[i][1] = IF i = 1 THEN 1 ELSE chunks[i-1][2] + 1
  BY <1>1, <1>4, ChunkFacts DEF Run
<1>6. Consecutive(all) /\ Data(all) = chunks
  <2>1. CASE all = chunks
    BY <1>4, <1>5, <2>1, DataOfChunks DEF Consecutive
  <2>2. CASE all = Append(chunks, EOF)
    <3>1. /\ DOMAIN all = 1..(Len(chunks) + 1) /\ Len(all) = Len(chunks) + 1
          /\ all[Len(chunks) + 1] = EOF /\ \A i \in 1..Len(chunks) : all[i] = chunks[i]
      BY <1>4, <2>2
    <3>2. ASSUME NEW i \in DOMAIN all
          PROVE  IF all[i] = EOF THEN i = Len(all)
                 ELSE all[i][1] = IF i = 1 THEN 1 ELSE all[i-1][2] + 1
      <4>1. CASE i = Len(chunks) + 1
        BY <3>1, <4>1
      <4>2. CASE i \in 1..Len(chunks)
        <5>1. i # 1 => i - 1 \in 1..Len(chunks)
          BY <1>4, <4>2
        <5> QED
          BY <1>5, <3>1, <4>2, <5>1
      <4> QED
        BY <1>4, <3>1, <4>1, <4>2
    <3>3. Data(all) = chunks
      BY <1>4, <2>2, DataOfClosed
    <3> QED
      BY <3>2, <3>3 DEF Consecutive
  <2> QED
    BY <1>3, <2>1, <2>2
<1>7. ended => LastByte(got) = arrived
  <2>1. ASSUME ended PROVE LastByte(got) = arrived
    <3>1. queue = <<>> /\ leftover = <<>>
      BY <2>1 DEF StreamInv
    <3>2. Data(queue) = <<>>
      BY <3>1 DEF Data
    <3>3. Taken = LastByte(got)
      BY <3>1 DEF Taken
    <3> QED
      BY <3>2, <3>3 DEF StreamInv, Run
  <2> QED
    BY <2>1
<1> QED
  BY <1>1, <1>6, <1>7 DEF NothingLost, BufferAccounting, StreamInv, all, front

\* Every step of the stream and of its consumer.
LEMMA StreamStep == ASSUME StreamInv, [FNext]_fvars PROVE StreamInv'
<1>1. CASE Close
  BY <1>1, CloseKeeps
<1>2. ASSUME NEW size \in Sizes, FeedData(size) \/ Overflow(size) PROVE StreamInv'
  BY <1>2, FeedKeeps, CloseKeeps DEF Overflow
<1>3. CASE AppReads
  BY <1>3, ReadingKeeps DEF AppReads
<1>4. CASE UNCHANGED streamVars
  BY <1>4 DEF streamVars, StreamInv, StreamTypeOK, Taken, LastByte
<1>5. CASE FeedStarts
  BY <1>4, <1>5, MoveAllKeeps DEF FeedStarts
<1>6. CASE FeedRuns
  <2>1. ReadResumes => Reading
    BY DEF Reading
  <2> QED
    BY <1>6, <2>1, MoveAllKeeps, ReadingKeeps DEF FeedRuns
<1> QED
  BY <1>1, <1>2, <1>3, <1>4, <1>5, <1>6 DEF FNext, Receive, fvars

\* No byte is lost, repeated or reordered between the tunnel's read loop and whoever
\* consumes the stream, whatever the sizes of payloads, reads and the buffer.
THEOREM StreamIsIntact == FSafeSpec => []NothingLost
<1>1. FInit => StreamInv
  BY StreamInitHolds DEF FInit
<1>2. StreamInv /\ [FNext]_fvars => StreamInv'
  BY StreamStep
<1>3. StreamInv => NothingLost
  BY StreamInvImplies
<1> QED
  BY <1>1, <1>2, <1>3, PTL DEF FSafeSpec

\* _buffered_bytes counts exactly the bytes that wait, and stays within MAX_BUFFER_BYTES.
THEOREM BufferIsAccounted == FSafeSpec => []BufferAccounting
<1>1. FInit => StreamInv
  BY StreamInitHolds DEF FInit
<1>2. StreamInv /\ [FNext]_fvars => StreamInv'
  BY StreamStep
<1>3. StreamInv => BufferAccounting
  BY StreamInvImplies
<1> QED
  BY <1>1, <1>2, <1>3, PTL DEF FSafeSpec
=============================================================================
