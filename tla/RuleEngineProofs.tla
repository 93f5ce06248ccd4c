-------------------------- MODULE RuleEngineProofs --------------------------
(* Proofs about the rules: that GeoIP's merged interval tables hold exactly  *)
(* the configured networks, and that the engine decides by the best kept     *)
(* rule and finds its rules again after a restart, for any rules and files.  *)
EXTENDS RuleEngine, FiniteSetTheorems, SequenceTheorems, WellFoundedInduction, TLAPS

\* Every set of naturals that is not empty has a least element; induction is done with it,
\* on the set of counterexamples.
LEMMA MinOfNaturals ==
    ASSUME NEW T, T \subseteq Nat, T # {}
    PROVE  \E m \in T : \A k \in T : m <= k
<1> DEFINE R == OpToRel(<, Nat)
<1>1. IsWellFoundedOn(R, Nat)
  BY NatLessThanWellFounded
<1>2. \A x, y \in Nat : <<x, y>> \in R <=> x < y
  BY DEF OpToRel
<1> HIDE DEF R
<1>3. PICK m \in T : \A y \in T : <<y, m>> \notin R
  BY <1>1, WFMin
<1>4. ASSUME NEW k \in T PROVE m <= k
  <2>1. m \in Nat /\ k \in Nat
    OBVIOUS
  <2>2. ~ (k < m)
    BY <1>2, <1>3, <2>1
  <2> QED
    BY <2>1, <2>2
<1> QED
  BY <1>4

\* What precedes each key is a strict total order of the keys.
Orders(before) ==
  LET D == DOMAIN before IN
  /\ IsFiniteSet(D)
  /\ \A x \in D : before[x] \subseteq D /\ x \notin before[x]
  /\ \A x, y \in D : y \in before[x] => before[y] \subseteq before[x]
  /\ \A x, y \in D : x # y => x \in before[y] \/ y \in before[x]

\* The more precede a key, the later it comes.
LEMMA OrdersByCount ==
    ASSUME NEW before, Orders(before), NEW x \in DOMAIN before, NEW y \in DOMAIN before
    PROVE  /\ Cardinality(before[x]) \in Nat
           /\ Cardinality(before[x]) < Cardinality(DOMAIN before)
           /\ x \in before[y] <=> Cardinality(before[x]) < Cardinality(before[y])
           /\ x # y => Cardinality(before[x]) # Cardinality(before[y])
<1> DEFINE D == DOMAIN before
<1>1. ASSUME NEW z \in D
      PROVE  /\ IsFiniteSet(before[z]) /\ Cardinality(before[z]) \in Nat
             /\ Cardinality(before[z]) < Cardinality(D)
  <2>1. before[z] \in SUBSET D /\ before[z] # D /\ IsFiniteSet(D)
    BY <1>1 DEF Orders
  <2>2. IsFiniteSet(before[z]) /\ Cardinality(before[z]) <= Cardinality(D)
        /\ Cardinality(before[z]) # Cardinality(D)
    BY <2>1, FS_Subset
  <2>3. Cardinality(before[z]) \in Nat /\ Cardinality(D) \in Nat
    BY <2>1, <2>2, FS_CardinalityType
  <2> QED
    BY <2>2, <2>3
<1>2. ASSUME NEW u \in D, NEW v \in D, u \in before[v]
      PROVE  Cardinality(before[u]) < Cardinality(before[v])
  <2>1. before[u] \in SUBSET before[v] /\ before[u] # before[v]
    BY <1>2 DEF Orders
  <2>2. /\ Cardinality(before[u]) <= Cardinality(before[v])
        /\ Cardinality(before[u]) # Cardinality(before[v])
    BY <1>1, <2>1, FS_Subset
  <2> QED
    BY <1>1, <2>2
<1>3. x # y => x \in before[y] \/ y \in before[x]
  BY DEF Orders
<1>4. x \in before[y] => Cardinality(before[x]) < Cardinality(before[y])
  BY <1>2
<1>5. y \in before[x] => Cardinality(before[y]) < Cardinality(before[x])
  BY <1>2
<1>6. Cardinality(before[x]) \in Nat /\ Cardinality(before[y]) \in Nat
      /\ Cardinality(before[x]) < Cardinality(D)
  BY <1>1
<1>7. x = y => x \notin before[y]
  BY DEF Orders
<1> QED
  BY <1>3, <1>4, <1>5, <1>6, <1>7

\* Ranked is a sequence of all keys, each behind those that precede it.
LEMMA RankedProperties ==
    ASSUME NEW before, Orders(before)
    PROVE  LET D == DOMAIN before
               r == Ranked(before)
           IN  /\ Cardinality(D) \in Nat /\ r \in Seq(D) /\ Len(r) = Cardinality(D)
               /\ \A x \in D : \E k \in 1 .. Cardinality(D) : r[k] = x
               /\ \A j, k \in 1 .. Cardinality(D) : j < k => r[j] \in before[r[k]]
<1> DEFINE D == DOMAIN before
           n == Cardinality(D)
           r == Ranked(before)
           rank == [x \in D |-> Cardinality(before[x]) + 1]
<1>1. IsFiniteSet(D) /\ n \in Nat
  BY FS_CardinalityType DEF Orders
<1>2. rank \in [D -> 1 .. n]
  BY <1>1, OrdersByCount
<1>3. \A x, y \in D : rank[x] = rank[y] => x = y
  BY OrdersByCount
<1>4. IsFiniteSet(1 .. n) /\ Cardinality(1 .. n) = n
  BY <1>1, FS_Interval
<1>5. \A k \in 1 .. n : \E x \in D : rank[x] = k
  <2>1. rank \in Injection(D, 1 .. n)
    <3> HIDE DEF rank
    <3> QED
      BY <1>2, <1>3 DEF Injection, IsInjective
  <2>2. rank \in Surjection(D, 1 .. n)
    <3> HIDE DEF rank
    <3> QED
      BY <1>4, <2>1, FS_Injection
  <2> HIDE DEF rank
  <2> QED
    BY <2>2 DEF Surjection
<1>6. \A k \in 1 .. n : r[k] \in D /\ Cardinality(before[r[k]]) = k - 1
  <2> SUFFICES ASSUME NEW k \in 1 .. n
               PROVE  r[k] \in D /\ Cardinality(before[r[k]]) = k - 1
    OBVIOUS
  <2>1. PICK x \in D : rank[x] = k
    BY <1>5
  <2>2. Cardinality(before[x]) = k - 1
    BY <2>1, OrdersByCount
  <2>3. r[k] = CHOOSE y \in D : Cardinality(before[y]) = k - 1
    BY DEF Ranked
  <2> HIDE DEF r, rank, D
  <2> QED
    BY <2>2, <2>3
<1>7. r = [k \in 1 .. n |-> r[k]]
  BY DEF Ranked
<1>8. r \in Seq(D) /\ Len(r) = n
  <2> HIDE DEF r, D, n
  <2>1. r \in [1 .. n -> D]
    BY <1>6, <1>7
  <2> QED
    BY <1>1, <2>1
<1>9. \A x \in D : \E k \in 1 .. n : r[k] = x
  <2> SUFFICES ASSUME NEW x \in D PROVE \E k \in 1 .. n : r[k] = x
    OBVIOUS
  <2>1. rank[x] \in 1 .. n /\ Cardinality(before[x]) = rank[x] - 1
    BY <1>2, OrdersByCount
  <2>2. r[rank[x]] \in D /\ Cardinality(before[r[rank[x]]]) = Cardinality(before[x])
    BY <1>6, <2>1
  <2>3. r[rank[x]] = x
    BY <2>2, OrdersByCount
  <2> QED
    BY <2>1, <2>3
<1>10. \A j, k \in 1 .. n : j < k => r[j] \in before[r[k]]
  <2> HIDE DEF r
  <2> QED
    BY <1>1, <1>6, OrdersByCount
<1> QED
  BY <1>1, <1>8, <1>9, <1>10
-----------------------------------------------------------------------------
(* The table of intervals.                                                   *)

Pairs == {p \in Nat \X Nat : p[1] <= p[2]}

\* Intervals that are apart, in order.
Apart(t) ==
  /\ t \in Seq(Pairs)
  /\ \A i, j \in 1 .. Len(t) : i < j => t[i][2] + 1 < t[j][1]

\* Some interval of s holds a.
Holds(s, a) == \E i \in 1 .. Len(s) : s[i][1] <= a /\ a <= s[i][2]

\* One interval more, that begins no earlier than the last one.
LEMMA MergeKeepsApart ==
    ASSUME NEW t, Apart(t), NEW iv \in Pairs, t # <<>> => t[Len(t)][1] <= iv[1]
    PROVE  LET u == Merge(t, iv)
           IN  /\ Apart(u) /\ u # <<>> /\ u[Len(u)][1] <= iv[1]
               /\ \A a \in Nat : Holds(u, a) <=> Holds(t, a) \/ (iv[1] <= a /\ a <= iv[2])
<1> DEFINE n == Len(t)
           u == Merge(t, iv)
<1>1. /\ t \in Seq(Pairs) /\ n \in Nat /\ (t # <<>> <=> n > 0)
      /\ \A i \in 1 .. n : t[i] \in Pairs
      /\ \A i \in 1 .. n : t[i][1] \in Nat /\ t[i][2] \in Nat /\ t[i][1] <= t[i][2]
      /\ \A i, j \in 1 .. n : i < j => t[i][2] + 1 < t[j][1]
  <2>1. t \in Seq(Pairs) /\ n \in Nat /\ \A i \in 1 .. n : t[i] \in Pairs
    BY DEF Apart
  <2> QED
    BY <2>1 DEF Apart, Pairs
<1>2. iv[1] \in Nat /\ iv[2] \in Nat /\ iv[1] <= iv[2]
  BY DEF Pairs
<1>3. CASE n > 0 /\ iv[1] <= t[n][2] + 1
  <2> DEFINE end == IF iv[2] > t[n][2] THEN iv[2] ELSE t[n][2]
             last == <<t[n][1], end>>
  <2>1. t[n] = <<t[n][1], t[n][2]>>
    <3>1. t[n] \in Nat \X Nat
      BY <1>1, <1>3 DEF Pairs
    <3> QED
      BY <3>1
  <2>2. u = [t EXCEPT ![n] = last]
    <3>1. u = [t EXCEPT ![n] = [t[n] EXCEPT ![2] = end]]
      BY <1>3 DEF Merge
    <3>2. [t[n] EXCEPT ![2] = end] = last
      BY <2>1
    <3> QED
      BY <3>1, <3>2
  <2>3. end \in Nat /\ end >= t[n][2] /\ end >= iv[2] /\ (end = iv[2] \/ end = t[n][2])
    BY <1>1, <1>2, <1>3
  <2>4. last \in Pairs /\ last[1] = t[n][1] /\ last[2] = end
    BY <1>1, <1>3, <2>3 DEF Pairs
  <2> HIDE DEF last, end, u
  <2>5. /\ u \in Seq(Pairs) /\ Len(u) = n /\ u # <<>>
        /\ \A i \in 1 .. n : u[i] = IF i = n THEN last ELSE t[i]
    <3>1. n \in 1 .. Len(t)
      BY <1>1, <1>3
    <3>2. /\ [t EXCEPT ![n] = last] \in Seq(Pairs) /\ Len([t EXCEPT ![n] = last]) = n
          /\ \A i \in 1 .. n : [t EXCEPT ![n] = last][i] = IF i = n THEN last ELSE t[i]
      BY <1>1, <2>4, <3>1, ExceptSeq
    <3>3. u # <<>>
      BY <1>3, <2>2, <3>2
    <3> QED
      BY <2>2, <3>2, <3>3
  <2>6. Apart(u)
    <3>1. ASSUME NEW i \in 1 .. n, NEW j \in 1 .. n, i < j PROVE u[i][2] + 1 < u[j][1]
      <4>1. i # n /\ u[i] = t[i] /\ u[j][1] = t[j][1]
        BY <1>1, <2>4, <2>5, <3>1
      <4> QED
        BY <1>1, <3>1, <4>1
    <3> QED
      BY <2>5, <3>1 DEF Apart
  <2>7. u[Len(u)][1] <= iv[1]
    BY <1>1, <1>3, <2>4, <2>5
  <2>8. ASSUME NEW a \in Nat
        PROVE  Holds(u, a) <=> Holds(t, a) \/ (iv[1] <= a /\ a <= iv[2])
    <3>1. ASSUME NEW i \in 1 .. n, u[i][1] <= a, a <= u[i][2]
          PROVE  Holds(t, a) \/ (iv[1] <= a /\ a <= iv[2])
      <4>1. CASE i # n
        BY <2>5, <3>1, <4>1 DEF Holds
      <4>2. CASE i = n
        <5>1. t[n][1] <= a /\ a <= end
          BY <2>4, <2>5, <3>1, <4>2
        <5>2. CASE a <= t[n][2]
          BY <3>1, <4>2, <5>1, <5>2 DEF Holds
        <5>3. CASE a > t[n][2]
          BY <1>1, <1>2, <1>3, <2>3, <5>1, <5>3
        <5> QED
          BY <1>1, <3>1, <4>2, <5>2, <5>3
      <4> QED
        BY <4>1, <4>2
    <3>2. ASSUME NEW i \in 1 .. n, t[i][1] <= a, a <= t[i][2] PROVE Holds(u, a)
      <4>1. CASE i # n
        BY <2>5, <3>2, <4>1 DEF Holds
      <4>2. CASE i = n
        <5>1. u[n][1] <= a /\ a <= u[n][2]
          BY <1>1, <1>3, <2>3, <2>4, <2>5, <3>2, <4>2
        <5> QED
          BY <2>5, <3>2, <4>2, <5>1 DEF Holds
      <4> QED
        BY <4>1, <4>2
    <3>3. ASSUME iv[1] <= a, a <= iv[2] PROVE Holds(u, a)
      <4>1. n \in 1 .. n /\ t[n][1] <= iv[1]
        BY <1>1, <1>3
      <4>2. u[n][1] <= a /\ a <= u[n][2]
        BY <1>1, <1>2, <2>3, <2>4, <2>5, <3>3, <4>1
      <4> QED
        BY <2>5, <4>1, <4>2 DEF Holds
    <3> QED
      BY <2>5, <3>1, <3>2, <3>3 DEF Holds
  <2> QED
    BY <2>5, <2>6, <2>7, <2>8 DEF u
<1>4. CASE ~ (n > 0 /\ iv[1] <= t[n][2] + 1)
  <2>1. u = Append(t, iv)
    BY <1>4 DEF Merge
  <2> HIDE DEF u
  <2>2. /\ u \in Seq(Pairs) /\ Len(u) = n + 1 /\ u # <<>> /\ u[n + 1] = iv
        /\ \A i \in 1 .. n : u[i] = t[i]
    BY <1>1, <2>1
  <2>3. ASSUME NEW i \in 1 .. n PROVE t[i][2] + 1 < iv[1]
    <3>1. n > 0 /\ n \in 1 .. n
      BY <1>1
    <3>2. t[n][2] + 1 < iv[1]
      BY <1>1, <1>2, <1>4, <3>1
    <3>3. CASE i = n
      BY <3>2, <3>3
    <3>4. CASE i # n
      <4>1. t[i][2] + 1 < t[n][1] /\ t[n][1] <= t[n][2]
        BY <1>1, <3>1, <3>4
      <4> QED
        BY <1>1, <1>2, <3>1, <3>2, <4>1
    <3> QED
      BY <3>3, <3>4
  <2>4. Apart(u)
    <3>1. ASSUME NEW i \in 1 .. n + 1, NEW j \in 1 .. n + 1, i < j PROVE u[i][2] + 1 < u[j][1]
      <4>1. i \in 1 .. n /\ u[i] = t[i]
        BY <1>1, <2>2, <3>1
      <4>2. CASE j = n + 1
        BY <2>2, <2>3, <4>1, <4>2
      <4>3. CASE j # n + 1
        <5>1. j \in 1 .. n
          BY <1>1, <4>3
        <5>2. t[i][2] + 1 < t[j][1] /\ u[j] = t[j]
          BY <1>1, <2>2, <3>1, <4>1, <5>1
        <5> QED
          BY <4>1, <5>2
      <4> QED
        BY <4>2, <4>3
    <3> QED
      BY <2>2, <3>1 DEF Apart
  <2>5. u[Len(u)][1] <= iv[1]
    BY <1>2, <2>2
  <2>6. ASSUME NEW a \in Nat
        PROVE  Holds(u, a) <=> Holds(t, a) \/ (iv[1] <= a /\ a <= iv[2])
    <3>1. Holds(u, a) <=> \E i \in 1 .. n + 1 : u[i][1] <= a /\ a <= u[i][2]
      BY <2>2 DEF Holds
    <3>2. \A i \in 1 .. n + 1 : i \in 1 .. n \/ i = n + 1
      BY <1>1
    <3>3. n + 1 \in 1 .. n + 1 /\ \A i \in 1 .. n : i \in 1 .. n + 1
      BY <1>1
    <3> QED
      BY <2>2, <3>1, <3>2, <3>3 DEF Holds
  <2> QED
    BY <2>2, <2>4, <2>5, <2>6 DEF u
<1> QED
  BY <1>3, <1>4
\* The recursion that builds the table is well defined.
LEMMA MergedSteps ==
    ASSUME NEW ivs, Len(ivs) \in Nat
    PROVE  LET m == MergedUpTo(ivs)
           IN  \A k \in 0 .. Len(ivs) : m[k] = IF k = 0 THEN <<>> ELSE Merge(m[k - 1], ivs[k])
<1> DEFINE Is(g, n) == g = [k \in 0 .. n |-> IF k = 0 THEN <<>> ELSE Merge(g[k - 1], ivs[k])]
           Missing == {n \in Nat : ~ \E g : Is(g, n)}
<1>1. Missing = {}
  <2> SUFFICES ASSUME Missing # {} PROVE FALSE
    OBVIOUS
  <2>1. PICK n \in Missing : \A k \in Missing : n <= k
    <3>1. Missing \subseteq Nat
      OBVIOUS
    <3> HIDE DEF Missing
    <3> QED
      BY <3>1, MinOfNaturals
  <2>2. n \in Nat /\ ~ \E g : Is(g, n)
    OBVIOUS
  <2>3. n # 0
    <3>1. Is([k \in 0 .. 0 |-> <<>>], 0)
      OBVIOUS
    <3> HIDE DEF Is
    <3> QED
      BY <2>2, <3>1
  <2>4. n - 1 \in Nat /\ n - 1 \notin Missing
    <3> HIDE DEF Missing, Is
    <3>1. n - 1 \in Nat /\ ~ (n <= n - 1)
      BY <2>2, <2>3
    <3> QED
      BY <2>1, <3>1
  <2>5. PICK g : Is(g, n - 1)
    BY <2>4
  <2> DEFINE h == [k \in 0 .. n |-> IF k = 0 THEN <<>> ELSE Merge(g[k - 1], ivs[k])]
  <2>6. \A k \in 0 .. n - 1 : h[k] = g[k]
    BY <2>2, <2>5
  <2>7. \A k \in 0 .. n : k # 0 => k - 1 \in 0 .. n - 1
    BY <2>2
  <2>8. Is(h, n)
    <3>1. h = [k \in 0 .. n |-> IF k = 0 THEN <<>> ELSE Merge(h[k - 1], ivs[k])]
      <4>1. ASSUME NEW k \in 0 .. n
            PROVE  h[k] = IF k = 0 THEN <<>> ELSE Merge(h[k - 1], ivs[k])
        <5>1. k # 0 => h[k - 1] = g[k - 1]
          BY <2>6, <2>7
        <5> QED
          BY <5>1
      <4>2. h = [k \in 0 .. n |-> h[k]]
        OBVIOUS
      <4> HIDE DEF h
      <4> QED
        BY <4>1, <4>2
    <3> HIDE DEF h
    <3> QED
      BY <3>1
  <2> QED
    BY <2>2, <2>8
<1>2. \E g : Is(g, Len(ivs))
  BY <1>1
<1>3. MergedUpTo(ivs) = CHOOSE g : Is(g, Len(ivs))
  BY DEF MergedUpTo
<1>4. Is(MergedUpTo(ivs), Len(ivs))
  <2> HIDE DEF Is
  <2> QED
    BY <1>2, <1>3
<1>5. \A k \in 0 .. Len(ivs) :
        MergedUpTo(ivs)[k] = IF k = 0 THEN <<>> ELSE Merge(MergedUpTo(ivs)[k - 1], ivs[k])
  <2> DEFINE m == MergedUpTo(ivs)
  <2>1. Is(m, Len(ivs))
    BY <1>4
  <2> HIDE DEF m
  <2>2. ASSUME NEW k \in 0 .. Len(ivs)
        PROVE  m[k] = IF k = 0 THEN <<>> ELSE Merge(m[k - 1], ivs[k])
    BY <2>1
  <2> QED
    BY <2>2 DEF m
<1> QED
  BY <1>5

\* Intervals in order of their beginnings.
Ordered(ivs) ==
  /\ ivs \in Seq(Pairs)
  /\ \A j, k \in 1 .. Len(ivs) : j < k => ivs[j][1] <= ivs[k][1]

\* What the table is after each interval: apart, no longer than what was read, and holding
\* what one of the intervals read so far holds.
LEMMA MergedIsExact ==
    ASSUME NEW ivs, Ordered(ivs)
    PROVE  LET t == MergedUpTo(ivs)[Len(ivs)]
           IN  Apart(t) /\ \A a \in Nat : Holds(t, a) <=> Holds(ivs, a)
<1> DEFINE m == MergedUpTo(ivs)
           Right(k) ==
             /\ Apart(m[k])
             /\ m[k] # <<>> => k > 0 /\ m[k][Len(m[k])][1] <= ivs[k][1]
             /\ \A a \in Nat : Holds(m[k], a)
                                <=> \E i \in 1 .. k : ivs[i][1] <= a /\ a <= ivs[i][2]
           Wrong == {k \in 0 .. Len(ivs) : ~ Right(k)}
<1>1. /\ Len(ivs) \in Nat /\ \A k \in 1 .. Len(ivs) : ivs[k] \in Pairs
      /\ \A k \in 1 .. Len(ivs) : ivs[k][1] \in Nat /\ ivs[k][2] \in Nat
  <2>1. Len(ivs) \in Nat /\ \A k \in 1 .. Len(ivs) : ivs[k] \in Pairs
    BY DEF Ordered
  <2> QED
    BY <2>1 DEF Pairs
<1>2. \A k \in 0 .. Len(ivs) : m[k] = IF k = 0 THEN <<>> ELSE Merge(m[k - 1], ivs[k])
  BY <1>1, MergedSteps
<1> HIDE DEF m
<1>3. Right(0)
  <2>1. m[0] = <<>>
    BY <1>1, <1>2
  <2>2. Apart(<<>>) /\ \A a \in Nat : ~ Holds(<<>>, a)
    BY EmptySeq DEF Apart, Holds
  <2> QED
    BY <2>1, <2>2
<1>4. ASSUME NEW k \in 1 .. Len(ivs), Right(k - 1) PROVE Right(k)
  <2>1. k - 1 \in 0 .. Len(ivs) /\ k \in 0 .. Len(ivs) /\ k # 0
    BY <1>1
  <2>2. m[k] = Merge(m[k - 1], ivs[k])
    BY <1>2, <2>1
  <2>3. m[k - 1] # <<>> => m[k - 1][Len(m[k - 1])][1] <= ivs[k][1]
    <3>1. ASSUME m[k - 1] # <<>> PROVE m[k - 1][Len(m[k - 1])][1] <= ivs[k][1]
      <4>1. k - 1 \in 1 .. Len(ivs) /\ m[k - 1][Len(m[k - 1])][1] <= ivs[k - 1][1]
        BY <1>1, <1>4, <3>1
      <4>2. ivs[k - 1][1] <= ivs[k][1]
        BY <1>1, <4>1 DEF Ordered
      <4>3. m[k - 1][Len(m[k - 1])][1] \in Nat
        <5>1. m[k - 1] \in Seq(Pairs)
          BY <1>4 DEF Apart
        <5>2. m[k - 1][Len(m[k - 1])] \in Pairs
          BY <3>1, <5>1
        <5> QED
          BY <5>2 DEF Pairs
      <4> QED
        BY <1>1, <4>1, <4>2, <4>3
    <3> QED
      BY <3>1
  <2>4. Apart(m[k - 1]) /\ ivs[k] \in Pairs
    BY <1>1, <1>4
  <2>5. /\ Apart(m[k]) /\ m[k] # <<>> /\ m[k][Len(m[k])][1] <= ivs[k][1]
        /\ \A a \in Nat : Holds(m[k], a)
              <=> Holds(m[k - 1], a) \/ (ivs[k][1] <= a /\ a <= ivs[k][2])
    BY <2>2, <2>3, <2>4, MergeKeepsApart
  <2>6. ASSUME NEW a \in Nat
        PROVE  Holds(m[k], a) <=> \E i \in 1 .. k : ivs[i][1] <= a /\ a <= ivs[i][2]
    <3>1. Holds(m[k - 1], a) <=> \E i \in 1 .. k - 1 : ivs[i][1] <= a /\ a <= ivs[i][2]
      BY <1>4
    <3>2. k \in 1 .. k /\ \A i \in 1 .. k : i = k \/ i \in 1 .. k - 1
      BY <1>1
    <3>3. \A i \in 1 .. k - 1 : i \in 1 .. k
      BY <1>1
    <3> QED
      BY <2>5, <3>1, <3>2, <3>3
  <2> QED
    BY <1>1, <2>1, <2>5, <2>6
<1>5. Wrong = {}
  <2> SUFFICES ASSUME Wrong # {} PROVE FALSE
    OBVIOUS
  <2> HIDE DEF Right
  <2>1. PICK k \in Wrong : \A j \in Wrong : k <= j
    <3>1. Wrong \subseteq Nat
      BY <1>1
    <3> HIDE DEF Wrong
    <3> QED
      BY <3>1, MinOfNaturals
  <2>2. k \in 1 .. Len(ivs)
    BY <1>1, <1>3, <2>1
  <2>3. k - 1 \in 0 .. Len(ivs) /\ k - 1 \notin Wrong
    BY <1>1, <2>1, <2>2
  <2> QED
    BY <1>4, <2>2, <2>3
<1>6. Right(Len(ivs))
  <2> HIDE DEF Right
  <2> QED
    BY <1>1, <1>5
<1> QED
  BY <1>6 DEF m, Holds

\* One bisection finds the only interval that may hold the address.
LEMMA CoversIsHolds ==
    ASSUME NEW t, Apart(t), NEW a \in Nat PROVE Covers(t, a) <=> Holds(t, a)
<1> DEFINE n == Len(t)
           H == {k \in DOMAIN t : t[k][1] <= a}
           Behind == {m \in Nat \ {0} : m \notin H}
<1>1. /\ n \in Nat /\ DOMAIN t = 1 .. n
      /\ \A i \in 1 .. n : t[i][1] \in Nat /\ t[i][2] \in Nat /\ t[i][1] <= t[i][2]
      /\ \A i, j \in 1 .. n : i < j => t[i][2] + 1 < t[j][1]
  <2>1. t \in Seq(Pairs) /\ n \in Nat /\ DOMAIN t = 1 .. n /\ \A i \in 1 .. n : t[i] \in Pairs
    BY DEF Apart
  <2> QED
    BY <2>1 DEF Apart, Pairs
<1> HIDE DEF n
<1>2. PICK m \in Behind : \A k \in Behind : m <= k
  <2>1. n + 1 \in Behind
    BY <1>1
  <2>2. Behind \subseteq Nat /\ Behind # {}
    BY <2>1
  <2> HIDE DEF Behind
  <2> QED
    BY <2>2, MinOfNaturals
<1> DEFINE i == m - 1
<1>3. m \in Nat /\ m > 0 /\ i \in Nat
  OBVIOUS
<1>4. H = 1 .. i
  <2>1. ASSUME NEW k \in 1 .. i PROVE k \in H
    BY <1>2, <1>3
  <2>2. ASSUME NEW k \in H PROVE k \in 1 .. i
    <3>1. k \in 1 .. n /\ t[k][1] <= a /\ k # m
      BY <1>1, <1>2
    <3>2. CASE k < m
      BY <1>3, <3>1, <3>2
    <3>3. CASE m < k
      <4>1. m \in 1 .. n
        BY <1>1, <1>3, <3>1, <3>3
      <4>2. t[m][1] <= a
        BY <1>1, <3>1, <3>3, <4>1
      <4> QED
        BY <1>1, <1>2, <4>1, <4>2
    <3> QED
      BY <1>1, <1>3, <3>1, <3>2, <3>3
  <2> HIDE DEF H
  <2> QED
    BY <2>1, <2>2
<1>5. Cardinality(H) = i
  <2> HIDE DEF H
  <2> QED
    BY <1>3, <1>4, FS_Interval
<1>6. Covers(t, a) <=> i > 0 /\ a <= t[i][2]
  <2> HIDE DEF i
  <2> QED
    BY <1>5 DEF Covers
<1>7. \A k \in 1 .. i : k \in 1 .. n /\ t[k][1] <= a
  BY <1>1, <1>4
<1> HIDE DEF i
<1>8. ASSUME i > 0, a <= t[i][2] PROVE Holds(t, a)
  <2>1. i \in 1 .. i
    BY <1>3, <1>8
  <2> QED
    BY <1>7, <1>8, <2>1 DEF Holds, n
<1>9. ASSUME NEW k \in 1 .. n, t[k][1] <= a, a <= t[k][2] PROVE i > 0 /\ a <= t[i][2]
  <2>1. k \in 1 .. i
    BY <1>1, <1>4, <1>9
  <2>2. i > 0 /\ i \in 1 .. n /\ t[i][1] <= a
    BY <1>3, <1>7, <2>1
  <2>3. CASE k = i
    BY <1>9, <2>2, <2>3
  <2>4. CASE k # i
    <3>1. t[k][2] + 1 < t[i][1]
      BY <1>1, <1>3, <2>1, <2>2, <2>4
    <3> QED
      BY <1>1, <1>9, <2>2, <3>1
  <2> QED
    BY <2>3, <2>4
<1> QED
  BY <1>6, <1>8, <1>9 DEF Holds, n
-----------------------------------------------------------------------------
(* Networks and their intervals.                                             *)

\* An address has the network's prefix if it is not before its first address and not
\* behind its last one.
LEMMA NetworkIsInterval ==
    ASSUME NEW c \in Cidrs, NEW a \in Nat
    PROVE  /\ NetworkAddress(c) \in Nat /\ BroadcastAddress(c) \in Nat
           /\ NetworkAddress(c) <= BroadcastAddress(c)
           /\ InNetwork(a, c) <=> NetworkAddress(c) <= a /\ a <= BroadcastAddress(c)
<1> DEFINE s == Size(c)
           q == c.addr \div s
           r == a \div s
<1>1. s \in Nat /\ s > 0
  <2>1. c.len \in 0 .. Width
    BY DEF Cidrs
  <2>2. Width - c.len \in 0 .. Width
    BY <2>1, WidthAssumption
  <2>3. 2 ^ (Width - c.len) \in Nat \ {0}
    BY <2>2, WidthAssumption
  <2> QED
    BY <2>3 DEF Size
<1>2. c.addr \in Nat
  <2>1. c.addr \in Addresses
    BY DEF Cidrs
  <2> QED
    BY <2>1 DEF Addresses
<1> HIDE DEF s
<1>3. q \in Nat /\ r \in Nat /\ q * s \in Nat /\ r * s \in Nat
  BY <1>1, <1>2
<1>4. r * s <= a /\ a < r * s + s
  BY <1>1
<1> HIDE DEF q, r
<1>5. q < r => q * s + s <= r * s
  BY <1>1, <1>3
<1>6. r < q => r * s + s <= q * s
  BY <1>1, <1>3
<1>7. NetworkAddress(c) = q * s /\ BroadcastAddress(c) = q * s + s - 1
  BY DEF NetworkAddress, BroadcastAddress, q, s
<1>8. InNetwork(a, c) <=> r = q
  BY DEF InNetwork, q, r, s
<1> DEFINE qs == q * s
           rs == r * s
<1>9. q = r => qs = rs
  OBVIOUS
<1> HIDE DEF qs, rs
<1>10. q = r <=> qs <= a /\ a <= qs + s - 1
  BY <1>1, <1>3, <1>4, <1>5, <1>6, <1>9 DEF qs, rs
<1> QED
  BY <1>1, <1>3, <1>7, <1>8, <1>10 DEF qs

\* The intervals of a finite set of networks are in order, and hold what a scan finds.
LEMMA IntervalsProperties ==
    ASSUME NEW C, C \subseteq Cidrs, IsFiniteSet(C)
    PROVE  /\ Ordered(Intervals(C))
           /\ \A a \in Nat : Holds(Intervals(C), a) <=> \E c \in C : InNetwork(a, c)
<1> DEFINE Span(c) == <<NetworkAddress(c), BroadcastAddress(c)>>
           S == {Span(c) : c \in C}
           before == [x \in S |-> {y \in S : Before(y, x)}]
           ivs == Ranked(before)
<1>1. \A c \in C : Span(c) \in Pairs
  <2>1. \A c \in C : /\ NetworkAddress(c) \in Nat /\ BroadcastAddress(c) \in Nat
                     /\ NetworkAddress(c) <= BroadcastAddress(c)
    <3>1. 0 \in Nat
      OBVIOUS
    <3> QED
      BY <3>1, NetworkIsInterval
  <2> QED
    BY <2>1 DEF Pairs
<1>2. IsFiniteSet(S)
  <2> DEFINE f == [c \in C |-> Span(c)]
  <2>1. f \in [C -> S] /\ \A x \in S : \E c \in C : f[c] = x
    OBVIOUS
  <2> HIDE DEF f, S
  <2>2. f \in Surjection(C, S)
    BY <2>1 DEF Surjection
  <2> QED
    BY <2>2, FS_Surjection
<1>3. S \subseteq Pairs
  BY <1>1
<1>4. Intervals(C) = ivs
  BY DEF Intervals
<1>5. \A c \in C : Span(c) \in S
  OBVIOUS
<1>6. \A x \in S : \E c \in C : x = Span(c)
  OBVIOUS
<1>7. \A c \in C : Span(c)[1] = NetworkAddress(c) /\ Span(c)[2] = BroadcastAddress(c)
  OBVIOUS
<1> HIDE DEF S, Span
<1>8. \A x \in S : x \in Nat \X Nat /\ x[1] \in Nat /\ x[2] \in Nat /\ x = <<x[1], x[2]>>
  <2>1. \A x \in S : x \in Nat \X Nat
    BY <1>3 DEF Pairs
  <2> QED
    BY <2>1
<1>9. Orders(before)
  <2>1. DOMAIN before = S /\ \A x \in S : before[x] = {y \in S : Before(y, x)}
    OBVIOUS
  <2> HIDE DEF before
  <2>2. \A x \in S : before[x] \subseteq S /\ x \notin before[x]
    BY <1>8, <2>1 DEF Before
  <2>3. ASSUME NEW x \in S, NEW y \in S, y \in before[x] PROVE before[y] \subseteq before[x]
    <3> SUFFICES ASSUME NEW z \in before[y] PROVE z \in before[x]
      OBVIOUS
    <3>1. z \in S /\ Before(z, y) /\ Before(y, x)
      BY <2>1, <2>3
    <3>2. Before(z, x)
      BY <1>8, <3>1 DEF Before
    <3> QED
      BY <2>1, <3>1, <3>2
  <2>4. ASSUME NEW x \in S, NEW y \in S, x # y PROVE x \in before[y] \/ y \in before[x]
    <3>1. x[1] # y[1] \/ x[2] # y[2]
      BY <1>8, <2>4
    <3> QED
      BY <1>8, <2>1, <3>1 DEF Before
  <2> QED
    BY <1>2, <2>1, <2>2, <2>3, <2>4 DEF Orders
<1>10. DOMAIN before = S
  OBVIOUS
<1>11. /\ ivs \in Seq(S) /\ Len(ivs) \in Nat
       /\ \A x \in S : \E k \in 1 .. Len(ivs) : ivs[k] = x
       /\ \A j, k \in 1 .. Len(ivs) : j < k => ivs[j] \in before[ivs[k]]
  <2> HIDE DEF before
  <2> QED
    BY <1>9, <1>10, RankedProperties
<1>12. \A k \in 1 .. Len(ivs) : ivs[k] \in S
  <2> HIDE DEF ivs
  <2> QED
    BY <1>11
<1>13. Ordered(ivs)
  <2>1. ivs \in Seq(Pairs)
    <3> HIDE DEF ivs
    <3> QED
      BY <1>3, <1>11
  <2>2. ASSUME NEW j \in 1 .. Len(ivs), NEW k \in 1 .. Len(ivs), j < k
        PROVE  ivs[j][1] <= ivs[k][1]
    <3>1. Before(ivs[j], ivs[k])
      <4> HIDE DEF ivs
      <4> QED
        BY <1>11, <1>12, <2>2
    <3> HIDE DEF ivs
    <3> QED
      BY <1>8, <1>12, <3>1 DEF Before
  <2> HIDE DEF ivs
  <2> QED
    BY <2>1, <2>2 DEF Ordered
<1>14. ASSUME NEW a \in Nat
       PROVE  Holds(ivs, a) <=> \E c \in C : InNetwork(a, c)
  <2> HIDE DEF ivs
  <2>1. ASSUME NEW k \in 1 .. Len(ivs), ivs[k][1] <= a, a <= ivs[k][2]
        PROVE  \E c \in C : InNetwork(a, c)
    <3>1. PICK c \in C : ivs[k] = Span(c)
      BY <1>6, <1>12
    <3>2. c \in Cidrs /\ NetworkAddress(c) <= a /\ a <= BroadcastAddress(c)
      BY <1>7, <2>1, <3>1
    <3> QED
      BY <3>2, NetworkIsInterval
  <2>2. ASSUME NEW c \in C, InNetwork(a, c) PROVE Holds(ivs, a)
    <3>1. NetworkAddress(c) <= a /\ a <= BroadcastAddress(c)
      BY <2>2, NetworkIsInterval
    <3>2. PICK k \in 1 .. Len(ivs) : ivs[k] = Span(c)
      BY <1>5, <1>11
    <3> QED
      BY <1>7, <3>1, <3>2 DEF Holds
  <2> QED
    BY <2>1, <2>2 DEF Holds
<1> QED
  BY <1>4, <1>13, <1>14

\* The table that rebuild sorts and merges (geoip.py) of any finite set of networks has no two
\* intervals that touch, and contains finds in it exactly the addresses a scan of the networks would.
THEOREM RebuildIsExact ==
    ASSUME NEW C, C \subseteq Cidrs, IsFiniteSet(C)
    PROVE  /\ Apart(Rebuild(C))
           /\ \A a \in Nat : Covers(Rebuild(C), a) <=> \E c \in C : InNetwork(a, c)
<1>1. /\ Apart(Rebuild(C))
      /\ \A a \in Nat : Holds(Rebuild(C), a) <=> Holds(Intervals(C), a)
  BY IntervalsProperties, MergedIsExact DEF Rebuild
<1> QED
  BY <1>1, CoversIsHolds, IntervalsProperties

\* The tables of local networks are exact, as they are built when the program starts.
LEMMA GeoInitIsExact == ASSUME GeoInit PROVE IntervalsExact
<1>1. PICK a \in Cidrs, b \in Cidrs, c \in Cidrs : cidrs = {a, b, c}
  BY DEF GeoInit
<1>2. IsFiniteSet(cidrs) /\ cidrs \subseteq Cidrs
  <2>1. {a, b, c} = (({} \cup {a}) \cup {b}) \cup {c}
    OBVIOUS
  <2>2. IsFiniteSet({} \cup {a})
    BY FS_EmptySet, FS_AddElement
  <2>3. IsFiniteSet(({} \cup {a}) \cup {b})
    BY <2>2, FS_AddElement
  <2>4. IsFiniteSet((({} \cup {a}) \cup {b}) \cup {c})
    BY <2>3, FS_AddElement
  <2> QED
    BY <1>1, <2>1, <2>4
<1>3. /\ Apart(local)
      /\ \A x \in Nat : Covers(local, x) <=> \E n \in cidrs : InNetwork(x, n)
  BY <1>2, RebuildIsExact DEF GeoInit
<1>4. \A x \in Addresses : x \in Nat
  BY DEF Addresses
<1>5. ASSUME NEW k \in 2 .. Len(local) PROVE local[k - 1][2] + 1 < local[k][1]
  <2>1. Len(local) \in Nat
    BY <1>3 DEF Apart
  <2>2. k - 1 \in 1 .. Len(local) /\ k \in 1 .. Len(local) /\ k - 1 < k
    BY <2>1
  <2> QED
    BY <1>3, <2>2 DEF Apart
<1> QED
  BY <1>3, <1>4, <1>5 DEF IntervalsExact
-----------------------------------------------------------------------------
(* The rules.                                                                *)

\* A version's lists are in order of priority.
Descending(s) == \A i, j \in DOMAIN s : i < j => s[i].prio >= s[j].prio
InOrder(v) == Descending(v.domain) /\ Descending(v.ip)

Tables == [domain : Seq(RowsOf(DomainPats)), ip : Seq(RowsOf(IpPats)), default : Actions]
Newest == published[Len(published)]
Older == published[Len(published) - 1]

RulesTypeOK ==
  /\ gui \in {"ready", "editing", "swapDomain", "swapIp", "swapDefault", "write", "replace"}
  /\ engine \in Versions
  /\ file \in Broken \cup Contents
  /\ gui = "editing" => dialog \in Tables
  /\ gui \in {"swapDomain", "swapIp", "swapDefault"} => dialog \in Versions
  /\ published \in Seq(Versions) /\ published # <<>>
  /\ req.pc \in {"idle", "match", "readIp", "lookup", "matched"}

\* What the engine's attributes are of the versions published, at each of the three
\* assignments that replace them, and what is still to be assigned.
EngineIsPublished ==
  /\ \A k \in 1 .. Len(published) : InOrder(published[k])
  /\ gui \in {"swapDomain", "swapIp"} => /\ Len(published) > 1
                                         /\ engine.ip = Older.ip
                                         /\ Sorted(dialog.ip) = Newest.ip
  /\ gui = "swapDomain" => /\ engine.domain = Older.domain
                           /\ Sorted(dialog.domain) = Newest.domain
  /\ gui # "swapDomain" => engine.domain = Newest.domain
  /\ gui \notin {"swapDomain", "swapIp"} => engine.ip = Newest.ip

\* The lists a handler has read are lists of versions of its window, and its action is the
\* one they give.
RequestIsOfWindow ==
  /\ req.pc # "idle" => req.since \in 1 .. Len(published)
  /\ req.pc \in {"readIp", "lookup", "matched"} =>
       \E k \in Window : req.domain = published[k].domain
  /\ Matched => /\ \E k \in Window : req.iprules = published[k].ip
                /\ req.action = MatchExplicit(req.domain, req.iprules, req.host, req.known)
  /\ req.pc = "lookup" =>
       req = [pc |-> "lookup", host |-> req.host, ip |-> req.ip, looked |-> req.looked,
              since |-> req.since, domain |-> req.domain, iprules |-> req.iprules,
              known |-> req.known, action |-> req.action]

RulesInv == RulesTypeOK /\ EngineIsPublished /\ RequestIsOfWindow

\* Sorting keeps the rules and puts them in order of priority.
LEMMA SortedProperties ==
    ASSUME NEW R, \A r \in R : r.prio \in Int, NEW rules \in Seq(R)
    PROVE  Sorted(rules) \in Seq(R) /\ Descending(Sorted(rules))
<1> DEFINE n == Len(rules)
           before == [i \in DOMAIN rules |->
                        {j \in DOMAIN rules : \/ rules[j].prio > rules[i].prio
                                              \/ rules[j].prio = rules[i].prio /\ j < i}]
           order == Ranked(before)
<1>1. /\ n \in Nat /\ DOMAIN rules = 1 .. n /\ IsFiniteSet(1 .. n) /\ Cardinality(1 .. n) = n
      /\ \A i \in 1 .. n : rules[i] \in R /\ rules[i].prio \in Int
  <2>1. n \in Nat /\ DOMAIN rules = 1 .. n /\ \A i \in 1 .. n : rules[i] \in R
    OBVIOUS
  <2>2. IsFiniteSet(1 .. n) /\ Cardinality(1 .. n) = n
    BY <2>1, FS_Interval
  <2> QED
    BY <2>1, <2>2
<1>2. /\ DOMAIN before = 1 .. n
      /\ \A i \in 1 .. n : before[i] = {j \in 1 .. n : \/ rules[j].prio > rules[i].prio
                                                       \/ rules[j].prio = rules[i].prio /\ j < i}
  BY <1>1
<1> HIDE DEF before
<1>3. Orders(before)
  <2>1. \A i \in 1 .. n : before[i] \subseteq 1 .. n /\ i \notin before[i]
    BY <1>1, <1>2
  <2>2. ASSUME NEW i \in 1 .. n, NEW j \in 1 .. n, j \in before[i], NEW k \in before[j]
        PROVE  k \in before[i]
    BY <1>1, <1>2, <2>2
  <2>3. ASSUME NEW i \in 1 .. n, NEW j \in 1 .. n, i # j
        PROVE  i \in before[j] \/ j \in before[i]
    BY <1>1, <1>2, <2>3
  <2> QED
    BY <1>1, <1>2, <2>1, <2>2, <2>3 DEF Orders
<1>4. /\ order \in Seq(1 .. n) /\ Len(order) = n
      /\ \A j, k \in 1 .. n : j < k => order[j] \in before[order[k]]
  BY <1>1, <1>2, <1>3, RankedProperties
<1>5. Sorted(rules) = [k \in 1 .. n |-> rules[order[k]]]
  BY <1>1 DEF Sorted, before
<1> HIDE DEF order
<1>6. \A k \in 1 .. n : order[k] \in 1 .. n
  BY <1>4
<1>7. Sorted(rules) \in Seq(R)
  BY <1>1, <1>5, <1>6
<1>8. ASSUME NEW j \in 1 .. n, NEW k \in 1 .. n, j < k
      PROVE  rules[order[j]].prio >= rules[order[k]].prio
  <2>1. order[j] \in 1 .. n /\ order[k] \in 1 .. n /\ order[j] \in before[order[k]]
    BY <1>4, <1>6, <1>8
  <2>2. \/ rules[order[j]].prio > rules[order[k]].prio
        \/ rules[order[j]].prio = rules[order[k]].prio
    BY <1>2, <2>1, SMTT(30)
  <2> QED
    BY <1>1, <2>1, <2>2
<1> QED
  BY <1>5, <1>7, <1>8 DEF Descending

\* Skipping the rows without a pattern keeps the others.
LEMMA FilledProperties ==
    ASSUME NEW R, NEW rows \in Seq(R), NEW blank
    PROVE  Filled(rows, blank) \in Seq({r \in R : r.pat # blank})
<1> DEFINE kept == {i \in DOMAIN rows : rows[i].pat # blank}
           before == [i \in kept |-> {j \in kept : j < i}]
           order == Ranked(before)
<1>1. /\ kept \subseteq 1 .. Len(rows) /\ Len(rows) \in Nat
      /\ \A i \in kept : rows[i] \in R /\ rows[i].pat # blank
  OBVIOUS
<1>2. IsFiniteSet(kept)
  <2>1. IsFiniteSet(1 .. Len(rows))
    BY <1>1, FS_Interval
  <2> HIDE DEF kept
  <2> QED
    BY <1>1, <2>1, FS_Subset
<1>3. DOMAIN before = kept /\ \A i \in kept : before[i] = {j \in kept : j < i}
  OBVIOUS
<1>4. Filled(rows, blank) = [k \in DOMAIN order |-> rows[order[k]]]
  BY DEF Filled
<1> HIDE DEF before, kept
<1>5. Orders(before)
  BY <1>1, <1>2, <1>3 DEF Orders
<1>6. order \in Seq(kept)
  BY <1>3, <1>5, RankedProperties
<1> HIDE DEF order
<1>7. DOMAIN order = 1 .. Len(order) /\ Len(order) \in Nat
      /\ \A k \in 1 .. Len(order) : order[k] \in kept
  BY <1>6
<1> DEFINE m == Len(order)
           f == [k \in 1 .. m |-> rows[order[k]]]
<1>8. f \in [1 .. m -> {r \in R : r.pat # blank}]
  BY <1>1, <1>7
<1>9. f \in Seq({r \in R : r.pat # blank})
  <2> HIDE DEF f
  <2> QED
    BY <1>7, <1>8
<1> QED
  BY <1>4, <1>7, <1>9

\* One edit of a table leaves a table.
LEMMA EditedProperties ==
    ASSUME NEW R, NEW rows \in Seq(R), NEW Possible, Possible \subseteq R
    PROVE  Edited(rows, Possible) \subseteq Seq(R)
<1>1. \A r \in Possible : Append(rows, r) \in Seq(R)
  OBVIOUS
<1>2. ASSUME NEW i \in DOMAIN rows PROVE RemoveAt(rows, i) \in Seq(R)
  <2>1. i \in 1 .. Len(rows) /\ Len(rows) \in Nat
    OBVIOUS
  <2>2. SubSeq(rows, 1, i - 1) \in Seq(R)
    BY <2>1, SubSeqProperties
  <2>3. SubSeq(rows, i + 1, Len(rows)) \in Seq(R)
    BY <2>1, SubSeqProperties
  <2> QED
    BY <2>2, <2>3 DEF RemoveAt
<1>3. ASSUME NEW i \in DOMAIN rows, NEW r \in Possible
      PROVE  [rows EXCEPT ![i] = r] \in Seq(R)
  <2>1. i \in 1 .. Len(rows) /\ r \in R
    OBVIOUS
  <2> QED
    BY <2>1, ExceptSeq
<1> QED
  BY <1>1, <1>2, <1>3 DEF Edited

\* The first position of a list in order is that of a rule none of the others outranks.
LEMMA FirstOfProperties ==
    ASSUME NEW R, NEW s \in Seq(R), \A r \in R : r.prio \in Int /\ r.action \in Actions,
           Descending(s), NEW hits, hits \subseteq DOMAIN s
    PROVE  /\ hits = {} => FirstOf(s, hits) = None
           /\ hits # {} => /\ FirstOf(s, hits) # None
                           /\ \E i \in hits : /\ s[i].action = FirstOf(s, hits)
                                              /\ \A j \in hits : s[j].prio <= s[i].prio
<1>1. hits \subseteq Nat /\ \A i \in hits : i \in DOMAIN s /\ s[i] \in R
  OBVIOUS
<1>2. ASSUME hits # {}
      PROVE  Min(hits) \in hits /\ \A j \in hits : Min(hits) <= j
  <2>1. \E m \in hits : \A j \in hits : m <= j
    BY <1>1, <1>2, MinOfNaturals
  <2> QED
    BY <2>1 DEF Min
<1>3. ASSUME hits # {}, NEW j \in hits PROVE s[j].prio <= s[Min(hits)].prio
  <2>1. Min(hits) \in Nat /\ j \in Nat /\ (Min(hits) < j \/ Min(hits) = j)
    BY <1>1, <1>2, <1>3
  <2>2. s[j].prio \in Int /\ s[Min(hits)].prio \in Int
    BY <1>1, <1>2, <1>3
  <2>3. Min(hits) < j => s[Min(hits)].prio >= s[j].prio
    BY <1>1, <1>2, <1>3 DEF Descending
  <2> QED
    BY <2>1, <2>2, <2>3
<1>4. hits # {} => s[Min(hits)].action \in Actions
  BY <1>1, <1>2
<1> QED
  BY <1>2, <1>3, <1>4, RulesAssumption DEF FirstOf

\* The parts of a version of the rules.
LEMMA VersionFacts ==
    ASSUME NEW v \in Versions
    PROVE  /\ v.domain \in Seq(RulesOf(DomainPats)) /\ v.ip \in Seq(RulesOf(IpPats))
           /\ v.default \in Actions
           /\ v = [domain |-> v.domain, ip |-> v.ip, default |-> v.default]
  BY DEF Versions

\* What is published is a version in order.
LEMMA SortedVersionProperties ==
    ASSUME NEW v \in Versions
    PROVE  SortedVersion(v) \in Versions /\ InOrder(SortedVersion(v))
<1>1. \A P : \A r \in RulesOf(P) : r.prio \in Int
  BY DEF RulesOf
<1>2. /\ Sorted(v.domain) \in Seq(RulesOf(DomainPats)) /\ Descending(Sorted(v.domain))
      /\ Sorted(v.ip) \in Seq(RulesOf(IpPats)) /\ Descending(Sorted(v.ip))
  BY <1>1, VersionFacts, SortedProperties
<1> QED
  BY <1>2, VersionFacts DEF SortedVersion, InOrder, Versions

\* So is what is loaded at a start.
LEMMA LoadedProperties ==
    ASSUME NEW f \in Broken \cup Contents
    PROVE  Loaded(f) \in Versions /\ InOrder(Loaded(f))
<1>1. Defaults \in Versions
  BY RulesAssumption
<1>2. f \notin Broken => f.rules \in Versions
  BY DEF Contents
<1> QED
  BY <1>1, <1>2, SortedVersionProperties DEF Loaded

\* The rows of a dialog without an invalid network make a version.
LEMMA DialogRulesProperties ==
    ASSUME dialog \in Tables,
           \A i \in DOMAIN dialog.ip : Valid(dialog.ip[i].pat) \/ dialog.ip[i].pat = BlankIp
    PROVE  DialogRules \in Versions
<1> DEFINE d == Filled(dialog.domain, Blank)
           i == Filled(dialog.ip, BlankIp)
           V == {r \in RowsOf(IpPats) : Valid(r.pat) \/ r.pat = BlankIp}
           W == {r \in V : r.pat # BlankIp}
<1>1. /\ dialog.domain \in Seq(RowsOf(DomainPats)) /\ dialog.ip \in Seq(RowsOf(IpPats))
      /\ dialog.default \in Actions
  BY DEF Tables
<1>2. dialog.ip \in Seq(V)
  <2>1. \A k \in 1 .. Len(dialog.ip) : dialog.ip[k] \in V
    BY <1>1
  <2> HIDE DEF V
  <2> QED
    BY <1>1, <2>1
<1>3. d \in Seq({r \in RowsOf(DomainPats) : r.pat # Blank})
  BY <1>1, FilledProperties
<1>4. i \in Seq(W)
  BY <1>2, FilledProperties
<1>5. /\ DOMAIN d = 1 .. Len(d) /\ Len(d) \in Nat
      /\ \A k \in 1 .. Len(d) : d[k] \in RowsOf(DomainPats)
  <2> HIDE DEF d
  <2> QED
    BY <1>3
<1>6. /\ DOMAIN i = 1 .. Len(i) /\ Len(i) \in Nat
      /\ \A k \in 1 .. Len(i) : i[k] \in W
  <2> HIDE DEF i, W
  <2> QED
    BY <1>4
<1>7. \A r \in RowsOf(DomainPats) : DomainRule(r) \in RulesOf(DomainPats)
  BY DEF RowsOf, RulesOf, DomainRule
<1>8. ASSUME NEW r \in W PROVE IpRule(r) \in RulesOf(IpPats)
  <2>1. /\ r.pat \in IpPats /\ r.pat.len <= Width /\ r.pat.addr \in Addresses
        /\ r.action \in Actions /\ r.prio \in Int
    BY DEF RowsOf, IpPats, Valid
  <2>2. r.pat \in Cidrs /\ r.pat.len \in 0 .. Width + 2
    <3>1. r.pat = [addr |-> r.pat.addr, len |-> r.pat.len] /\ r.pat.len \in 0 .. Width
      BY <2>1, WidthAssumption DEF IpPats
    <3> QED
      BY <2>1, <3>1, WidthAssumption DEF Cidrs
  <2>3. NetworkAddress(r.pat) \in Addresses
    <3>1. r.pat.addr \in Nat /\ r.pat.addr <= 2 ^ Width - 1
      BY <2>1 DEF Addresses
    <3>2. InNetwork(r.pat.addr, r.pat)
      BY DEF InNetwork
    <3>3. NetworkAddress(r.pat) \in Nat /\ NetworkAddress(r.pat) <= r.pat.addr
      BY <2>2, <3>1, <3>2, NetworkIsInterval
    <3>4. 2 ^ Width \in Nat
      BY WidthAssumption
    <3> QED
      BY <3>1, <3>3, <3>4 DEF Addresses
  <2> QED
    BY <2>1, <2>2, <2>3 DEF IpRule, RulesOf, IpPats
<1> DEFINE ds == [k \in DOMAIN d |-> DomainRule(d[k])]
           is == [k \in DOMAIN i |-> IpRule(i[k])]
<1>9. DialogRules = [domain |-> ds, ip |-> is, default |-> dialog.default]
  BY DEF DialogRules
<1>10. ds \in Seq(RulesOf(DomainPats))
  <2> HIDE DEF d
  <2>1. ds \in [1 .. Len(d) -> RulesOf(DomainPats)]
    BY <1>5, <1>7
  <2> HIDE DEF ds
  <2> QED
    BY <1>5, <2>1
<1>11. is \in Seq(RulesOf(IpPats))
  <2> HIDE DEF i, W
  <2>1. is \in [1 .. Len(i) -> RulesOf(IpPats)]
    BY <1>6, <1>8
  <2> HIDE DEF is
  <2> QED
    BY <1>6, <2>1
<1> QED
  BY <1>1, <1>9, <1>10, <1>11 DEF Versions

-----------------------------------------------------------------------------
(* The invariant of the rules, action by action.                            *)

\* The first state.
LEMMA RulesInitHolds == ASSUME Init PROVE RulesInv
<1>1. engine \in Versions /\ InOrder(engine) /\ file \in Broken \cup Contents
  BY RulesAssumption, LoadedProperties DEF Init
<1>2. published = <<engine>> /\ gui = "ready" /\ req = NoRequest
  BY DEF Init
<1>3. /\ published \in Seq(Versions) /\ Len(published) = 1 /\ published[1] = engine
      /\ published # <<>>
  BY <1>1, <1>2
<1> QED
  BY <1>1, <1>2, <1>3 DEF RulesInv, RulesTypeOK, EngineIsPublished, RequestIsOfWindow,
     NoRequest, Matched, Newest

\* A handler's view does not change while it does nothing and nothing is published.
LEMMA RequestKept ==
    ASSUME RequestIsOfWindow, req' = req, published' = published PROVE RequestIsOfWindow'
  BY DEF RequestIsOfWindow, Matched, Window

\* The dialog's table of a list of rules.
LEMMA RowsProperties ==
    ASSUME NEW P, NEW rules \in Seq(RulesOf(P))
    PROVE  [i \in DOMAIN rules |-> Row(rules[i])] \in Seq(RowsOf(P))
<1> DEFINE n == Len(rules)
           rows == [i \in DOMAIN rules |-> Row(rules[i])]
<1>1. n \in Nat /\ DOMAIN rules = 1 .. n /\ \A i \in 1 .. n : rules[i] \in RulesOf(P)
  OBVIOUS
<1>2. \A r \in RulesOf(P) : Row(r) \in RowsOf(P)
  BY DEF RulesOf, RowsOf, Row
<1>3. rows \in [1 .. n -> RowsOf(P)]
  BY <1>1, <1>2
<1> HIDE DEF rows
<1> QED
  BY <1>1, <1>3 DEF rows

\* The steps of the editor that publish nothing.
LEMMA EditingKeeps ==
    ASSUME RulesInv, OpenEditor \/ Edit \/ Cancel PROVE RulesInv'
<1>1. CASE OpenEditor
  <2>1. /\ gui = "ready" /\ gui' = "editing"
        /\ UNCHANGED <<engine, file, req, published>>
    BY <1>1 DEF OpenEditor
  <2>2. dialog' \in Tables
    <3> DEFINE ds == [i \in DOMAIN engine.domain |-> Row(engine.domain[i])]
               is == [i \in DOMAIN engine.ip |-> Row(engine.ip[i])]
    <3>1. /\ engine.domain \in Seq(RulesOf(DomainPats)) /\ engine.ip \in Seq(RulesOf(IpPats))
          /\ engine.default \in Actions
      BY VersionFacts DEF RulesInv, RulesTypeOK
    <3>2. ds \in Seq(RowsOf(DomainPats)) /\ is \in Seq(RowsOf(IpPats))
      BY <3>1, RowsProperties
    <3>3. dialog' = [domain |-> ds, ip |-> is, default |-> engine.default]
      BY <1>1 DEF OpenEditor
    <3> HIDE DEF ds, is
    <3> QED
      BY <3>1, <3>2, <3>3 DEF Tables
  <2> QED
    BY <2>1, <2>2, RequestKept DEF RulesInv, RulesTypeOK, EngineIsPublished, Newest, Older
<1>2. CASE Edit
  <2>1. gui = "editing" /\ UNCHANGED <<engine, gui, file, req, published>>
    BY <1>2 DEF Edit
  <2>2. dialog' \in Tables
    <3>1. dialog \in Tables
      BY <2>1 DEF RulesInv, RulesTypeOK
    <3>2. dialog.domain \in Seq(RowsOf(DomainPats)) /\ dialog.ip \in Seq(RowsOf(IpPats))
      BY <3>1 DEF Tables
    <3>3. /\ Edited(dialog.domain, DomainRows) \subseteq Seq(RowsOf(DomainPats))
          /\ Edited(dialog.ip, IpRows) \subseteq Seq(RowsOf(IpPats))
      BY <3>2, EditedProperties, RulesAssumption
    <3>4. \/ \E rows \in Seq(RowsOf(DomainPats)) : dialog' = [dialog EXCEPT !.domain = rows]
          \/ \E rows \in Seq(RowsOf(IpPats)) : dialog' = [dialog EXCEPT !.ip = rows]
          \/ \E a \in Actions : dialog' = [dialog EXCEPT !.default = a]
      BY <1>2, <3>3 DEF Edit
    <3> QED
      BY <3>1, <3>4 DEF Tables
  <2> QED
    BY <2>1, <2>2, RequestKept DEF RulesInv, RulesTypeOK, EngineIsPublished, Newest, Older
<1>3. CASE Cancel
  <2>1. gui = "editing" /\ gui' = "ready" /\ UNCHANGED <<engine, file, req, published>>
    BY <1>3 DEF Cancel
  <2> QED
    BY <2>1, RequestKept DEF RulesInv, RulesTypeOK, EngineIsPublished, Newest, Older
<1> QED
  BY <1>1, <1>2, <1>3

\* The save button publishes a version that the engine does not have yet.
LEMMA AcceptKeeps == ASSUME RulesInv, Accept PROVE RulesInv'
<1> DEFINE v == DialogRules
           n == Len(published)
<1>1. /\ gui = "editing" /\ gui' = "swapDomain" /\ dialog' = v /\ engine' = engine
      /\ published' = Append(published, SortedVersion(v))
      /\ UNCHANGED <<file, req>>
  BY DEF Accept, EngineAfterAccept
<1>2. v \in Versions
  BY <1>1, DialogRulesProperties DEF Accept, RulesInv, RulesTypeOK
<1> HIDE DEF v
<1>3. SortedVersion(v) \in Versions /\ InOrder(SortedVersion(v))
  BY <1>2, SortedVersionProperties
<1>4. published \in Seq(Versions) /\ n \in Nat /\ n > 0
  BY DEF RulesInv, RulesTypeOK
<1>5. /\ published' \in Seq(Versions) /\ published' # <<>> /\ Len(published') = n + 1
      /\ published'[n + 1] = SortedVersion(v) /\ \A k \in 1 .. n : published'[k] = published[k]
      /\ DOMAIN published' = 1 .. n + 1 /\ DOMAIN published = 1 .. n
  BY <1>1, <1>3, <1>4
<1>6. /\ SortedVersion(v).domain = Sorted(v.domain) /\ SortedVersion(v).ip = Sorted(v.ip)
  BY DEF SortedVersion
<1>7. RulesTypeOK'
  BY <1>1, <1>2, <1>5 DEF RulesInv, RulesTypeOK
<1>8. EngineIsPublished'
  <2>1. Newest' = SortedVersion(v) /\ Older' = Newest
    BY <1>4, <1>5 DEF Newest, Older
  <2>2. \A k \in 1 .. n + 1 : InOrder(published'[k])
    BY <1>3, <1>4, <1>5 DEF RulesInv, EngineIsPublished
  <2>3. engine.domain = Newest.domain /\ engine.ip = Newest.ip
    BY <1>1 DEF RulesInv, EngineIsPublished
  <2> HIDE DEF n
  <2> QED
    BY <1>1, <1>4, <1>5, <1>6, <2>1, <2>2, <2>3 DEF EngineIsPublished
<1>9. RequestIsOfWindow'
  <2>1. \A k \in Window : k \in Window' /\ published'[k] = published[k]
    BY <1>1, <1>4, <1>5 DEF Window
  <2>2. Matched' <=> Matched
    BY <1>1 DEF Matched
  <2>3. \A k \in 1 .. n : k \in 1 .. n + 1
    BY <1>4
  <2> QED
    BY <1>1, <1>5, <2>1, <2>2, <2>3 DEF RulesInv, RequestIsOfWindow
<1> QED
  BY <1>7, <1>8, <1>9 DEF RulesInv

\* The three assignments, one after the other.
LEMMA SwapKeeps ==
    ASSUME RulesInv, SwapDomain \/ SwapIp \/ SwapDefault PROVE RulesInv'
<1>1. /\ engine \in Versions /\ Newest \in Versions
      /\ UNCHANGED <<dialog, file, req, published>> /\ RequestIsOfWindow'
  <2>1. UNCHANGED <<dialog, file, req, published>>
    BY DEF SwapDomain, SwapIp, SwapDefault, Swap
  <2> QED
    BY <2>1, RequestKept DEF RulesInv, RulesTypeOK, Newest
<1>2. /\ engine = [domain |-> engine.domain, ip |-> engine.ip, default |-> engine.default]
      /\ Newest.domain \in Seq(RulesOf(DomainPats)) /\ Newest.ip \in Seq(RulesOf(IpPats))
  BY <1>1, VersionFacts
<1>3. Newest' = Newest /\ Older' = Older
  BY <1>1 DEF Newest, Older
<1>4. CASE SwapDomain
  <2>1. /\ gui = "swapDomain" /\ gui' = "swapIp"
        /\ engine' = [engine EXCEPT !.domain = Newest.domain]
    BY <1>4 DEF SwapDomain, Swap, RulesInv, EngineIsPublished
  <2>2. engine'.domain = Newest.domain /\ engine'.ip = engine.ip /\ engine' \in Versions
    BY <1>1, <1>2, <2>1 DEF Versions
  <2>3. RulesTypeOK'
    BY <1>1, <2>1, <2>2 DEF RulesInv, RulesTypeOK
  <2>4. EngineIsPublished'
    BY <1>1, <1>3, <2>1, <2>2 DEF RulesInv, EngineIsPublished
  <2> QED
    BY <1>1, <2>3, <2>4 DEF RulesInv
<1>5. CASE SwapIp
  <2>1. /\ gui = "swapIp" /\ gui' = "swapDefault"
        /\ engine' = [engine EXCEPT !.ip = Newest.ip]
    BY <1>5 DEF SwapIp, Swap, RulesInv, EngineIsPublished
  <2>2. engine'.ip = Newest.ip /\ engine'.domain = engine.domain /\ engine' \in Versions
    BY <1>1, <1>2, <2>1 DEF Versions
  <2>3. RulesTypeOK'
    BY <1>1, <2>1, <2>2 DEF RulesInv, RulesTypeOK
  <2>4. EngineIsPublished'
    BY <1>1, <1>3, <2>1, <2>2 DEF RulesInv, EngineIsPublished
  <2> QED
    BY <1>1, <2>3, <2>4 DEF RulesInv
<1>6. CASE SwapDefault
  <2>1. /\ gui = "swapDefault" /\ gui' = "write" /\ dialog \in Versions
        /\ engine' = [engine EXCEPT !.default = dialog.default]
    BY <1>6 DEF SwapDefault, Swap, RulesInv, RulesTypeOK
  <2>2. engine'.ip = engine.ip /\ engine'.domain = engine.domain /\ engine' \in Versions
    BY <1>1, <1>2, <2>1 DEF Versions
  <2>3. RulesTypeOK'
    BY <1>1, <2>1, <2>2 DEF RulesInv, RulesTypeOK
  <2>4. EngineIsPublished'
    BY <1>1, <1>3, <2>1, <2>2 DEF RulesInv, EngineIsPublished
  <2> QED
    BY <1>1, <2>3, <2>4 DEF RulesInv
<1> QED
  BY <1>4, <1>5, <1>6

\* The save of the file, and what ends it.
LEMMA SavingKeeps ==
    ASSUME RulesInv, WriteTmp \/ ReplaceFile \/ SaveFails PROVE RulesInv'
<1>1. /\ gui \in {"write", "replace"} /\ gui' \in {"ready", "replace"}
      /\ UNCHANGED <<engine, req, published>>
  BY DEF WriteTmp, ReplaceFile, SaveFails
<1>2. file' \in Broken \cup Contents
  <2>1. file' = file \/ file' = Content(engine)
    BY DEF WriteTmp, ReplaceFile, SaveFails, FileWhileWriting
  <2> QED
    BY <2>1 DEF RulesInv, RulesTypeOK, Content, Contents
<1> QED
  BY <1>1, <1>2, RequestKept DEF RulesInv, RulesTypeOK, EngineIsPublished, Newest, Older

\* A start.
LEMMA RestartKeeps == ASSUME RulesInv, Restart PROVE RulesInv'
<1>1. /\ engine' = Loaded(file) /\ published' = <<Loaded(file)>> /\ gui' = "ready"
      /\ req' = NoRequest /\ file' = file
  BY DEF Restart
<1>2. Loaded(file) \in Versions /\ InOrder(Loaded(file)) /\ file \in Broken \cup Contents
  BY LoadedProperties DEF RulesInv, RulesTypeOK
<1>3. /\ published' \in Seq(Versions) /\ Len(published') = 1 /\ published'[1] = Loaded(file)
      /\ published' # <<>>
  BY <1>1, <1>2
<1> QED
  BY <1>1, <1>2, <1>3 DEF RulesInv, RulesTypeOK, EngineIsPublished, RequestIsOfWindow,
     NoRequest, Matched, Newest

\* A handler reads the lists one after the other.
LEMMA HandlerKeeps == ASSUME RulesInv, Handler PROVE RulesInv'
<1> DEFINE n == Len(published)
<1>1. UNCHANGED <<engine, gui, dialog, file, published>>
  BY DEF Handler, Ask, ReadDomain, ReadIp, Resolved, Go
<1>2. published \in Seq(Versions) /\ n \in Nat /\ n > 0 /\ DOMAIN published = 1 .. n
  BY DEF RulesInv, RulesTypeOK
<1>3. EngineIsPublished'
  BY <1>1 DEF RulesInv, EngineIsPublished, Newest, Older
<1>4. ASSUME req.pc # "idle"
      PROVE  /\ \E k \in Window : engine.domain = published[k].domain
             /\ \E k \in Window : engine.ip = published[k].ip
  <2>1. req.since \in 1 .. n
    BY <1>4 DEF RulesInv, RequestIsOfWindow
  <2>2. n \in Window /\ (n > 1 => n - 1 \in Window)
    BY <1>2, <2>1 DEF Window
  <2>3. /\ engine.domain = published[n].domain \/ (n > 1 /\ engine.domain = published[n - 1].domain)
        /\ engine.ip = published[n].ip \/ (n > 1 /\ engine.ip = published[n - 1].ip)
    BY DEF RulesInv, EngineIsPublished, Newest, Older
  <2> QED
    BY <2>2, <2>3
<1>5. RulesTypeOK' <=> req'.pc \in {"idle", "match", "readIp", "lookup", "matched"}
  BY <1>1 DEF RulesInv, RulesTypeOK
<1>6. CASE Ask
  <2>1. req'.pc = "match" /\ req'.since = n
    BY <1>6 DEF Ask
  <2> QED
    BY <1>1, <1>2, <1>3, <1>5, <2>1 DEF RulesInv, RequestIsOfWindow, Matched
<1>7. CASE ReadDomain
  <2>1. /\ req.pc = "match" /\ req'.pc = "readIp" /\ req'.since = req.since
        /\ req'.domain = engine.domain
    BY <1>7 DEF ReadDomain, Go
  <2>2. Window' = Window
    BY <1>1, <2>1 DEF Window
  <2> QED
    BY <1>1, <1>3, <1>4, <1>5, <2>1, <2>2 DEF RulesInv, RequestIsOfWindow, Matched
<1>8. CASE ReadIp
  <2>1. /\ req.pc = "readIp" /\ req'.pc \in {"lookup", "matched"} /\ req'.since = req.since
        /\ req'.domain = req.domain /\ req'.iprules = engine.ip
        /\ req'.action = MatchExplicit(req'.domain, req'.iprules, req'.host, req'.known)
        /\ req' = [pc |-> req'.pc, host |-> req'.host, ip |-> req'.ip, looked |-> req'.looked,
                   since |-> req'.since, domain |-> req'.domain, iprules |-> req'.iprules,
                   known |-> req'.known, action |-> req'.action]
    BY <1>8 DEF ReadIp, Go
  <2>2. Window' = Window
    BY <1>1, <2>1 DEF Window
  <2>3. \E k \in Window : req.domain = published[k].domain
    BY <2>1 DEF RulesInv, RequestIsOfWindow
  <2> QED
    BY <1>1, <1>3, <1>4, <1>5, <2>1, <2>2, <2>3 DEF RulesInv, RequestIsOfWindow, Matched
<1>9. CASE Resolved
  <2>1. req.pc = "lookup"
    BY <1>9 DEF Resolved
  <2>2. CASE req.action = None
    <3>1. req'.pc = "match" /\ req'.since = n
      BY <1>9, <2>2 DEF Resolved, Go
    <3> QED
      BY <1>1, <1>2, <1>3, <1>5, <3>1 DEF RulesInv, RequestIsOfWindow, Matched
  <2>3. CASE req.action # None
    <3>1. PICK a : req' = [req EXCEPT !.pc = "matched", !.ip = a, !.looked = TRUE]
      BY <1>9, <2>3 DEF Resolved, Go
    <3>2. req = [pc |-> "lookup", host |-> req.host, ip |-> req.ip, looked |-> req.looked,
                 since |-> req.since, domain |-> req.domain, iprules |-> req.iprules,
                 known |-> req.known, action |-> req.action]
      BY <2>1 DEF RulesInv, RequestIsOfWindow
    <3>3. /\ req'.pc = "matched" /\ req'.since = req.since /\ req'.domain = req.domain
          /\ req'.iprules = req.iprules /\ req'.host = req.host /\ req'.known = req.known
          /\ req'.action = req.action
      <4>1. DOMAIN req = {"pc", "host", "ip", "looked", "since", "domain", "iprules", "known",
                          "action"}
        BY <3>2
      <4> QED
        BY <3>1, <4>1
    <3>4. Window' = Window
      BY <1>1, <3>3 DEF Window
    <3> QED
      BY <1>1, <1>3, <1>5, <2>1, <3>3, <3>4 DEF RulesInv, RequestIsOfWindow, Matched
  <2> QED
    BY <2>2, <2>3
<1> QED
  BY <1>6, <1>7, <1>8, <1>9 DEF Handler

\* Every step keeps the invariant.
LEMMA RulesStep == ASSUME RulesInv, [Next]_vars PROVE RulesInv'
<1>1. CASE UNCHANGED vars
  BY <1>1, RequestKept DEF vars, RulesInv, RulesTypeOK, EngineIsPublished, Newest, Older
<1> QED
  BY <1>1, EditingKeeps, AcceptKeeps, SwapKeeps, SavingKeeps, RestartKeeps, HandlerKeeps
  DEF Next, Editor, Publish

\* The invariant holds in every state.
LEMMA RulesInvHolds == Spec => []RulesInv
<1>1. Init => RulesInv
  BY RulesInitHolds
<1>2. RulesInv /\ [Next]_vars => RulesInv'
  BY RulesStep
<1> QED
  BY <1>1, <1>2, PTL DEF Spec

-----------------------------------------------------------------------------
(* The theorems.                                                            *)

\* Type invariant of the rules: versions are lists of rules, whatever is edited or loaded.
THEOREM TypeCorrect == Spec => []RulesTypeOK
<1>1. RulesInv => RulesTypeOK
  BY DEF RulesInv
<1> QED
  BY <1>1, RulesInvHolds, PTL

\* The merged tables of networks answer for every address what a scan would (geoip.py:45-51):
\* they are exact when they are built, and nothing changes them afterwards.
THEOREM TablesAreExact == Spec => []IntervalsExact
<1>1. Init => IntervalsExact
  BY GeoInitIsExact DEF Init
<1>2. IntervalsExact /\ [Next]_vars => IntervalsExact'
  <2> SUFFICES ASSUME IntervalsExact, [Next]_vars PROVE IntervalsExact'
    OBVIOUS
  <2>1. UNCHANGED <<cidrs, local>>
    BY DEF vars, Next, Editor, Publish, Handler, OpenEditor, Edit, Cancel, Accept, SwapDomain,
       SwapIp, SwapDefault, Swap, WriteTmp, ReplaceFile, SaveFails, Restart, Ask, ReadDomain,
       ReadIp, Resolved, Go, geo
  <2> QED
    BY <2>1 DEF IntervalsExact
<1> QED
  BY <1>1, <1>2, PTL DEF Spec

\* A rule that every version of the window has decides for its host, however the GUI thread
\* and the handler switch: the lists read are lists of those versions (rule_engine.py:91-95).
THEOREM KeptRulesDecide == Spec => []KeptRuleDecides
<1>1. ASSUME RulesInv PROVE KeptRuleDecides
  <2> SUFFICES ASSUME Matched, NEW a \in Actions,
                      \/ /\ req.host.ip = None
                         /\ \A k \in Window : ByName(published[k].domain, req.host) = a
                      \/ \A k \in Window : ByIp(published[k].ip, req.host.ip) = a
               PROVE  req.action = a
    BY DEF KeptRuleDecides
  <2>1. PICK d \in Window : req.domain = published[d].domain
    BY <1>1 DEF RulesInv, RequestIsOfWindow, Matched
  <2>2. PICK i \in Window : req.iprules = published[i].ip
    BY <1>1 DEF RulesInv, RequestIsOfWindow
  <2>3. req.action = MatchExplicit(req.domain, req.iprules, req.host, req.known)
    BY <1>1 DEF RulesInv, RequestIsOfWindow
  <2>4. a # None
    BY RulesAssumption
  <2>5. CASE \A k \in Window : ByIp(published[k].ip, req.host.ip) = a
    <3>1. ByIp(req.iprules, req.host.ip) = a
      BY <2>2, <2>5
    <3> QED
      BY <2>3, <2>4, <3>1 DEF MatchExplicit
  <2>6. CASE req.host.ip = None /\ \A k \in Window : ByName(published[k].domain, req.host) = a
    <3>1. ByName(req.domain, req.host) = a
      BY <2>1, <2>6
    <3>2. ByIp(req.iprules, req.host.ip) = None
      BY <2>6 DEF ByIp
    <3> QED
      BY <2>3, <2>4, <3>1, <3>2 DEF MatchExplicit
  <2> QED
    BY <2>5, <2>6
<1> QED
  BY <1>1, RulesInvHolds, PTL

\* A list in order, matched from its beginning, gives the action of a rule that matches and
\* that none of those that match outranks, or none if none matches.
LEMMA FirstHit ==
    ASSUME NEW P, NEW s \in Seq(RulesOf(P)), Descending(s),
           NEW hits, hits \subseteq DOMAIN s
    PROVE  LET R == {s[i] : i \in hits}
           IN  /\ R = {} => FirstOf(s, hits) = None
               /\ R # {} => /\ FirstOf(s, hits) # None
                            /\ \E r \in R : r.action = FirstOf(s, hits)
                                            /\ \A q \in R : q.prio <= r.prio
<1>1. \A r \in RulesOf(P) : r.prio \in Int /\ r.action \in Actions
  BY DEF RulesOf
<1>2. /\ hits = {} => FirstOf(s, hits) = None
      /\ hits # {} => /\ FirstOf(s, hits) # None
                      /\ \E i \in hits : /\ s[i].action = FirstOf(s, hits)
                                         /\ \A j \in hits : s[j].prio <= s[i].prio
  BY <1>1, FirstOfProperties
<1>3. ASSUME hits # {}
      PROVE  \E r \in {s[i] : i \in hits} : /\ r.action = FirstOf(s, hits)
                                            /\ \A q \in {s[i] : i \in hits} : q.prio <= r.prio
  <2>1. PICK i \in hits : /\ s[i].action = FirstOf(s, hits)
                          /\ \A j \in hits : s[j].prio <= s[i].prio
    BY <1>2, <1>3
  <2> QED
    BY <2>1
<1> QED
  BY <1>2, <1>3

\* The action is that of a matching rule which no other that matches outranks, and none is
\* passed over for the default (rule_engine.py:105-113): the lists read were sorted before
\* they were published.
THEOREM BestRuleWins == Spec => []HighestPriorityWins
<1>1. ASSUME RulesInv PROVE HighestPriorityWins
  <2> SUFFICES ASSUME Matched
               PROVE  IF Hits = {} THEN req.action = None
                      ELSE \E r \in Hits : /\ r.action = req.action
                                           /\ \A q \in Hits : q.prio <= r.prio
    BY DEF HighestPriorityWins
  <2> DEFINE d == req.domain
             p == req.iprules
             Own == {i \in DOMAIN p : IpMatches(p[i], req.host.ip)}
             Named == {i \in DOMAIN d : DomainMatches(d[i], req.host)}
             Known == {i \in DOMAIN p : IpMatches(p[i], req.known)}
             Of(s, hits) == {s[i] : i \in hits}
             own == {r \in Range(p) : req.host.ip # None /\ IpMatches(r, req.host.ip)}
             named == {r \in Range(d) : DomainMatches(r, req.host)}
             resolved == {r \in Range(p) : req.known # None /\ IpMatches(r, req.known)}
             Best(R, action) ==
               /\ R = {} => action = None
               /\ R # {} => /\ action # None
                            /\ \E r \in R : /\ r.action = action
                                            /\ \A q \in R : q.prio <= r.prio
  <2>1. /\ d \in Seq(RulesOf(DomainPats)) /\ Descending(d)
        /\ p \in Seq(RulesOf(IpPats)) /\ Descending(p)
    <3>1. published \in Seq(Versions) /\ \A k \in 1 .. Len(published) : InOrder(published[k])
      BY <1>1 DEF RulesInv, RulesTypeOK, EngineIsPublished
    <3>2. \A k \in Window : published[k] \in Versions /\ InOrder(published[k])
      BY <3>1 DEF Window
    <3>3. \E k \in Window : d = published[k].domain
      BY <1>1 DEF RulesInv, RequestIsOfWindow, Matched
    <3>4. \E k \in Window : p = published[k].ip
      BY <1>1 DEF RulesInv, RequestIsOfWindow
    <3> QED
      BY <3>2, <3>3, <3>4, VersionFacts DEF InOrder
  <2>2. Best(own, ByIp(p, req.host.ip))
    <3>1. CASE req.host.ip = None
      BY <3>1 DEF ByIp
    <3>2. CASE req.host.ip # None
      <4>1. own = Of(p, Own)
        BY <3>2 DEF Range
      <4>2. ByIp(p, req.host.ip) = FirstOf(p, Own)
        BY <3>2 DEF ByIp
      <4>3. Own \subseteq DOMAIN p
        OBVIOUS
      <4> HIDE DEF own, Own
      <4> QED
        BY <2>1, <4>1, <4>2, <4>3, FirstHit
    <3> QED
      BY <3>1, <3>2
  <2>3. Best(named, ByName(d, req.host))
    <3>1. named = Of(d, Named)
      BY DEF Range
    <3>2. ByName(d, req.host) = FirstOf(d, Named)
      BY DEF ByName
    <3>3. Named \subseteq DOMAIN d
      OBVIOUS
    <3> HIDE DEF named, Named
    <3> QED
      BY <2>1, <3>1, <3>2, <3>3, FirstHit
  <2>4. Best(resolved, ByIp(p, req.known))
    <3>1. CASE req.known = None
      BY <3>1 DEF ByIp
    <3>2. CASE req.known # None
      <4>1. resolved = Of(p, Known)
        BY <3>2 DEF Range
      <4>2. ByIp(p, req.known) = FirstOf(p, Known)
        BY <3>2 DEF ByIp
      <4>3. Known \subseteq DOMAIN p
        OBVIOUS
      <4> HIDE DEF resolved, Known
      <4> QED
        BY <2>1, <4>1, <4>2, <4>3, FirstHit
    <3> QED
      BY <3>1, <3>2
  <2>5. req.known = req.host.ip => resolved = own
    OBVIOUS
  <2>6. req.action = MatchExplicit(d, p, req.host, req.known)
    BY <1>1 DEF RulesInv, RequestIsOfWindow
  <2>7. Hits = IF own # {} THEN own ELSE IF named # {} THEN named ELSE resolved
    BY DEF Hits
  <2> HIDE DEF own, named, resolved, d, p
  <2>8. Best(Hits, req.action)
    BY <2>2, <2>3, <2>4, <2>5, <2>6, <2>7 DEF MatchExplicit
  <2> QED
    BY <2>8
<1> QED
  BY <1>1, RulesInvHolds, PTL

\* A start in the middle of a save finds the rules of the last save that succeeded
\* (rule_engine.py:227-234): the file is replaced in one step, so it never holds anything else.
THEOREM RestartFindsRules == Spec => RestartKeepsRules
<1> DEFINE Saved == file = durable
<1>1. Init => Saved
  BY DEF Init
<1>2. Saved /\ [Next]_vars => Saved'
  BY DEF vars, Next, Editor, Publish, Handler, OpenEditor, Edit, Cancel, Accept, SwapDomain,
     SwapIp, SwapDefault, Swap, WriteTmp, FileWhileWriting, ReplaceFile, SaveFails, Restart,
     Ask, ReadDomain, ReadIp, Resolved, Go
<1>3. Saved /\ [Next]_vars => [Restart => engine' = Loaded(durable)]_vars
  BY DEF Restart
<1> QED
  BY <1>1, <1>2, <1>3, PTL DEF Spec, RestartKeepsRules
=============================================================================
