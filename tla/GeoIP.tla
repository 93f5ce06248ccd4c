------------------------------- MODULE GeoIP -------------------------------
(***************************************************************************)
(* Address arithmetic of the client: networks in CIDR notation             *)
(* (ip_in_network of common/utils.py) and class _IntervalSet of            *)
(* client/core/geoip.py, the merged table behind is_china_ip and           *)
(* is_special_ip.  Addresses have Width bits (32 in the code).             *)
(***************************************************************************)
EXTENDS Naturals, Sequences, SequencesExt, FiniteSets

CONSTANT Width

\* What powers of two are is said here for the proofs, whose provers have no axioms for them.
ASSUME WidthAssumption ==
  /\ Width \in Nat
  /\ \A n \in 0 .. Width : 2 ^ n \in Nat \ {0}

Addresses == 0 .. (2 ^ Width - 1)

\* A network as written, with host bits or without (strict=False).
Cidrs == [addr : Addresses, len : 0 .. Width]

Size(c) == 2 ^ (Width - c.len)

NetworkAddress(c) == (c.addr \div Size(c)) * Size(c)
BroadcastAddress(c) == NetworkAddress(c) + Size(c) - 1

\* ip_in_network: the address has the network's prefix.
InNetwork(a, c) == a \div Size(c) = c.addr \div Size(c)

-----------------------------------------------------------------------------
(* _IntervalSet. *)

\* The keys of before in order, given for each the set of those that precede it.
Ranked(before) ==
  [k \in 1 .. Cardinality(DOMAIN before) |->
     CHOOSE x \in DOMAIN before : Cardinality(before[x]) = k - 1]

Before(x, y) == x[1] < y[1] \/ (x[1] = y[1] /\ x[2] < y[2])

Intervals(C) ==
  LET S == {<<NetworkAddress(c), BroadcastAddress(c)>> : c \in C}
  IN Ranked([x \in S |-> {y \in S : Before(y, x)}])

\* Mutant of Merge: the end moves back when a smaller interval is merged.
MergeTruncates(table, iv) ==
  LET n == Len(table) IN
  IF n > 0 /\ iv[1] <= table[n][2] + 1
  THEN [table EXCEPT ![n][2] = iv[2]]
  ELSE Append(table, iv)

\* One interval more: merged into the last one when they overlap or touch.
Merge(table, iv) ==
  LET n == Len(table) IN
  IF n > 0 /\ iv[1] <= table[n][2] + 1
  THEN [table EXCEPT ![n][2] = IF iv[2] > @ THEN iv[2] ELSE @]
  ELSE Append(table, iv)

\* The table after each of the intervals.
MergedUpTo(intervals) ==
  LET merged[k \in 0 .. Len(intervals)] ==
        IF k = 0 THEN <<>> ELSE Merge(merged[k - 1], intervals[k])
  IN merged

\* _starts and _ends after rebuild(C), as pairs.
Rebuild(C) == MergedUpTo(Intervals(C))[Len(Intervals(C))]

\* contains: bisect_right finds the only interval that may hold the address.
Covers(table, a) ==
  LET i == Cardinality({k \in DOMAIN table : table[k][1] <= a})
  IN i > 0 /\ a <= table[i][2]

-----------------------------------------------------------------------------
VARIABLES
  cidrs, \* CHINA_IP_RANGES or SPECIAL_IP_RANGES
  local  \* _starts and _ends of the table built from it when it is imported

geo == <<cidrs, local>>

GeoInit ==
  /\ cidrs \in {{a, b, c} : a, b, c \in Cidrs}
  /\ local = Rebuild(cidrs)

\* The merged table answers for every address what a scan of the networks it
\* was built from would, and its intervals are apart, so that one bisection
\* finds the only candidate (geoip.py:45-51).
IntervalsExact ==
  /\ \A a \in Addresses : Covers(local, a) <=> \E c \in cidrs : InNetwork(a, c)
  /\ \A k \in 2 .. Len(local) : local[k - 1][2] + 1 < local[k][1]
=============================================================================
