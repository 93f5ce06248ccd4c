--------------------------- MODULE CircuitBreaker ---------------------------
(* The client's memory of addresses that cannot be reached directly: class   *)
(* CircuitBreaker in client/core/circuit_breaker.py, with its state file.    *)
(* BreakerSpec lets anyone call its operations in any order; Router makes the*)
(* calls that the client makes.  One clock stands for time.time() here and   *)
(* time.monotonic() there; it starts late enough that 0 is long ago, as the  *)
(* code assumes of its initial values.                                       *)
EXTENDS Integers, Sequences, FiniteSets

CONSTANTS IPs,        \* addresses
          Threshold,  \* FAIL_THRESHOLD
          Cooldown,   \* COOLDOWN_SECONDS
          MaxEntries, \* MAX_ENTRIES
          SaveGap,    \* the 2.0 s between two saves
          MaxTime,    \* bound: the clock
          MaxStreak   \* bound: failures of an address without a success

ASSUME BreakerAssumption ==
    /\ {Threshold, Cooldown, MaxEntries} \subseteq Nat \ {0}
    /\ {SaveGap, MaxTime, MaxStreak} \subseteq Nat

VARIABLES
    now,       \* the clock
    failures,  \* _failures: times of recent failures, oldest first; <<>> is no entry
    blocked,   \* _blocked: the time to which the address is blocked, or 0
    lastSave,  \* _last_save
    dirty,     \* _save_dirty
    disk,      \* the state file
    streak,    \* history: the failures of an address since its last success; a save keeps a copy
    evicted,   \* history: how many of them came before the address was last evicted; as streak
    saved      \* history: the last attempt to save succeeded

breaker == <<failures, blocked, lastSave, dirty, disk, streak, evicted, saved>>

Window == 3 * Cooldown   \* window in record_failure and _load
Start == SaveGap + 1
Memory == [blocked: [IPs -> Nat], failures: [IPs -> Seq(Nat)], streak: [IPs -> Seq(Nat)],
           evicted: [IPs -> Nat]]
Empty == [ip \in IPs |-> <<>>]
Zero == [ip \in IPs |-> 0]
NoFile == [blocked |-> Zero, failures |-> Empty, streak |-> Empty, evicted |-> Zero]
Elements(s) == {s[i] : i \in DOMAIN s}

BreakerTypeOK ==
    /\ now \in Nat /\ lastSave \in Nat
    /\ [blocked |-> blocked, failures |-> failures, streak |-> streak,
        evicted |-> evicted] \in Memory
    /\ disk \in Memory
    /\ dirty \in BOOLEAN /\ saved \in BOOLEAN
    /\ \A ip \in IPs : Len(failures[ip]) < Threshold
    /\ Cardinality({ip \in IPs : failures[ip] # <<>>}) <= MaxEntries

\* There is no state file yet.
BreakerInit ==
    /\ now = Start
    /\ failures = Empty /\ blocked = Zero /\ streak = Empty /\ evicted = Zero
    /\ lastSave = 0 /\ dirty = FALSE /\ saved = TRUE
    /\ disk = NoFile
----------------------------------------------------------------------------
InForce(ip) == now <= blocked[ip]

\* What save writes: expired blocks are left out.
Contents ==
    [blocked  |-> [ip \in IPs |-> IF now <= blocked'[ip] THEN blocked'[ip] ELSE 0],
     failures |-> failures',
     streak   |-> streak',
     evicted  |-> evicted']

\* Mutant: the flag is cleared although it is too early to save.
MaybeSaveForgets(changed) ==
    IF changed /\ now - lastSave > SaveGap
    THEN /\ lastSave' = now /\ dirty' = FALSE
         /\ saved' \in BOOLEAN
         /\ disk' = IF saved' THEN Contents ELSE disk
    ELSE dirty' = FALSE /\ UNCHANGED <<lastSave, disk, saved>>

\* _maybe_save and save: an OSError is logged, and the state then counts as saved.
MaybeSave(changed) ==
    IF changed /\ now - lastSave > SaveGap
    THEN /\ lastSave' = now /\ dirty' = FALSE
         /\ saved' \in BOOLEAN
         /\ disk' = IF saved' THEN Contents ELSE disk
    ELSE dirty' = changed /\ UNCHANGED <<lastSave, disk, saved>>

\* is_blocked, as a step: a pending save is made up for and an expired block forgotten.
CheckBlocked(ip) ==
    /\ blocked' = IF InForce(ip) THEN blocked ELSE [blocked EXCEPT ![ip] = 0]
    /\ UNCHANGED <<failures, streak, evicted>>
    /\ MaybeSave(dirty)

\* _prune caps the tracked addresses: those that failed last are kept.
Capped(f) ==
    LET tracked == {ip \in IPs : f[ip] # <<>>}
        Newest(K) == \A k \in K, d \in tracked \ K : f[k][Len(f[k])] >= f[d][Len(f[d])]
        kept == IF Cardinality(tracked) <= MaxEntries THEN {tracked}
                ELSE {K \in SUBSET tracked : Cardinality(K) = MaxEntries /\ Newest(K)}
    IN  {[ip \in IPs |-> IF ip \in K THEN f[ip] ELSE <<>>] : K \in kept}

\* Those within the window: the clock does not go back, so the older ones come first.
Within(times) ==
    SubSeq(times, 1 + Cardinality({i \in DOMAIN times : now - times[i] >= Window}), Len(times))

\* Mutant: failures never leave the window.
RecentAll(ip) == Append(failures[ip], now)

Recent(ip) == Within(Append(failures[ip], now))

\* record_failure, with _prune and _schedule_save.
RecordFailure(ip) ==
    /\ Len(streak[ip]) < MaxStreak
    /\ LET trips == Len(Recent(ip)) >= Threshold
           until == [blocked EXCEPT ![ip] = IF trips THEN now + Cooldown ELSE @]
           tracked == [failures EXCEPT ![ip] = IF trips THEN <<>> ELSE Recent(ip)]
       IN
        /\ blocked' = [i \in IPs |-> IF now > until[i] THEN 0 ELSE until[i]]
        /\ failures' \in Capped(tracked)
        /\ streak' = [streak EXCEPT ![ip] = Append(@, now)]
        /\ evicted' = [i \in IPs |-> IF failures'[i] = tracked[i] THEN evicted[i]
                                     ELSE Len(streak'[i])]
        /\ MaybeSave(TRUE)

\* record_success.  It does not ask for a save.
RecordSuccess(ip) ==
    /\ failures' = [failures EXCEPT ![ip] = <<>>]
    /\ blocked' = [blocked EXCEPT ![ip] = 0]
    /\ streak' = [streak EXCEPT ![ip] = <<>>] /\ evicted' = [evicted EXCEPT ![ip] = 0]
    /\ UNCHANGED <<lastSave, dirty, disk, saved>>

\* Mutant: the blocks are not loaded.
LoadWithoutBlocks ==
    /\ \E file \in {disk, NoFile} :
          /\ blocked' = Zero
          /\ failures' = [ip \in IPs |-> Within(file.failures[ip])]
          /\ streak' = file.streak /\ evicted' = file.evicted
    /\ lastSave' = 0 /\ dirty' = FALSE /\ saved' = TRUE
    /\ UNCHANGED disk

\* A new CircuitBreaker loads the file: in a new process, and in every new session of the
\* window.  The old one is gone, without a last save.  A file that cannot be read is none.
Load ==
    /\ \E file \in {disk, NoFile} :
          /\ blocked' = [ip \in IPs |-> IF now < file.blocked[ip] THEN file.blocked[ip] ELSE 0]
          /\ failures' = [ip \in IPs |-> Within(file.failures[ip])]
          /\ streak' = file.streak /\ evicted' = file.evicted
    /\ lastSave' = 0 /\ dirty' = FALSE /\ saved' = TRUE
    /\ UNCHANGED disk

Operation(ip) == CheckBlocked(ip) \/ RecordFailure(ip) \/ RecordSuccess(ip)

BreakerNext ==
    \/ now < MaxTime /\ now' = now + 1 /\ UNCHANGED breaker
    \/ (Load \/ \E ip \in IPs : Operation(ip)) /\ UNCHANGED now

BreakerSpec == BreakerInit /\ [][BreakerNext]_<<now, breaker>>
----------------------------------------------------------------------------
\* An address is refused only if it failed Threshold times within the window, with no
\* success in between, whatever was forgotten, evicted, saved and loaded meanwhile
\* (circuit_breaker.py:70-95).  A success of an earlier process counts as far as it was saved.
\* TECHNICAL.md:129 says "Blocks after first TLS reject; timeout requires 3 failures": of a
\* reject the code does not, record_tls_reject only counts it (circuit_breaker.py:97-105).
BlockIsEarned == \A ip \in IPs : blocked[ip] # 0 =>
    LET t == blocked[ip] - Cooldown
        counted == {i \in DOMAIN streak[ip] : streak[ip][i] <= t /\ t - streak[ip][i] < Window}
    IN  Cardinality(counted) >= Threshold

\* The last Threshold dials of ip that ended all failed, within the last Cooldown, and the
\* address was not evicted in between.
Dead(ip) ==
    LET n == Len(streak[ip]) IN
    /\ n >= evicted[ip] + Threshold
    /\ streak[ip][n - Threshold + 1] + Cooldown > now

\* The converse: "After FAIL_THRESHOLD failures, that IP is blocked" (circuit_breaker.py:29-31).
\* It stays refused through expired windows, other failures, restarts and what they load.
\* Of a failure that a crash lost before it was saved a later process knows nothing.
FailuresBlock == \A ip \in IPs : Dead(ip) => InForce(ip)

\* What is not marked dirty is on disk, so that the next save is the only thing a crash
\* can lose (circuit_breaker.py:141-154), except after a save that failed.
CleanMeansSaved == ~dirty /\ saved => \A ip \in IPs :
    /\ InForce(ip) => disk.blocked[ip] = blocked[ip]
    /\ Elements(failures[ip]) \subseteq Elements(disk.failures[ip])
=============================================================================
