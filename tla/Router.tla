------------------------------- MODULE Router -------------------------------
(* Routing decisions of the client: class Router in client/core/router.py,   *)
(* with the CircuitBreaker it consults and informs, its DNS cache and its    *)
(* cache of targets the server could not reach.  Each call is one handler of *)
(* the local proxy, from route() to record_stream_result().  Rules, pool and *)
(* peers answer anything, and any time may pass at an await.  A target is    *)
(* a host: all connections are to one port.                                  *)
EXTENDS CircuitBreaker, Functions

CONSTANTS Names,     \* host names
          Hosts,     \* bound: what is asked for: names and addresses
          Calls,     \* bound: handlers at a time
          LocalIPs,  \* addresses that is_special_ip or is_china_ip tells to be direct
          DnsTTL,    \* DNS_CACHE_TTL
          DnsMax,    \* DNS_CACHE_MAX
          FailTTL,   \* PROXY_FAIL_TTL
          FailMax,   \* PROXY_FAIL_MAX
          None       \* no address, no rule

ASSUME RouterAssumption ==
    /\ {DnsTTL, FailTTL} \subseteq Nat \ {0}
    /\ {DnsMax, FailMax} \subseteq Nat
    /\ LocalIPs \subseteq IPs /\ IPs \cap Names = {} /\ Hosts \subseteq Names \cup IPs /\ None \notin IPs \cup Names

VARIABLES
    dns,       \* _dns_cache: host name to [exp, ip]
    proxyFail, \* _proxy_fail: host to expiry
    call       \* the state of each handler

vars == <<now, breaker, dns, proxyFail, call>>

Actions == {"DIRECT", "PROXY", "BLOCK"}
Idle == [at |-> "idle"]
States == [at: {"idle"}]
     \cup [at: {"resolving"}, host: Hosts \cap Names, rule: {"DIRECT", None}]
     \cup [at: {"dialling"}, host: Hosts, ip: IPs \cup {None}]
     \cup [at: {"proxying", "retrying"}, host: Hosts, began: Nat]
     \cup [at: {"streaming"}, host: Hosts]

TypeOK ==
    /\ BreakerTypeOK
    /\ \E D \in SUBSET Names : dns \in [D -> [exp: Nat, ip: IPs]]
    /\ \E D \in SUBSET Hosts : proxyFail \in [D -> Nat]
    /\ Cardinality(DOMAIN dns) <= DnsMax /\ Cardinality(DOMAIN proxyFail) <= FailMax
    /\ call \in [Calls -> States]

Init ==
    /\ BreakerInit
    /\ dns = <<>> /\ proxyFail = <<>>
    /\ call = [c \in Calls |-> Idle]
----------------------------------------------------------------------------
(* The two caches.                                                           *)

Set(f, x, v) == [y \in DOMAIN f \cup {x} |-> IF y = x THEN v ELSE f[y]]

\* _prune_dns_cache and _prune_proxy_fail, given the expiry of each entry: the sets of keys
\* that may stay.  Over capacity, expired entries go, then those that expire soonest.
Kept(exp, max) ==
    LET live == {x \in DOMAIN exp : now < exp[x]}
        Last(K) == \A k \in K, d \in live \ K : exp[k] >= exp[d]
    IN  IF Cardinality(DOMAIN exp) <= max THEN {DOMAIN exp}
        ELSE IF Cardinality(live) <= max THEN {live}
        ELSE {K \in SUBSET live : Cardinality(K) = max /\ Last(K)}

Cached(h) == h \in DOMAIN dns /\ now < dns[h].exp

\* _cached_resolve forgets an expired entry.
Lookup(h) == IF h \in DOMAIN dns /\ ~Cached(h) THEN Restrict(dns, DOMAIN dns \ {h}) ELSE dns

\* The address a call knows without a lookup.
Known(h) == IF h \in IPs THEN h ELSE IF Cached(h) THEN dns[h].ip ELSE None
----------------------------------------------------------------------------
(* route().                                                                  *)

Goes(c, s) == call' = [call EXCEPT ![c] = s]

FastFails(h) == h \in DOMAIN proxyFail /\ now < proxyFail[h]

\* Mutant: what is checked is the host as it was asked for, and not its address.
DirectByName(c, h, ip) ==
    IF h \notin IPs
    THEN Goes(c, [at |-> "dialling", host |-> h, ip |-> ip]) /\ UNCHANGED breaker
    ELSE /\ CheckBlocked(h)
         /\ Goes(c, IF InForce(h) THEN Idle ELSE [at |-> "dialling", host |-> h, ip |-> h])

\* An address in force as blocked turns DIRECT into BLOCK.
Direct(c, h, ip) ==
    IF ip = None
    THEN Goes(c, [at |-> "dialling", host |-> h, ip |-> None]) /\ UNCHANGED breaker
    ELSE /\ CheckBlocked(ip)
         /\ Goes(c, IF InForce(ip) THEN Idle ELSE [at |-> "dialling", host |-> h, ip |-> ip])

\* Without a connected pool, or after a recent rejection, the call fails at once.
Proxy(c, h) ==
    /\ \/ Goes(c, Idle)
       \/ ~FastFails(h) /\ Goes(c, [at |-> "proxying", host |-> h, began |-> now])
    /\ UNCHANGED breaker

Perform(c, h, ip, action) ==
    \/ action = "BLOCK" /\ Goes(c, Idle) /\ UNCHANGED breaker
    \/ action = "DIRECT" /\ Direct(c, h, ip)
    \/ action = "PROXY" /\ Proxy(c, h)

\* No explicit rule: local addresses are direct, others take the proxy or the default.
Heuristic(ip) == IF ip \in LocalIPs THEN {"DIRECT"} ELSE Actions

\* The matched rule, if any, or the heuristic decides.
Decide(c, h, ip, rule) ==
    \E action \in (IF rule = None THEN Heuristic(ip) ELSE {rule}) : Perform(c, h, ip, action)

\* A name is looked up when the address matters and is not cached.
Route(c, h) == \E rule \in Actions \cup {None} :
    /\ call[c] = Idle
    /\ dns' = IF h \in Names THEN Lookup(h) ELSE dns
    /\ IF Known(h) = None /\ rule \in {"DIRECT", None}
       THEN Goes(c, [at |-> "resolving", host |-> h, rule |-> rule]) /\ UNCHANGED breaker
       ELSE Decide(c, h, Known(h), rule)
    /\ UNCHANGED <<now, proxyFail>>

\* The lookup ends with an address or without; rules are matched again if none did.
Resolved(c) == \E ip \in IPs \cup {None}, rule \in Actions \cup {None} :
    /\ call[c].at = "resolving"
    /\ call[c].rule # None => rule = call[c].rule
    /\ LET h == call[c].host
           d == Set(dns, h, [exp |-> now + DnsTTL, ip |-> ip])
           exp == [x \in DOMAIN d |-> d[x].exp] IN
       /\ dns' \in IF ip = None THEN {dns} ELSE {Restrict(d, K) : K \in Kept(exp, DnsMax)}
       /\ Decide(c, h, ip, rule)
    /\ UNCHANGED <<now, proxyFail>>

Streaming(c) == Goes(c, [at |-> "streaming", host |-> call[c].host])

Connected(c) ==
    /\ call[c].at = "dialling"
    /\ Streaming(c)
    /\ IF call[c].ip = None THEN UNCHANGED breaker ELSE RecordSuccess(call[c].ip)
    /\ UNCHANGED <<now, dns, proxyFail>>

\* A timeout, a refusal or another error.
DialFails(c) ==
    /\ call[c].at = "dialling"
    /\ Goes(c, Idle)
    /\ IF call[c].ip = None THEN UNCHANGED breaker
       ELSE RecordFailure(call[c].ip)
    /\ UNCHANGED <<now, dns, proxyFail>>

InProxy(c) == call[c].at \in {"proxying", "retrying"}

\* create_stream returns a stream.
Opened(c) ==
    /\ InProxy(c) /\ Streaming(c)
    /\ UNCHANGED <<now, breaker, dns, proxyFail>>

\* No tunnel carried the call: one retry.
Uncarried(c) ==
    /\ InProxy(c)
    /\ Goes(c, IF call[c].at = "proxying" THEN [call[c] EXCEPT !.at = "retrying"] ELSE Idle)
    /\ UNCHANGED <<now, breaker, dns, proxyFail>>

\* The server could not reach the target.  The expiry is counted from before the attempt.
Rejected(c) ==
    /\ InProxy(c) /\ Goes(c, Idle)
    /\ LET h == call[c].host
           f == Set(proxyFail, h, call[c].began + FailTTL) IN
       /\ proxyFail' \in {Restrict(f, K) : K \in Kept(f, FailMax)}
    /\ UNCHANGED <<now, breaker, dns>>

\* record_stream_result: enough traffic in either direction counts as a success of the
\* address the name has now, also of a stream that went through the tunnel; other results
\* only count in statistics.
StreamEnds(c) ==
    /\ call[c].at = "streaming" /\ Goes(c, Idle)
    /\ LET h == call[c].host IN
       \/ UNCHANGED <<breaker, dns>>
       \/ /\ dns' = IF h \in Names THEN Lookup(h) ELSE dns
          /\ \/ UNCHANGED breaker
             \/ Known(h) # None /\ RecordSuccess(Known(h))
    /\ UNCHANGED <<now, proxyFail>>
----------------------------------------------------------------------------
Tick ==
    /\ now < MaxTime /\ now' = now + 1
    /\ UNCHANGED <<breaker, dns, proxyFail, call>>

\* A crash, or the end of the session, and the next one.
Restart ==
    /\ Load
    /\ dns' = <<>> /\ proxyFail' = <<>>
    /\ call' = [c \in Calls |-> Idle]
    /\ UNCHANGED now

Handler(c) ==
    \/ \E h \in Hosts : Route(c, h)
    \/ Resolved(c) \/ Connected(c) \/ DialFails(c)
    \/ Opened(c) \/ Uncarried(c) \/ Rejected(c) \/ StreamEnds(c)

Next == Tick \/ Restart \/ \E c \in Calls : Handler(c)

SafeSpec == Init /\ [][Next]_vars
----------------------------------------------------------------------------
Dials(ip) == {c \in Calls : call[c].at = "dialling" /\ call[c].ip = ip}

\* No call starts to dial an address that is known as dead, be it asked for by name or by
\* address, or known only after a lookup (router.py:243).  A call whose lookup failed dials
\* by name, whatever its address is (router.py:259): it dials no address that is known.
DeadNotDialled ==
    [][\A ip \in IPs : Dead(ip) /\ Dials(ip)' # {} => Dials(ip)' \subseteq Dials(ip)]_vars
=============================================================================
