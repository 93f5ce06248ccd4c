----------------------------- MODULE RuleEngine -----------------------------
(***************************************************************************)
(* The routing rules: class RuleEngine (client/core/rule_engine.py), the   *)
(* rule editor (client/gui/rule_editor.py) that replaces them from the GUI *)
(* thread, their file, and Router.route (client/core/router.py) that       *)
(* matches hosts against them on the event loop's thread.  The threads     *)
(* switch at any attribute read or write.  Handlers do not meet in the     *)
(* rules, so one is followed at a time.                                    *)
(***************************************************************************)
EXTENDS GeoIP, Integers

CONSTANTS
  DomainRows, IpRows, \* bound: the rows the user may leave in the tables
  Names,              \* bound: host names asked for, sequences of labels (numbers)
  Ips,                \* bound: addresses asked for or resolved to
  Files,              \* rule files the program may find at its first start
  Defaults,           \* the built-in rules: [domain, ip, default]
  Table,              \* the table of local networks with which rules are edited and asked for
  MaxRows, MaxEdits, MaxSaves, MaxAsks, \* bounds
  None                \* no action, no address

Actions == {"DIRECT", "PROXY", "BLOCK"}
\* Cells without a pattern; any other network with a length above Width is
\* text that is no CIDR.
Blank == [wild |-> FALSE, name |-> <<>>]
BlankIp == [addr |-> 0, len |-> Width + 2]
Valid(pat) == pat.len <= Width
\* A rule is a row of a table that is enabled or not; its pattern is a name or a network.
DomainPats == [wild : BOOLEAN, name : Seq(Nat)]
IpPats == [addr : Addresses, len : 0 .. Width + 2]
RowsOf(Pats) == [pat : Pats, action : Actions, prio : Int]
RulesOf(Pats) == [pat : Pats, action : Actions, prio : Int, enabled : BOOLEAN]
Versions ==
  [domain : Seq(RulesOf(DomainPats)), ip : Seq(RulesOf(IpPats)), default : Actions]
\* The rules file: missing, malformed or a version of the rules.
Broken == [is : {"missing", "malformed"}]
Content(v) == [is |-> "rules", rules |-> v]
Contents == [is : {"rules"}, rules : Versions]

\* A rule has one of the actions, and priorities are integers (rule_engine.py:18-31).
ASSUME RulesAssumption ==
  /\ None \notin Actions
  /\ DomainRows \subseteq RowsOf(DomainPats) /\ IpRows \subseteq RowsOf(IpPats)
  /\ Defaults \in Versions
  /\ Files \subseteq Broken \cup Contents

VARIABLES
  engine,         \* the engine's attributes: [domain, ip, default]
  gui,            \* what the GUI thread is doing
  dialog,         \* the dialog: [domain, ip] its tables, then its lists; [default]
  file,           \* the rules file
  req,            \* the handler followed
  published,      \* the arguments of each replace_rules call since the start
  durable,        \* the content of the file when the last save returned, or at first
  edits, saves, asks \* counters for the bounds

vars == <<cidrs, local, engine, gui, dialog, file, req, published, durable,
          edits, saves, asks>>
counters == <<edits, saves, asks>>

NoDialog == [domain |-> <<>>, ip |-> <<>>, default |-> "DIRECT"]
NoRequest == [pc |-> "idle"]

-----------------------------------------------------------------------------
(* Matching. *)

\* "*.example.com" is for example.com and what ends in ".example.com"; a star
\* elsewhere is an ordinary character, so such a pattern is no host's name.
DomainMatches(r, host) ==
  /\ r.enabled
  /\ \/ r.pat.name = host.name
     \/ r.pat.wild /\ IsSuffix(r.pat.name, host.name)

IpMatches(r, a) == r.enabled /\ Valid(r.pat) /\ InNetwork(a, r.pat)

\* The action of the first of the rules at these positions.
FirstOf(rules, hits) == IF hits = {} THEN None ELSE rules[Min(hits)].action

ByIp(rules, a) ==
  IF a = None THEN None ELSE FirstOf(rules, {i \in DOMAIN rules : IpMatches(rules[i], a)})
ByName(rules, host) == FirstOf(rules, {i \in DOMAIN rules : DomainMatches(rules[i], host)})

\* match_explicit: the first of these that is not None.
MatchExplicit(domain, ip, host, resolved) ==
  LET own == ByIp(ip, host.ip)
      named == ByName(domain, host)
  IN IF own # None THEN own
     ELSE IF named # None THEN named
     ELSE IF resolved = host.ip THEN None ELSE ByIp(ip, resolved)

\* Mutant of Sorted: replace_rules keeps the order of the editor's tables.
AsGiven(rules) == rules

\* sorted(rules, key=priority, reverse=True), which is stable.
Sorted(rules) ==
  LET Above(i) == {j \in DOMAIN rules : \/ rules[j].prio > rules[i].prio
                                        \/ rules[j].prio = rules[i].prio /\ j < i}
      order == Ranked([i \in DOMAIN rules |-> Above(i)])
  IN [k \in DOMAIN rules |-> rules[order[k]]]

SortedVersion(v) ==
  [domain |-> Sorted(v.domain), ip |-> Sorted(v.ip), default |-> v.default]

\* load_rules: a missing or malformed file means the built-in rules.
Loaded(f) == SortedVersion(IF f \in Broken THEN Defaults ELSE f.rules)

Init ==
  /\ GeoInit
  /\ file \in Files /\ durable = file
  /\ engine = Loaded(file) /\ published = <<engine>>
  /\ gui = "ready" /\ dialog = NoDialog /\ req = NoRequest
  /\ edits = 0 /\ saves = 0 /\ asks = 0

-----------------------------------------------------------------------------
(* The editor, on the GUI thread. *)

Row(r) == [pat |-> r.pat, action |-> r.action, prio |-> r.prio]

\* Bound: with the other tables of local networks nothing is done.
InTable == cidrs = Table

\* The dialog gets copies of the lists and fills its tables with them.
OpenEditor ==
  /\ gui = "ready" /\ saves < MaxSaves /\ InTable
  /\ gui' = "editing" /\ saves' = saves + 1
  /\ dialog' = [domain |-> [i \in DOMAIN engine.domain |-> Row(engine.domain[i])],
                ip |-> [i \in DOMAIN engine.ip |-> Row(engine.ip[i])],
                default |-> engine.default]
  /\ UNCHANGED <<geo, engine, file, req, published, durable, edits, asks>>

\* The user adds a row, removes one or changes one.
Edited(rows, Possible) ==
  (IF Len(rows) < MaxRows THEN {Append(rows, r) : r \in Possible} ELSE {})
    \cup {RemoveAt(rows, i) : i \in DOMAIN rows}
    \cup {[rows EXCEPT ![i] = r] : i \in DOMAIN rows, r \in Possible}

Edit ==
  /\ gui = "editing" /\ edits < MaxEdits /\ edits' = edits + 1
  /\ \/ \E rows \in Edited(dialog.domain, DomainRows) :
          dialog' = [dialog EXCEPT !.domain = rows]
     \/ \E rows \in Edited(dialog.ip, IpRows) : dialog' = [dialog EXCEPT !.ip = rows]
     \/ \E a \in Actions \ {dialog.default} : dialog' = [dialog EXCEPT !.default = a]
  /\ UNCHANGED <<geo, engine, gui, file, req, published, durable, saves, asks>>

Cancel ==
  /\ gui = "editing"
  /\ gui' = "ready" /\ dialog' = NoDialog
  /\ UNCHANGED <<geo, engine, file, req, published, durable, counters>>

\* _save: rows without a pattern are skipped; every rule made is enabled, as
\* the tables have no column for that.
DomainRule(row) ==
  [pat |-> row.pat, action |-> row.action, prio |-> row.prio, enabled |-> TRUE]
IpRule(row) ==
  [pat |-> [addr |-> NetworkAddress(row.pat), len |-> row.pat.len],
   action |-> row.action, prio |-> row.prio, enabled |-> TRUE]
\* The rows that have a pattern, in order.
Filled(rows, blank) ==
  LET kept == {i \in DOMAIN rows : rows[i].pat # blank}
      order == Ranked([i \in kept |-> {j \in kept : j < i}])
  IN [k \in DOMAIN order |-> rows[order[k]]]
DialogRules ==
  LET d == Filled(dialog.domain, Blank)
      i == Filled(dialog.ip, BlankIp)
  IN [domain |-> [k \in DOMAIN d |-> DomainRule(d[k])],
      ip |-> [k \in DOMAIN i |-> IpRule(i[k])],
      default |-> dialog.default]

\* Mutant of EngineAfterAccept: get_domain_rules returns the engine's own
\* list, and the dialog assigns to its elements.
EngineAliased(new) == [engine EXCEPT !.domain = new.domain]

\* The engine when the dialog was accepted but nothing is published yet.
EngineAfterAccept(new) == engine

\* The save button: an invalid network is reported and the dialog stays, which
\* changes nothing.
Accept ==
  /\ gui = "editing"
  /\ \A i \in DOMAIN dialog.ip : Valid(dialog.ip[i].pat) \/ dialog.ip[i].pat = BlankIp
  /\ gui' = "swapDomain" /\ dialog' = DialogRules
  /\ engine' = EngineAfterAccept(DialogRules)
  /\ published' = Append(published, SortedVersion(DialogRules))
  /\ UNCHANGED <<geo, file, req, durable, counters>>

\* replace_rules sorts both lists, then assigns three attributes.
Swap(step, next, value) ==
  /\ gui = step /\ gui' = next
  /\ engine' = value
  /\ UNCHANGED <<geo, dialog, file, req, published, durable, counters>>

SwapDomain ==
  Swap("swapDomain", "swapIp", [engine EXCEPT !.domain = Sorted(dialog.domain)])
SwapIp ==
  Swap("swapIp", "swapDefault", [engine EXCEPT !.ip = Sorted(dialog.ip)])
SwapDefault ==
  Swap("swapDefault", "write", [engine EXCEPT !.default = dialog.default])

\* Mutant of FileWhileWriting: the rules file itself is opened and written.
FileTruncated == [is |-> "malformed"]

\* The rules file while the new content is written: to a file next to it.
FileWhileWriting == file

WriteTmp ==
  /\ gui = "write" /\ gui' = "replace"
  /\ file' = FileWhileWriting
  /\ UNCHANGED <<geo, engine, dialog, req, published, durable, counters>>

\* os.replace, after which save_rules returns.
ReplaceFile ==
  /\ gui = "replace" /\ gui' = "ready"
  /\ file' = Content(engine) /\ durable' = file'
  /\ dialog' = NoDialog
  /\ UNCHANGED <<geo, engine, req, published, counters>>

\* An OSError of either is reported; the rules stay in force in memory.
SaveFails ==
  /\ gui \in {"write", "replace"}
  /\ gui' = "ready" /\ dialog' = NoDialog
  /\ UNCHANGED <<geo, engine, file, req, published, durable, counters>>

\* The program ends at any moment and starts again.
Restart ==
  /\ saves > 0
  /\ engine' = Loaded(file) /\ published' = <<Loaded(file)>>
  /\ gui' = "ready" /\ dialog' = NoDialog /\ req' = NoRequest
  /\ UNCHANGED <<geo, file, durable, counters>>

-----------------------------------------------------------------------------
(* route(), on the event loop's thread. *)

Hosts == [name : Names, ip : {None}] \cup {[name |-> <<a>>, ip |-> a] : a \in Ips}

\* The address of a host is in itself, in the DNS cache or not known.
Ask ==
  /\ req.pc \in {"idle", "matched"} /\ asks < MaxAsks /\ InTable /\ asks' = asks + 1
  /\ \E h \in Hosts :
       \E a \in (IF h.ip = None THEN Ips \cup {None} ELSE {h.ip}) :
         req' = [pc |-> "match", host |-> h, ip |-> a, looked |-> FALSE,
                 since |-> Len(published)]
  /\ UNCHANGED <<geo, engine, gui, dialog, file, published, durable, edits, saves>>

Go(r) ==
  /\ req' = r
  /\ UNCHANGED <<geo, engine, gui, dialog, file, published, durable, counters>>

\* match_explicit reads the two lists one after the other.
ReadDomain ==
  /\ req.pc = "match"
  /\ Go([pc |-> "readIp", host |-> req.host, ip |-> req.ip, looked |-> req.looked,
         since |-> req.since, domain |-> engine.domain])

\* Without an action, or with DIRECT, an address not known yet is looked up.
ReadIp ==
  /\ req.pc = "readIp"
  /\ LET action == MatchExplicit(req.domain, engine.ip, req.host, req.ip)
         lookup == action \in {None, "DIRECT"} /\ req.ip = None /\ ~ req.looked
     IN Go([pc |-> IF lookup THEN "lookup" ELSE "matched", host |-> req.host,
            ip |-> req.ip, looked |-> req.looked, since |-> req.since,
            domain |-> req.domain, iprules |-> engine.ip,
            known |-> req.ip, action |-> action])

\* The lookup ends, with an address or without; with no action so far the
\* rules, perhaps other ones by now, are matched again.
Resolved ==
  /\ req.pc = "lookup"
  /\ \E a \in Ips \cup {None} :
       Go(IF req.action = None
          THEN [pc |-> "match", host |-> req.host, ip |-> a, looked |-> TRUE,
                since |-> Len(published)]
          ELSE [req EXCEPT !.pc = "matched", !.ip = a, !.looked = TRUE])

Editor == OpenEditor \/ Edit \/ Cancel \/ Accept
Publish == SwapDomain \/ SwapIp \/ SwapDefault \/ WriteTmp \/ ReplaceFile \/ SaveFails
Handler == Ask \/ ReadDomain \/ ReadIp \/ Resolved

Next == Editor \/ Publish \/ Restart \/ Handler

Spec == Init /\ [][Next]_vars

-----------------------------------------------------------------------------
(* Properties. *)

Matched == req.pc \in {"lookup", "matched"}

\* The versions that were in force, or were being put in force, while the
\* handler matched.
Window == {k \in DOMAIN published : k >= req.since - 1}

\* The editor never disturbs a rule that stays: if every version that was in
\* force while a handler matched has the same action for the host's name (or
\* for the host, an address), that is the action it gets, however the two
\* threads switch (rule_engine.py:91-95).
KeptRuleDecides ==
  Matched => \A a \in Actions :
    \/ /\ req.host.ip = None
       /\ \A k \in Window : ByName(published[k].domain, req.host) = a
    \/ \A k \in Window : ByIp(published[k].ip, req.host.ip) = a
    => req.action = a

\* The rules that decide: those of the host's own address, else those of its
\* name, else those of the address it resolved to.
Hits ==
  LET own == {r \in Range(req.iprules) : req.host.ip # None /\ IpMatches(r, req.host.ip)}
      named == {r \in Range(req.domain) : DomainMatches(r, req.host)}
      resolved == {r \in Range(req.iprules) : req.known # None /\ IpMatches(r, req.known)}
  IN IF own # {} THEN own ELSE IF named # {} THEN named ELSE resolved

\* The action is that of a matching rule which no other one that matches
\* outranks, whatever order the rules have in the editor or in the file; and no
\* matching rule is passed over for the default (rule_engine.py:105-113).  The
\* code ranks by the number of the priority alone (line 108), so a wildcard with a
\* larger one decides over the host's very name, where TECHNICAL.md:118-122 says
\* "Rule priority (high to low): 1. Exact domain match ... 2. Wildcard domain match".
HighestPriorityWins ==
  Matched =>
    IF Hits = {} THEN req.action = None
    ELSE \E r \in Hits : r.action = req.action /\ \A q \in Hits : q.prio <= r.prio

\* Whenever the program ends, in the middle of a save too, it starts again with
\* the rules of the last save that succeeded, or those it first found; the
\* built-in ones never take their place (rule_engine.py:227-234).
RestartKeepsRules == [][Restart => engine' = Loaded(durable)]_vars
=============================================================================
