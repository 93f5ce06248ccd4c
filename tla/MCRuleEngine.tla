---------------------------- MODULE MCRuleEngine ----------------------------
(* Small rule tables, hosts and files for RuleEngine.                       *)
EXTENDS RuleEngine

Exact(name) == [wild |-> FALSE, name |-> name]
Wild(name) == [wild |-> TRUE, name |-> name]
MCRow(pat, action, prio) == [pat |-> pat, action |-> action, prio |-> prio]
Net(addr, len) == [addr |-> addr, len |-> len]

\* Labels are numbers that are no address.
cn == 100
www == 101
MCNames == {<<cn>>, <<www, cn>>}
MCIps == {1, 6}
MCDomainRows == {MCRow(Wild(<<cn>>), "DIRECT", 1), MCRow(Exact(<<www, cn>>), "BLOCK", 2),
                 MCRow(Blank, "PROXY", 0)}
MCIpRows == {MCRow(Net(7, 2), "PROXY", 4), MCRow(Net(0, Width + 1), "DIRECT", 0)}
MCTable == {Net(0, 2), Net(2, 3), Net(3, 2)}

\* A file with a disabled rule, its rules in no order.
MCFile == Content(
  [domain |-> <<[pat |-> Exact(<<www, cn>>), action |-> "PROXY", prio |-> 0, enabled |-> TRUE],
                [pat |-> Exact(<<cn>>), action |-> "BLOCK", prio |-> 5, enabled |-> FALSE]>>,
   ip |-> <<[pat |-> Net(5, 1), action |-> "BLOCK", prio |-> 3, enabled |-> TRUE]>>,
   default |-> "PROXY"])
MCFiles == {[is |-> "missing"], MCFile}
MCDefaults ==
  [domain |-> <<[pat |-> Wild(<<cn>>), action |-> "DIRECT", prio |-> 1, enabled |-> TRUE]>>,
   ip |-> <<>>, default |-> "DIRECT"]
=============================================================================
