---------------------------- MODULE MCRuleEngine ----------------------------
(* Instances of RuleEngine for TLC.                                        *)
EXTENDS RuleEngine, TLC

CONSTANTS w1, w2

TwoWorkers == {w1, w2}
Symmetry == Permutations(TwoWorkers)

Record(model, ts, label, expected, cost, aware) ==
    [model |-> model, ts |-> ts, label |-> label, expected |-> expected, cost |-> cost,
     aware |-> aware, latency |-> 10, pii |-> FALSE, toxic |-> FALSE]

(* One model: right and wrong answers, another label, no label, no offset; *)
(* and a record of a second model.                                         *)
MCRecords ==
    {Record("a", t, "x", "x", 1, TRUE) : t \in 1..4}
        \cup {Record("a", t, "x", "y", 1, TRUE) : t \in {3}}
        \cup {Record("a", t, "y", NoLabel, 2, TRUE) : t \in {2}}
        \cup {Record("a", t, NoLabel, NoLabel, 3, TRUE) : t \in {3}}
        \cup {Record("a", t, "x", NoLabel, 1, FALSE) : t \in {2}}
        \cup {Record("b", t, "x", "x", 4, TRUE) : t \in {2}}
=============================================================================
