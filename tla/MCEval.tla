------------------------------- MODULE MCEval -------------------------------
(* Instances of Eval for TLC.  Confidence 2 is refused.                    *)
EXTENDS Eval

CONSTANTS la, lb, e1, e2

MCScript == [rule \in {"LatencyBreach"} |-> [label |-> la, confidence |-> 1, evidence |-> {e1}]]

(* Up to two hypotheses that may tie, be in any order, or be refused; with *)
(* them, no verdict, a good one, or (alone) one that is refused.           *)
Hyps == [label : {la}, confidence : 0..2, evidence : {{e1}}]
            \cup [label : {lb}, confidence : 0..2, evidence : {{}, {e1, e2}}]
HypSeqs == UNION {[1..n -> Hyps] : n \in 0..2}
Reply(hs, l, c) == [hypotheses |-> hs, label |-> l, confidence |-> c, evidence |-> {e2}]
MCAnswers == {Reply(hs, NoLabel, 0) : hs \in HypSeqs} \cup {Reply(<< >>, lb, 2)}
                \cup {Reply(hs, lb, 1) : hs \in {s \in HypSeqs : Len(s) < 2}}

Of(l, e) == [rule |-> "LatencyBreach", label |-> l, evidence |-> e]

MCDatasets == {<< >>, <<Of(NoLabel, {}), Skip, Of(Undetermined, {e2})>>,
               <<Of(la, {e1}), Skip, Of(lb, {e1, e2})>>}
=============================================================================
