------------------------------ MODULE MCWorker ------------------------------
(* Instances of Worker for TLC.                                            *)
EXTENDS Worker, TLC

CONSTANTS w1, w2, m1, m2, k1

TwoWorkers == {w1, w2}
OneWorker == {w1}

(* m1 and m2 are two posts with one Idempotency-Key.              *)
OneMessage == {m1}
TwoMessages == {m1, m2}
SameKey == [m \in Messages |-> k1]

Warn(r) == [rule |-> r, severity |-> "warn"]
Critical(r) == [rule |-> r, severity |-> "critical"]

Either == {{Warn(1)}, {Critical(2)}}
Both == {{Warn(1), Critical(2)}}
Several == {{}, {Warn(1), Critical(2)}, {Critical(1), Critical(2)}}

(* The state without the histories of lost deliveries, which no action     *)
(* reads: what a run may tell states apart by when no property of it does. *)
WithoutLogs == <<queueVars, pc, batch, jobVars, dbVars, pages, investigations, restarts>>

Symmetry == Permutations(Workers) \cup Permutations(Messages)
=============================================================================
