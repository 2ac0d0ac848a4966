----------------------------- MODULE RuleEngine -----------------------------
(***************************************************************************)
(* The rule engine (src/apps/worker/worker/rules.py) inside the workers'   *)
(* transactions: a worker inserts the inference record it claimed, loads   *)
(* the recent records of the same model that the database shows it,        *)
(* evaluates the seven rules and commits.  Workers run concurrently, the   *)
(* queue delivers in any order, so the history a record is judged against  *)
(* is whatever happens to be committed, not what happened before it.       *)
(*                                                                         *)
(* A verdict remembers, as history, the rows that were committed when the  *)
(* context was loaded.  Timestamps count minutes, and a completion is      *)
(* reduced to what the two text rules ask of it.  Costs are floats in the  *)
(* code; here they count a unit of which all are multiples.  Rounding then *)
(* matters only where a ratio is exactly 2, and there it goes either way.  *)
(***************************************************************************)
EXTENDS Integers, FiniteSets, FiniteSetsExt

CONSTANTS
    Workers,
    Records,        \* the inference records clients may post
    NoRecord,
    NoLabel,        \* predicted_label or expected_label None or empty
    LatencyMs,      \* latency_breach_ms
    CostLimit,      \* cost_anomaly_threshold_usd
    MinCost,        \* the 0.01 dollars below which a ratio is not reported
    FloorPercent,   \* accuracy_drift_floor
    StuckWindow,    \* stuck_model_window
    HistoryRows,    \* the 50 rows a context looks at, unless StuckWindow is more
    Heartbeat,      \* missing_heartbeat_minutes
    MaxRecords      \* bound on the records processed

RuleNames == {"LatencyBreach", "CostAnomaly", "AccuracyDrift", "StuckModel",
              "MissingHeartbeat", "PiiLeak", "ToxicityHeuristic"}
Findings == [rule : RuleNames, severity : {"warn", "critical"}]

(* "aware" is whether the timestamp of the posted record has a UTC offset. *)
ASSUME RecordAssumption ==
    \A r \in Records :
        /\ r.ts \in Int /\ r.cost \in Nat /\ r.latency \in Nat
        /\ r.aware \in BOOLEAN /\ r.pii \in BOOLEAN /\ r.toxic \in BOOLEAN
ASSUME NoRecordAssumption == NoRecord \notin Records
ASSUME ThresholdAssumption ==
    /\ LatencyMs \in Nat /\ CostLimit \in Nat /\ MinCost \in Nat /\ FloorPercent \in Nat
    /\ StuckWindow \in Nat \ {0} /\ HistoryRows \in Nat \ {0} /\ Heartbeat \in Nat
    /\ MaxRecords \in Nat

(* What load_context gives the rules, the rows behind the means included.  *)
Contexts == [seen : SUBSET Records, recent : SUBSET Records, labels : SUBSET Records]

VARIABLES
    open,       \* the record in the open transaction of each worker
    loaded,     \* its context: [seen, recent, labels], or NoRecord before load_context
    verdicts    \* committed records: [record, seen, findings]

vars == <<open, loaded, verdicts>>

(* The committed rows of inference_records.                                *)
Rows == {v.record : v \in verdicts}

-----------------------------------------------------------------------------
(* load_context.                                                           *)

(* Mutant: a record is part of its own history.                            *)
EarlierOrSame(r, S) == {x \in S : x.model = r.model /\ x.ts <= r.ts}

Earlier(r, S) == {x \in S : x.model = r.model /\ x.ts < r.ts}

(* What ORDER BY event_timestamp DESC LIMIT n may select of S: rows with   *)
(* equal timestamps come in any order.                                     *)
Newest(S, n) ==
    {T \in SUBSET S :
        /\ Cardinality(T) = IF Cardinality(S) < n THEN Cardinality(S) ELSE n
        /\ \A t \in T, s \in S \ T : s.ts <= t.ts}

Window == IF StuckWindow > HistoryRows THEN StuckWindow ELSE HistoryRows

WithLabel(S) == {r \in S : r.label # NoLabel}

(* Mutant: a record without an expected label counts as a miss.            *)
AllCompared(S) == WithLabel(S)

Compared(S) == {r \in S : r.label # NoLabel /\ r.expected # NoLabel}

-----------------------------------------------------------------------------
(* The rules.                                                              *)

Fires(rule, severity, condition) ==
    {f \in {[rule |-> rule, severity |-> severity]} : condition}

LatencyBreach(r) ==
    Fires("LatencyBreach", IF r.latency < 2 * LatencyMs THEN "warn" ELSE "critical",
          r.latency > LatencyMs)

(* The sum of the costs, before the rounding of each addition.             *)
TotalCost(S) == MapThenSumSet(LAMBDA r : r.cost, S)

(* Mutant: the cost is compared with the total instead of the mean.        *)
CostAnomalyByTotal(r, recent, roundsUp) ==
    Fires("CostAnomaly", "warn",
          \/ r.cost > CostLimit
          \/ /\ TotalCost(recent) > 0
             /\ r.cost >= 2 * TotalCost(recent)
             /\ r.cost >= MinCost)

(* Above the fixed limit, or at least twice the mean cost of the history.  *)
(* sum, mean and ratio are rounded: three costs of 0.1 make a mean a bit   *)
(* above 0.1, so 0.2 is less than twice of it, while 0.2 is twice one 0.1. *)
(* roundsUp is how a ratio of exactly 2 comes out.                         *)
CostAnomaly(r, recent, roundsUp) ==
    LET times == r.cost * Cardinality(recent)
        twice == 2 * TotalCost(recent)
    IN
    Fires("CostAnomaly", "warn",
          \/ r.cost > CostLimit
          \/ /\ TotalCost(recent) > 0
             /\ times > twice \/ (roundsUp /\ times = twice)
             /\ r.cost >= MinCost)

(* One division, rounded as the decimal floor is: equal if they are equal. *)
AccuracyDrift(recent) ==
    LET hits == {r \in Compared(recent) : r.label = r.expected} IN
    Fires("AccuracyDrift", "critical",
          100 * Cardinality(hits) < FloorPercent * Cardinality(Compared(recent)))

(* Mutant: a window that is not full yet is enough.                        *)
StuckModelEarly(r, labels) ==
    Fires("StuckModel", "warn", labels # {} /\ \A x \in labels : x.label = r.label)

StuckModel(r, labels) ==
    Fires("StuckModel", "warn",
          Cardinality(labels) >= StuckWindow /\ \A x \in labels : x.label = r.label)

(* The gap to the newest earlier record, hence to each of them.            *)
MissingHeartbeat(r, recent) ==
    Fires("MissingHeartbeat", "warn",
          recent # {} /\ \A x \in recent : r.ts - x.ts > Heartbeat)

(* Subtracting an aware timestamp from one without an offset raises.       *)
Raises(r, recent) == recent # {} /\ ~r.aware

PiiLeak(r) == Fires("PiiLeak", "critical", r.pii)

ToxicityHeuristic(r) == Fires("ToxicityHeuristic", "critical", r.toxic)

EvaluateAll(r, recent, labels, roundsUp) ==
    UNION {LatencyBreach(r), CostAnomaly(r, recent, roundsUp), AccuracyDrift(recent),
           StuckModel(r, labels), MissingHeartbeat(r, recent), PiiLeak(r),
           ToxicityHeuristic(r)}

-----------------------------------------------------------------------------
(* The transaction of one worker.                                          *)

Init ==
    /\ open = [w \in Workers |-> NoRecord]
    /\ loaded = [w \in Workers |-> NoRecord]
    /\ verdicts = {}

Claim(w, r) ==
    /\ open[w] = NoRecord
    /\ r \notin Rows /\ \A x \in Workers : open[x] # r
    /\ Cardinality(verdicts) < MaxRecords
    /\ open' = [open EXCEPT ![w] = r]
    /\ UNCHANGED <<loaded, verdicts>>

(* The transaction sees the committed rows and the row it inserted.        *)
LoadContext(w) ==
    /\ open[w] # NoRecord /\ loaded[w] = NoRecord
    /\ \E recent \in Newest(Earlier(open[w], Rows \cup {open[w]}), Window) :
        \E labels \in Newest(WithLabel(recent), StuckWindow) :
            loaded' = [loaded EXCEPT ![w] =
                          [seen |-> Rows, recent |-> recent, labels |-> labels]]
    /\ UNCHANGED <<open, verdicts>>

Close(w) ==
    /\ open' = [open EXCEPT ![w] = NoRecord]
    /\ loaded' = [loaded EXCEPT ![w] = NoRecord]

(* evaluate_all, the alerts and the commit.                                *)
Commit(w) ==
    LET r == open[w]  c == loaded[w] IN
    /\ loaded[w] # NoRecord
    /\ ~Raises(r, c.recent)
    /\ \E roundsUp \in BOOLEAN :
           verdicts' = verdicts \cup
               {[record |-> r, seen |-> c.seen,
                 findings |-> EvaluateAll(r, c.recent, c.labels, roundsUp)]}
    /\ Close(w)

(* Any exception, a rule's included: the record is not stored and comes    *)
(* back with a later delivery of its message.                              *)
Abort(w) ==
    /\ open[w] # NoRecord
    /\ Close(w)
    /\ UNCHANGED verdicts

Next ==
    \E w \in Workers :
        \/ \E r \in Records : Claim(w, r)
        \/ LoadContext(w)
        \/ Commit(w)
        \/ Abort(w)

Spec == Init /\ [][Next]_vars

-----------------------------------------------------------------------------
(* Properties.                                                             *)

Fired(v, rule) == \E f \in v.findings : f.rule = rule

(* The earlier records of its model a verdict could know of.               *)
Known(v) == Earlier(v.record, v.seen)

(* Type correctness; a context is loaded only for an open record, from     *)
(* rows that are still committed.                                          *)
TypeOK ==
    /\ open \in [Workers -> Records \cup {NoRecord}]
    /\ loaded \in [Workers -> Contexts \cup {NoRecord}]
    /\ \A w \in Workers : loaded[w] # NoRecord =>
        /\ open[w] \in Records
        /\ loaded[w].seen \subseteq Rows
        /\ loaded[w].labels \subseteq loaded[w].recent
        /\ loaded[w].recent \subseteq Rows
    /\ \A v \in verdicts :
        v.record \in Records /\ v.seen \subseteq Rows /\ v.findings \subseteq Findings

(* MissingHeartbeat fires for a record exactly when its model was known    *)
(* and silent for longer than the threshold before it, as far as the       *)
(* committed rows told when the context was loaded.                        *)
HeartbeatExact ==
    \A v \in verdicts :
        LET mine == {x \in v.seen : x.model = v.record.model /\ x.ts < v.record.ts} IN
        Fired(v, "MissingHeartbeat") <=>
            mine # {} /\ \A x \in mine : x.ts + Heartbeat < v.record.ts

(* StuckModel fires only at the end of a streak: StuckWindow earlier       *)
(* records of the model carry the label and none with another label is     *)
(* more recent than they all are.  A streak fires unless the context is    *)
(* too short for it: records without a label count against the context.    *)
StuckStreak ==
    \A v \in verdicts :
        LET same == {x \in Known(v) : x.label = v.record.label /\ x.label # NoLabel}
            other == {x \in Known(v) : x.label \notin {v.record.label, NoLabel}}
            Since(S, t) == {x \in S : x.ts >= t}
            Full(t) == Cardinality(Since(same, t)) >= StuckWindow
        IN
        /\ Fired(v, "StuckModel") =>
            \E x \in same : Full(x.ts) /\ \A y \in other : y.ts <= x.ts
        /\ \A x \in same :
            /\ Full(x.ts)
            /\ \A y \in other : y.ts < x.ts
            /\ Cardinality(Since(Known(v), x.ts)) <= HistoryRows
            => Fired(v, "StuckModel")

(* A model is reported for accuracy only on account of an earlier record   *)
(* that was wrong, never for the record at hand or for unlabelled ones.    *)
DriftHasCause ==
    \A v \in verdicts : Fired(v, "AccuracyDrift") =>
        \E x \in Known(v) :
            x.label # NoLabel /\ x.expected # NoLabel /\ x.label # x.expected

(* A cost within the fixed limit is reported only if some earlier record   *)
(* of the model cost at most half of it.  It is always reported if all of  *)
(* them did, one of them less than half, and the context could hold them   *)
(* all; where all cost exactly half of it, rounding decides.               *)
CostAgainstHistory ==
    \A v \in verdicts :
        LET c == v.record.cost
            Half(x) == 2 * x.cost <= c
        IN
        /\ Fired(v, "CostAnomaly") /\ c <= CostLimit =>
            c >= MinCost /\ \E x \in Known(v) : Half(x)
        /\ /\ c >= MinCost
           /\ \A x \in Known(v) : Half(x)
           /\ \E x \in Known(v) : 2 * x.cost < c
           /\ \E x \in Known(v) : x.cost > 0
           /\ Cardinality(Known(v)) <= HistoryRows
           => Fired(v, "CostAnomaly")

=============================================================================
