-------------------------- MODULE RuleEngineProofs --------------------------
(***************************************************************************)
(* Theorems about RuleEngine, for any set of records, any thresholds and   *)
(* any number of workers: type correctness, what MissingHeartbeat,         *)
(* StuckModel, AccuracyDrift and CostAnomaly report, and that a rule fires *)
(* at most once.  The strengthenings say what a loaded context is:         *)
(* Faithful, that for each earlier record of its model it holds one at     *)
(* least as recent, and Selected, that it is the newest HistoryRows of     *)
(* them.                                                                   *)
(***************************************************************************)
EXTENDS RuleEngine, LeastElements

(* The committed rows a loaded context was selected from are finitely many, *)
(* and the selection keeps the newest of them.                             *)
KeepsNewest(recent, S) ==
    /\ recent \subseteq S
    /\ \A s \in S : \E t \in recent : s.ts <= t.ts

Faithful ==
    /\ IsFiniteSet(Rows)
    /\ \A w \in Workers : loaded[w] # NoRecord =>
        KeepsNewest(loaded[w].recent, Earlier(open[w], loaded[w].seen))

(* ORDER BY timestamp DESC LIMIT n, with n > 0, returns earlier rows only, *)
(* and for every row it leaves out one that is at least as recent.         *)
LEMMA NewestKeepsNewest ==
    ASSUME NEW S, IsFiniteSet(S), \A s \in S : s.ts \in Int,
           NEW n \in Nat \ {0}, NEW T \in Newest(S, n)
    PROVE  KeepsNewest(T, S)
<1>1. T \subseteq S /\ \A t \in T, s \in S \ T : s.ts <= t.ts
  BY DEF Newest
<1>2. ASSUME NEW s \in S PROVE \E t \in T : s.ts <= t.ts
  <2>1. CASE s \in T
    BY <2>1 DEF Newest
  <2>2. CASE s \notin T
    <3>1. Cardinality(S) \in Nat /\ Cardinality(S) # 0
      BY <1>2, FS_CardinalityType, FS_EmptySet
    <3>2. Cardinality(T) # 0
      BY <3>1 DEF Newest
    <3>3. PICK t \in T : TRUE
      BY <3>2, FS_EmptySet
    <3> QED BY <1>1, <2>2, <3>3
  <2> QED BY <2>1, <2>2
<1> QED BY <1>1, <1>2 DEF KeepsNewest

LEMMA WindowPositive == Window \in Nat \ {0}
BY ThresholdAssumption DEF Window

(* The row a transaction inserted itself is not part of its own history.   *)
LEMMA OwnRowExcluded ==
    ASSUME NEW r \in Records, NEW S
    PROVE  Earlier(r, S \cup {r}) = Earlier(r, S)
BY RecordAssumption DEF Earlier

(* Every rule reports under its own name, so a fired rule is its own.      *)
LEMMA HeartbeatFinding ==
    ASSUME NEW r, NEW recent, NEW labels, NEW up
    PROVE  (\E f \in EvaluateAll(r, recent, labels, up) : f.rule = "MissingHeartbeat")
             <=> recent # {} /\ \A x \in recent : r.ts - x.ts > Heartbeat
<1>1. \A f \in EvaluateAll(r, recent, labels, up) :
          f.rule = "MissingHeartbeat" => f \in MissingHeartbeat(r, recent)
  BY DEF EvaluateAll, LatencyBreach, CostAnomaly, AccuracyDrift, StuckModel, PiiLeak,
         ToxicityHeuristic, Fires
<1>2. MissingHeartbeat(r, recent) \subseteq EvaluateAll(r, recent, labels, up)
  BY DEF EvaluateAll
<1>3. \A f \in MissingHeartbeat(r, recent) : f.rule = "MissingHeartbeat"
  BY DEF MissingHeartbeat, Fires
<1>4. MissingHeartbeat(r, recent) # {}
        <=> recent # {} /\ \A x \in recent : r.ts - x.ts > Heartbeat
  BY DEF MissingHeartbeat, Fires
<1> QED BY <1>1, <1>2, <1>3, <1>4

LEMMA FindingsTyped ==
    ASSUME NEW r, NEW recent, NEW labels, NEW up
    PROVE  EvaluateAll(r, recent, labels, up) \subseteq Findings
<1>1. LatencyBreach(r) \subseteq Findings
  BY DEF LatencyBreach, Fires, Findings, RuleNames
<1>2. CostAnomaly(r, recent, up) \subseteq Findings
  BY DEF CostAnomaly, Fires, Findings, RuleNames
<1>3. AccuracyDrift(recent) \subseteq Findings
  BY DEF AccuracyDrift, Fires, Findings, RuleNames
<1>4. StuckModel(r, labels) \subseteq Findings
  BY DEF StuckModel, Fires, Findings, RuleNames
<1>5. MissingHeartbeat(r, recent) \subseteq Findings
  BY DEF MissingHeartbeat, Fires, Findings, RuleNames
<1>6. PiiLeak(r) \subseteq Findings /\ ToxicityHeuristic(r) \subseteq Findings
  BY DEF PiiLeak, ToxicityHeuristic, Fires, Findings, RuleNames
<1> QED BY <1>1, <1>2, <1>3, <1>4, <1>5, <1>6 DEF EvaluateAll

(* evaluate_all returns at most one finding per rule: the assumption the   *)
(* module Worker makes of every verdict.                                   *)
THEOREM OneFindingPerRule ==
    ASSUME NEW r, NEW recent, NEW labels, NEW up,
           NEW f \in EvaluateAll(r, recent, labels, up), NEW g \in EvaluateAll(r, recent, labels, up),
           f.rule = g.rule
    PROVE  f = g
BY DEF EvaluateAll, LatencyBreach, CostAnomaly, AccuracyDrift, StuckModel, MissingHeartbeat,
       PiiLeak, ToxicityHeuristic, Fires

-----------------------------------------------------------------------------

(* What a commit adds: the verdict of one worker, up being how rounding     *)
(* decides.                                                                *)
VerdictOf(w, up) ==
    [record |-> open[w], seen |-> loaded[w].seen,
     findings |-> EvaluateAll(open[w], loaded[w].recent, loaded[w].labels, up)]

LEMMA ClosedSession ==
    ASSUME NEW w \in Workers, Close(w), TypeOK
    PROVE  /\ open' \in [Workers -> Records \cup {NoRecord}]
           /\ loaded' \in [Workers -> Contexts \cup {NoRecord}]
           /\ \A x \in Workers :
                  loaded'[x] # NoRecord => loaded'[x] = loaded[x] /\ open'[x] = open[x]
BY DEF Close, TypeOK

LEMMA CommitAdds ==
    ASSUME NEW w \in Workers, Commit(w), TypeOK
    PROVE  /\ \E up \in BOOLEAN : verdicts' = verdicts \cup {VerdictOf(w, up)}
           /\ Rows' = Rows \cup {open[w]}
           /\ Rows \subseteq Rows'
<1>1. PICK up \in BOOLEAN : verdicts' = verdicts \cup {VerdictOf(w, up)}
  BY DEF Commit, VerdictOf
<1>2. VerdictOf(w, up).record = open[w]
  BY DEF VerdictOf
<1>3. Rows' = Rows \cup {open[w]}
  BY <1>1, <1>2 DEF Rows
<1> QED BY <1>1, <1>3

(* Type correctness: a context belongs to an open record and comes from    *)
(* rows that are still committed.                                          *)
THEOREM RuleEngineTypeCorrect == Spec => []TypeOK
<1>1. Init => TypeOK
  BY DEF Init, TypeOK
<1>2. TypeOK /\ [Next]_vars => TypeOK'
  <2> SUFFICES ASSUME TypeOK, [Next]_vars PROVE TypeOK'
    OBVIOUS
  <2>1. CASE UNCHANGED vars
    BY <2>1 DEF TypeOK, vars, Rows
  <2>2. ASSUME NEW w \in Workers, NEW r \in Records, Claim(w, r) PROVE TypeOK'
    BY <2>2 DEF TypeOK, Claim, Rows
  <2>3. ASSUME NEW w \in Workers, LoadContext(w) PROVE TypeOK'
    <3>0. PICK recent \in Newest(Earlier(open[w], Rows \cup {open[w]}), Window) :
            \E labels \in Newest(WithLabel(recent), StuckWindow) :
              loaded' = [loaded EXCEPT ![w] =
                            [seen |-> Rows, recent |-> recent, labels |-> labels]]
      BY <2>3 DEF LoadContext
    <3>1. PICK labels \in Newest(WithLabel(recent), StuckWindow) :
            loaded' = [loaded EXCEPT ![w] =
                          [seen |-> Rows, recent |-> recent, labels |-> labels]]
      BY <3>0
    <3>2. open[w] \in Records
      BY <2>3 DEF LoadContext, TypeOK
    <3>3. recent \subseteq Rows
      BY <3>2, OwnRowExcluded DEF Newest, Earlier
    <3>4. labels \subseteq recent
      BY DEF Newest, WithLabel
    <3>5. UNCHANGED <<open, verdicts>> /\ Rows' = Rows
      BY <2>3 DEF LoadContext, Rows
    <3> DEFINE c == [seen |-> Rows, recent |-> recent, labels |-> labels]
    <3>6. Rows \subseteq Records
      BY DEF TypeOK, Rows
    <3>7. c \in Contexts /\ c.seen = Rows /\ c.recent = recent /\ c.labels = labels
      BY <3>3, <3>4, <3>6 DEF Contexts
    <3>8. loaded' = [loaded EXCEPT ![w] = c]
      BY <3>1
    <3> HIDE DEF c
    <3>9. loaded' \in [Workers -> Contexts \cup {NoRecord}]
      BY <3>7, <3>8 DEF TypeOK
    <3>10. loaded'[w] = c /\ \A x \in Workers : x # w => loaded'[x] = loaded[x]
      BY <3>8 DEF TypeOK
    <3> QED BY <3>2, <3>3, <3>4, <3>5, <3>7, <3>9, <3>10 DEF TypeOK
  <2>4. ASSUME NEW w \in Workers, Commit(w) PROVE TypeOK'
    <3>0. Rows \subseteq Rows' /\ Rows' = Rows \cup {open[w]}
      BY <2>4, CommitAdds
    <3>1. PICK up \in BOOLEAN : verdicts' = verdicts \cup {VerdictOf(w, up)}
      BY <2>4, CommitAdds
    <3>2. open[w] \in Records /\ loaded[w].seen \subseteq Rows
      BY <2>4 DEF Commit, TypeOK
    <3>3. /\ VerdictOf(w, up).record \in Records
          /\ VerdictOf(w, up).seen \subseteq Rows'
          /\ VerdictOf(w, up).findings \subseteq Findings
      BY <3>0, <3>2, FindingsTyped DEF VerdictOf
    <3>4. \A v \in verdicts' :
            v.record \in Records /\ v.seen \subseteq Rows' /\ v.findings \subseteq Findings
      BY <3>0, <3>1, <3>3 DEF TypeOK
    <3>5. Close(w)
      BY <2>4 DEF Commit
    <3> QED BY <3>0, <3>4, <3>5, ClosedSession DEF TypeOK
  <2>5. ASSUME NEW w \in Workers, Abort(w) PROVE TypeOK'
    <3>1. Close(w) /\ UNCHANGED verdicts /\ Rows' = Rows
      BY <2>5 DEF Abort, Rows
    <3> QED BY <3>1, ClosedSession DEF TypeOK
  <2> QED BY <2>1, <2>2, <2>3, <2>4, <2>5 DEF Next
<1> QED BY <1>1, <1>2, PTL DEF Spec

-----------------------------------------------------------------------------

LEMMA FaithfulInit == Init => Faithful /\ HeartbeatExact
BY FS_EmptySet DEF Init, Faithful, Rows, HeartbeatExact

(* A verdict on a faithful context is a verdict on all rows it knew of.    *)
LEMMA VerdictJudged ==
    ASSUME NEW r \in Records, NEW seen, NEW recent, NEW labels, NEW up,
           \A x \in seen : x.ts \in Int,
           KeepsNewest(recent, Earlier(r, seen)),
           NEW v, v = [record |-> r, seen |-> seen, findings |-> EvaluateAll(r, recent, labels, up)]
    PROVE  Fired(v, "MissingHeartbeat") <=>
               LET mine == {x \in v.seen : x.model = v.record.model /\ x.ts < v.record.ts}
               IN mine # {} /\ \A x \in mine : x.ts + Heartbeat < v.record.ts
<1> DEFINE mine == Earlier(r, seen)
<1>1. v.record = r /\ v.seen = seen /\ v.findings = EvaluateAll(r, recent, labels, up)
  OBVIOUS
<1>2. Fired(v, "MissingHeartbeat")
        <=> recent # {} /\ \A x \in recent : r.ts - x.ts > Heartbeat
  BY <1>1, HeartbeatFinding DEF Fired
<1>3. r.ts \in Int /\ Heartbeat \in Nat /\ \A x \in mine : x.ts \in Int
  BY RecordAssumption, ThresholdAssumption DEF Earlier
<1>4. recent \subseteq mine /\ \A s \in mine : \E t \in recent : s.ts <= t.ts
  BY DEF KeepsNewest
<1>5. recent # {} <=> mine # {}
  BY <1>4
<1>6. (\A x \in recent : r.ts - x.ts > Heartbeat) <=> (\A x \in mine : x.ts + Heartbeat < r.ts)
  <2> HIDE DEF mine
  <2>1. ASSUME \A x \in recent : r.ts - x.ts > Heartbeat, NEW s \in mine
        PROVE  s.ts + Heartbeat < r.ts
    <3>1. PICK t \in recent : s.ts <= t.ts
      BY <1>4
    <3>2. r.ts - t.ts > Heartbeat /\ t.ts \in Int /\ s.ts \in Int
      BY <1>3, <1>4, <2>1, <3>1
    <3> QED BY <1>3, <3>1, <3>2
  <2>2. ASSUME \A x \in mine : x.ts + Heartbeat < r.ts, NEW t \in recent
        PROVE  r.ts - t.ts > Heartbeat
    <3>1. t.ts + Heartbeat < r.ts /\ t.ts \in Int
      BY <1>3, <1>4, <2>2
    <3> QED BY <1>3, <3>1
  <2> QED BY <2>1, <2>2
<1>7. mine = {x \in v.seen : x.model = v.record.model /\ x.ts < v.record.ts}
  BY <1>1 DEF Earlier
<1> HIDE DEF mine
<1> QED BY <1>1, <1>2, <1>5, <1>6, <1>7

LEMMA FaithfulStep == TypeOK /\ Faithful /\ HeartbeatExact /\ [Next]_vars => Faithful' /\ HeartbeatExact'
<1> SUFFICES ASSUME TypeOK, Faithful, HeartbeatExact, [Next]_vars PROVE Faithful' /\ HeartbeatExact'
  OBVIOUS
<1>0. ASSUME UNCHANGED verdicts PROVE HeartbeatExact' /\ IsFiniteSet(Rows')
  BY <1>0 DEF HeartbeatExact, Fired, Known, Faithful, Rows
<1>1. CASE UNCHANGED vars
  BY <1>0, <1>1 DEF Faithful, vars
<1>2. ASSUME NEW w \in Workers, NEW r \in Records, Claim(w, r) PROVE Faithful' /\ HeartbeatExact'
  <2>1. loaded[w] = NoRecord
    BY <1>2, NoRecordAssumption DEF Claim, TypeOK
  <2>2. \A x \in Workers : loaded'[x] = loaded[x] /\ (x # w => open'[x] = open[x])
    BY <1>2 DEF Claim, TypeOK
  <2>3. UNCHANGED verdicts
    BY <1>2 DEF Claim
  <2> QED BY <1>0, <2>1, <2>2, <2>3 DEF Faithful
<1>3. ASSUME NEW w \in Workers, LoadContext(w) PROVE Faithful' /\ HeartbeatExact'
  <2>0. PICK recent \in Newest(Earlier(open[w], Rows \cup {open[w]}), Window) :
          \E labels \in Newest(WithLabel(recent), StuckWindow) :
            loaded' = [loaded EXCEPT ![w] =
                          [seen |-> Rows, recent |-> recent, labels |-> labels]]
    BY <1>3 DEF LoadContext
  <2>1. PICK labels \in Newest(WithLabel(recent), StuckWindow) :
          loaded' = [loaded EXCEPT ![w] =
                        [seen |-> Rows, recent |-> recent, labels |-> labels]]
    BY <2>0
  <2>2. open[w] \in Records /\ UNCHANGED <<open, verdicts>>
    BY <1>3 DEF LoadContext, TypeOK
  <2>3. recent \in Newest(Earlier(open[w], Rows), Window)
    BY <2>1, <2>2, OwnRowExcluded
  <2>4. IsFiniteSet(Rows) /\ \A s \in Rows : s.ts \in Int
    BY RecordAssumption DEF Faithful, TypeOK, Rows
  <2>5. IsFiniteSet(Earlier(open[w], Rows)) /\ \A s \in Earlier(open[w], Rows) : s.ts \in Int
    BY <2>4, FS_Subset DEF Earlier
  <2>6. KeepsNewest(recent, Earlier(open[w], Rows))
    BY <2>3, <2>5, WindowPositive, NewestKeepsNewest
  <2>7. /\ loaded'[w].recent = recent /\ loaded'[w].seen = Rows
        /\ \A x \in Workers : x # w => loaded'[x] = loaded[x]
    BY <2>1 DEF TypeOK
  <2> QED BY <1>0, <2>2, <2>6, <2>7 DEF Faithful
<1>4. ASSUME NEW w \in Workers, Close(w) PROVE
        \A x \in Workers : loaded'[x] # NoRecord => loaded'[x] = loaded[x] /\ open'[x] = open[x]
  BY <1>4, ClosedSession
<1>5. ASSUME NEW w \in Workers, Commit(w) PROVE Faithful' /\ HeartbeatExact'
  <2>1. PICK up \in BOOLEAN : verdicts' = verdicts \cup {VerdictOf(w, up)}
    BY <1>5, CommitAdds
  <2>2. IsFiniteSet(Rows')
    BY <1>5, CommitAdds, FS_AddElement DEF Faithful
  <2>3. Close(w)
    BY <1>5 DEF Commit
  <2>4. Faithful'
    BY <1>4, <2>2, <2>3 DEF Faithful
  <2>5. open[w] \in Records /\ KeepsNewest(loaded[w].recent, Earlier(open[w], loaded[w].seen))
    BY <1>5 DEF Commit, TypeOK, Faithful
  <2>6. \A x \in loaded[w].seen : x.ts \in Int
    BY <1>5, RecordAssumption DEF Commit, TypeOK, Rows
  <2>7. LET v == VerdictOf(w, up)
            mine == {x \in v.seen : x.model = v.record.model /\ x.ts < v.record.ts}
        IN Fired(v, "MissingHeartbeat") <=>
               mine # {} /\ \A x \in mine : x.ts + Heartbeat < v.record.ts
    BY <2>5, <2>6, VerdictJudged DEF VerdictOf
  <2>8. HeartbeatExact'
    BY <2>1, <2>7 DEF HeartbeatExact, Fired
  <2> QED BY <2>4, <2>8
<1>6. ASSUME NEW w \in Workers, Abort(w) PROVE Faithful' /\ HeartbeatExact'
  BY <1>0, <1>4, <1>6 DEF Abort, Faithful
<1> QED BY <1>1, <1>2, <1>3, <1>5, <1>6 DEF Next

(* For every history and every interleaving, MissingHeartbeat fires exactly *)
(* when the committed rows show a silence longer than the threshold,       *)
(* although load_context looks at a bounded number of rows only.           *)
THEOREM HeartbeatSound == Spec => []HeartbeatExact
<1>1. Spec => [](Faithful /\ HeartbeatExact)
  BY RuleEngineTypeCorrect, FaithfulInit, FaithfulStep, PTL DEF Spec
<1> QED BY <1>1, PTL

-----------------------------------------------------------------------------
(* What the cut-off contexts still tell of labels.                         *)

(* A finite set of records that is not empty has an oldest one.            *)
LEMMA OldestExists ==
    ASSUME NEW S, IsFiniteSet(S), S # {}, \A s \in S : s.ts \in Int
    PROVE  \E x \in S : \A y \in S : x.ts <= y.ts
<1> DEFINE key == [s \in S |-> s.ts]
<1>1. key \in [S -> Int]
  OBVIOUS
<1>2. PICK x \in S : \A y \in S : key[x] <= key[y]
  <2> HIDE DEF key
  <2> QED BY <1>1, LeastKey
<1> QED BY <1>2

(* The strengthening: a context holds the newest rows, and of the labels   *)
(* among them the newest ones.                                             *)
Selected ==
    /\ IsFiniteSet(Rows)
    /\ \A w \in Workers : loaded[w] # NoRecord =>
        /\ IsFiniteSet(loaded[w].seen)
        /\ loaded[w].recent \in Newest(Earlier(open[w], loaded[w].seen), Window)
        /\ loaded[w].labels \in Newest(WithLabel(loaded[w].recent), StuckWindow)

LEMMA SelectedStep == TypeOK /\ Selected /\ [Next]_vars => Selected'
<1> SUFFICES ASSUME TypeOK, Selected, [Next]_vars PROVE Selected'
  OBVIOUS
<1>1. CASE UNCHANGED vars
  BY <1>1 DEF vars, Selected, Rows
<1>2. ASSUME NEW w \in Workers, NEW r \in Records, Claim(w, r) PROVE Selected'
  <2>1. loaded[w] = NoRecord
    BY <1>2, NoRecordAssumption DEF Claim, TypeOK
  <2>2. \A x \in Workers : loaded'[x] = loaded[x] /\ (x # w => open'[x] = open[x])
    BY <1>2 DEF Claim, TypeOK
  <2>3. Rows' = Rows
    BY <1>2 DEF Claim, Rows
  <2> QED BY <2>1, <2>2, <2>3 DEF Selected
<1>3. ASSUME NEW w \in Workers, LoadContext(w) PROVE Selected'
  <2>1. PICK recent \in Newest(Earlier(open[w], Rows \cup {open[w]}), Window) :
          \E labels \in Newest(WithLabel(recent), StuckWindow) :
            loaded' = [loaded EXCEPT ![w] =
                          [seen |-> Rows, recent |-> recent, labels |-> labels]]
    BY <1>3 DEF LoadContext
  <2>2. PICK labels \in Newest(WithLabel(recent), StuckWindow) :
          loaded' = [loaded EXCEPT ![w] =
                        [seen |-> Rows, recent |-> recent, labels |-> labels]]
    BY <2>1
  <2>3. open[w] \in Records /\ UNCHANGED <<open, verdicts>> /\ Rows' = Rows
    BY <1>3 DEF LoadContext, TypeOK, Rows
  <2>4. recent \in Newest(Earlier(open[w], Rows), Window)
    BY <2>3, OwnRowExcluded
  <2>5. /\ loaded'[w].recent = recent /\ loaded'[w].seen = Rows /\ loaded'[w].labels = labels
        /\ \A x \in Workers : x # w => loaded'[x] = loaded[x]
    BY <2>2 DEF TypeOK
  <2> QED BY <2>3, <2>4, <2>5 DEF Selected
<1>4. ASSUME NEW w \in Workers, Commit(w) PROVE Selected'
  <2>0. Rows' = Rows \cup {open[w]}
    BY <1>4, CommitAdds
  <2>1. Close(w) /\ IsFiniteSet(Rows')
    BY <1>4, <2>0, FS_AddElement DEF Commit, Selected
  <2> QED BY <2>1, ClosedSession DEF Selected
<1>5. ASSUME NEW w \in Workers, Abort(w) PROVE Selected'
  <2>1. Close(w) /\ Rows' = Rows
    BY <1>5 DEF Abort, Rows
  <2> QED BY <2>1, ClosedSession DEF Selected
<1> QED BY <1>1, <1>2, <1>3, <1>4, <1>5 DEF Next

(* What a selected context means for the record r it was loaded for.       *)
Context(r, seen, recent, labels) ==
    /\ IsFiniteSet(Earlier(r, seen)) /\ \A x \in Earlier(r, seen) : x.ts \in Int
    /\ recent \in Newest(Earlier(r, seen), Window)
    /\ labels \in Newest(WithLabel(recent), StuckWindow)

LEMMA StuckFinding ==
    ASSUME NEW r, NEW recent, NEW labels, NEW up
    PROVE  (\E f \in EvaluateAll(r, recent, labels, up) : f.rule = "StuckModel")
             <=> Cardinality(labels) >= StuckWindow /\ \A x \in labels : x.label = r.label
<1>1. \A f \in EvaluateAll(r, recent, labels, up) : f.rule = "StuckModel" => f \in StuckModel(r, labels)
  BY DEF EvaluateAll, LatencyBreach, CostAnomaly, AccuracyDrift, MissingHeartbeat, PiiLeak,
         ToxicityHeuristic, Fires
<1>2. StuckModel(r, labels) \subseteq EvaluateAll(r, recent, labels, up)
  BY DEF EvaluateAll
<1>3. \A f \in StuckModel(r, labels) : f.rule = "StuckModel"
  BY DEF StuckModel, Fires
<1>4. StuckModel(r, labels) # {}
        <=> Cardinality(labels) >= StuckWindow /\ \A x \in labels : x.label = r.label
  BY DEF StuckModel, Fires
<1> QED BY <1>1, <1>2, <1>3, <1>4

(* The labels that made StuckModel fire are a streak; its first record is  *)
(* the oldest of them.                                                     *)
LEMMA StuckHasStreak ==
    ASSUME NEW r, NEW seen, NEW recent, NEW labels, Context(r, seen, recent, labels),
           Cardinality(labels) >= StuckWindow, \A x \in labels : x.label = r.label
    PROVE  LET known == Earlier(r, seen)
               same == {x \in known : x.label = r.label /\ x.label # NoLabel}
               other == {x \in known : x.label \notin {r.label, NoLabel}}
           IN \E x \in same : /\ Cardinality({y \in same : y.ts >= x.ts}) >= StuckWindow
                              /\ \A y \in other : y.ts <= x.ts
<1> DEFINE known == Earlier(r, seen)
           same == {x \in known : x.label = r.label /\ x.label # NoLabel}
           other == {x \in known : x.label \notin {r.label, NoLabel}}
<1>1. /\ IsFiniteSet(known) /\ \A x \in known : x.ts \in Int
      /\ recent \subseteq known /\ \A t \in recent, s \in known \ recent : s.ts <= t.ts
      /\ labels \subseteq WithLabel(recent)
      /\ \A t \in labels, s \in WithLabel(recent) \ labels : s.ts <= t.ts
  BY DEF Context, Newest
<1> HIDE DEF known
<1>2. labels \subseteq same /\ labels \subseteq known /\ labels \subseteq recent
  BY <1>1 DEF WithLabel
<1>3. IsFiniteSet(labels) /\ IsFiniteSet(same)
  BY <1>1, <1>2, FS_Subset
<1>4. labels # {}
  BY ThresholdAssumption, FS_EmptySet
<1>5. PICK x \in labels : \A y \in labels : x.ts <= y.ts
  BY <1>1, <1>2, <1>3, <1>4, OldestExists
<1> DEFINE since == {y \in same : y.ts >= x.ts}
<1>6. labels \subseteq since /\ IsFiniteSet(since)
  <2>1. \A y \in labels : y.ts >= x.ts
    BY <1>1, <1>2, <1>5
  <2>2. since \subseteq same
    OBVIOUS
  <2> QED BY <1>2, <1>3, <2>1, <2>2, FS_Subset
<1>7. Cardinality(since) >= StuckWindow
  <2> HIDE DEF since
  <2>1. Cardinality(labels) \in Nat /\ Cardinality(since) \in Nat
        /\ Cardinality(labels) <= Cardinality(since)
    BY <1>3, <1>6, FS_Subset, FS_CardinalityType
  <2> QED BY <2>1, ThresholdAssumption
<1>8. ASSUME NEW y \in other PROVE y.ts <= x.ts
  <2>1. y \in known /\ y \notin labels /\ y.label # NoLabel
    BY <1>8
  <2>2. CASE y \in recent
    BY <1>1, <2>1, <2>2 DEF WithLabel
  <2>3. CASE y \notin recent
    BY <1>1, <1>2, <2>1, <2>3
  <2> QED BY <2>2, <2>3
<1>9. x \in same
  BY <1>2
<1> QED BY <1>7, <1>8, <1>9 DEF known

(* A streak that the context has room for makes it fire.                   *)
LEMMA StreakIsStuck ==
    ASSUME NEW r, NEW seen, NEW recent, NEW labels, Context(r, seen, recent, labels),
           NEW x \in Earlier(r, seen), x.label = r.label, x.label # NoLabel,
           Cardinality({y \in {z \in Earlier(r, seen) : z.label = r.label /\ z.label # NoLabel} :
                            y.ts >= x.ts}) >= StuckWindow,
           \A y \in {z \in Earlier(r, seen) : z.label \notin {r.label, NoLabel}} : y.ts < x.ts,
           Cardinality({y \in Earlier(r, seen) : y.ts >= x.ts}) <= HistoryRows
    PROVE  Cardinality(labels) >= StuckWindow /\ \A y \in labels : y.label = r.label
<1> DEFINE known == Earlier(r, seen)
           streak == {y \in {z \in known : z.label = r.label /\ z.label # NoLabel} : y.ts >= x.ts}
           since == {y \in known : y.ts >= x.ts}
<1>1. /\ IsFiniteSet(known) /\ \A y \in known : y.ts \in Int
      /\ recent \subseteq known /\ \A t \in recent, s \in known \ recent : s.ts <= t.ts
      /\ Cardinality(recent) = IF Cardinality(known) < Window THEN Cardinality(known) ELSE Window
      /\ labels \subseteq WithLabel(recent)
      /\ \A t \in labels, s \in WithLabel(recent) \ labels : s.ts <= t.ts
      /\ Cardinality(labels) = IF Cardinality(WithLabel(recent)) < StuckWindow
                               THEN Cardinality(WithLabel(recent)) ELSE StuckWindow
  BY DEF Context, Newest
<1>2. Window \in Nat /\ HistoryRows \in Nat /\ HistoryRows <= Window /\ StuckWindow \in Nat
  BY ThresholdAssumption DEF Window
<1>3. /\ Cardinality(streak) >= StuckWindow /\ Cardinality(since) <= HistoryRows
      /\ \A y \in known : y.label \notin {r.label, NoLabel} => y.ts < x.ts
      /\ x \in known
  OBVIOUS
<1>4. /\ since \subseteq known /\ streak \subseteq since
      /\ \A y \in known : y \in since <=> y.ts >= x.ts
      /\ \A y \in known : y \in streak <=> y.label = r.label /\ y.label # NoLabel /\ y.ts >= x.ts
  OBVIOUS
<1> HIDE DEF known, streak, since
<1>5. /\ IsFiniteSet(recent) /\ IsFiniteSet(since) /\ IsFiniteSet(streak) /\ IsFiniteSet(labels)
      /\ IsFiniteSet(WithLabel(recent))
  BY <1>1, <1>4, FS_Subset DEF WithLabel
<1>6. /\ Cardinality(recent) \in Nat /\ Cardinality(since) \in Nat /\ Cardinality(streak) \in Nat
      /\ Cardinality(labels) \in Nat /\ Cardinality(known) \in Nat
      /\ Cardinality(WithLabel(recent)) \in Nat
  BY <1>1, <1>5, FS_CardinalityType
<1>7. since \subseteq recent
  <2> SUFFICES ASSUME NEW a \in since, a \notin recent PROVE FALSE
    OBVIOUS
  <2>1. \A t \in recent : t.ts >= x.ts
    <3>1. ASSUME NEW t \in recent PROVE t.ts >= x.ts
      <4>1. a.ts <= t.ts /\ a.ts >= x.ts /\ a.ts \in Int /\ t.ts \in Int /\ x.ts \in Int
        BY <1>1, <1>3, <1>4
      <4> QED BY <4>1
    <3> QED BY <3>1
  <2>2. recent \cup {a} \in SUBSET since
    BY <1>1, <1>4, <2>1
  <2>3. Cardinality(recent \cup {a}) = Cardinality(recent) + 1
    BY <1>5, FS_AddElement
  <2>4. Cardinality(recent) + 1 <= Cardinality(since)
    BY <1>5, <2>2, <2>3, FS_Subset
  <2>5. Cardinality(since) <= Cardinality(known)
    BY <1>1, <1>4, FS_Subset
  <2> QED BY <1>1, <1>2, <1>3, <1>6, <2>4, <2>5
<1>8. streak \in SUBSET WithLabel(recent)
  BY <1>1, <1>4, <1>7 DEF WithLabel
<1>9. Cardinality(streak) <= Cardinality(WithLabel(recent))
  BY <1>5, <1>8, FS_Subset
<1>10. Cardinality(labels) = StuckWindow
  BY <1>1, <1>2, <1>3, <1>6, <1>9
<1>11. ASSUME NEW l \in labels, l.label # r.label PROVE FALSE
  <2>1. l \in known /\ l.label # NoLabel
    BY <1>1 DEF WithLabel
  <2>2. l.ts < x.ts /\ l.ts \in Int /\ x.ts \in Int
    BY <1>1, <1>3, <1>11, <2>1
  <2>3. streak \subseteq labels
    <3> SUFFICES ASSUME NEW s \in streak, s \notin labels PROVE FALSE
      OBVIOUS
    <3>1. s.ts <= l.ts /\ s \in known
      BY <1>1, <1>4, <1>8
    <3>2. s.ts >= x.ts /\ s.ts \in Int
      BY <1>1, <1>4, <3>1
    <3> QED BY <2>2, <3>1, <3>2
  <2>4. l \notin streak
    BY <1>4, <1>11, <2>1
  <2>5. streak \cup {l} \in SUBSET labels
    BY <2>3
  <2>6. Cardinality(streak \cup {l}) = Cardinality(streak) + 1
    BY <1>5, <2>4, FS_AddElement
  <2>7. Cardinality(streak) + 1 <= Cardinality(labels)
    BY <1>5, <2>5, <2>6, FS_Subset
  <2> QED BY <1>2, <1>3, <1>6, <1>10, <2>7
<1> QED BY <1>2, <1>10, <1>11

LEMMA DriftFinding ==
    ASSUME NEW r, NEW recent, NEW labels, NEW up,
           \E f \in EvaluateAll(r, recent, labels, up) : f.rule = "AccuracyDrift"
    PROVE  100 * Cardinality({x \in Compared(recent) : x.label = x.expected})
             < FloorPercent * Cardinality(Compared(recent))
BY DEF EvaluateAll, LatencyBreach, CostAnomaly, AccuracyDrift, StuckModel, MissingHeartbeat,
       PiiLeak, ToxicityHeuristic, Fires

(* A share of at most 100 percent of n is at most n.                        *)
LEMMA TimesMonotone == ASSUME NEW f \in Nat, NEW n \in Nat, f <= 100 PROVE f * n <= 100 * n
<1>1. (100 - f) * n >= 0
  OBVIOUS
<1>2. (100 - f) * n = 100 * n - f * n
  OBVIOUS
<1> QED BY <1>1, <1>2

(* With a floor of at most 100 percent, a history without a miss is above  *)
(* the floor.                                                              *)
LEMMA DriftNeedsMiss ==
    ASSUME NEW recent, IsFiniteSet(recent), FloorPercent <= 100,
           100 * Cardinality({x \in Compared(recent) : x.label = x.expected})
             < FloorPercent * Cardinality(Compared(recent))
    PROVE  \E x \in recent : x.label # NoLabel /\ x.expected # NoLabel /\ x.label # x.expected
<1> SUFFICES ASSUME \A x \in Compared(recent) : x.label = x.expected PROVE FALSE
  BY DEF Compared
<1>1. {x \in Compared(recent) : x.label = x.expected} = Compared(recent)
  OBVIOUS
<1>2. Cardinality(Compared(recent)) \in Nat
  BY FS_Subset, FS_CardinalityType DEF Compared
<1> DEFINE n == Cardinality(Compared(recent))
<1>3. 100 * n < FloorPercent * n
  BY <1>1
<1>4. n \in Nat
  BY <1>2
<1> HIDE DEF n
<1>5. FloorPercent * n <= 100 * n
  BY <1>4, ThresholdAssumption, TimesMonotone
<1>6. 100 * n \in Nat /\ FloorPercent * n \in Nat
  BY <1>4, ThresholdAssumption
<1> QED BY <1>3, <1>5, <1>6

LEMMA SelectedAlways == Spec => []Selected
<1>1. Init => Selected
  BY FS_EmptySet DEF Init, Selected, Rows
<1> QED BY <1>1, SelectedStep, RuleEngineTypeCorrect, PTL DEF Spec

(* The verdict that a commit adds was reached on such a context.           *)
LEMMA CommitInContext ==
    ASSUME TypeOK, Selected, NEW w \in Workers, Commit(w)
    PROVE  /\ \E up \in BOOLEAN : verdicts' = verdicts \cup {VerdictOf(w, up)}
           /\ Context(open[w], loaded[w].seen, loaded[w].recent, loaded[w].labels)
           /\ IsFiniteSet(loaded[w].recent)
           /\ loaded[w].recent \subseteq Earlier(open[w], loaded[w].seen)
<1>1. /\ IsFiniteSet(loaded[w].seen) /\ loaded[w].seen \subseteq Records
      /\ loaded[w].recent \in Newest(Earlier(open[w], loaded[w].seen), Window)
      /\ loaded[w].labels \in Newest(WithLabel(loaded[w].recent), StuckWindow)
  BY DEF Commit, Selected, TypeOK, Rows
<1>2. IsFiniteSet(Earlier(open[w], loaded[w].seen)) /\ loaded[w].recent \subseteq Earlier(open[w], loaded[w].seen)
  BY <1>1, FS_Subset DEF Earlier, Newest
<1> QED BY <1>1, <1>2, CommitAdds, FS_Subset, RecordAssumption DEF Context, Earlier

(* The body of StuckStreak, for one verdict.                               *)
StreakExact(v) ==
    LET same == {x \in Known(v) : x.label = v.record.label /\ x.label # NoLabel}
        other == {x \in Known(v) : x.label \notin {v.record.label, NoLabel}}
        Since(S, t) == {x \in S : x.ts >= t}
        Full(t) == Cardinality(Since(same, t)) >= StuckWindow
    IN
    /\ Fired(v, "StuckModel") =>
        \E x \in same : Full(x.ts) /\ \A y \in other : y.ts <= x.ts
    /\ \A x \in same :
        /\ Full(x.ts)
        /\ \A y \in other : y.ts < x.ts
        /\ Cardinality(Since(Known(v), x.ts)) <= HistoryRows
        => Fired(v, "StuckModel")

LEMMA CommitStreakExact ==
    ASSUME TypeOK, Selected, NEW w \in Workers, Commit(w), NEW up \in BOOLEAN
    PROVE  StreakExact(VerdictOf(w, up))
<1> DEFINE r == open[w]
           seen == loaded[w].seen
           recent == loaded[w].recent
           labels == loaded[w].labels
           v == VerdictOf(w, up)
<1>1. Context(r, seen, recent, labels)
  BY CommitInContext
<1>2. v.record = r /\ Known(v) = Earlier(r, seen)
  BY DEF VerdictOf, Known
<1>3. Fired(v, "StuckModel")
        <=> Cardinality(labels) >= StuckWindow /\ \A x \in labels : x.label = r.label
  BY StuckFinding DEF Fired, VerdictOf
<1> HIDE DEF r, seen, recent, labels, v
<1>4. ASSUME Fired(v, "StuckModel")
      PROVE  LET known == Earlier(r, seen)
                 same == {x \in known : x.label = r.label /\ x.label # NoLabel}
                 other == {x \in known : x.label \notin {r.label, NoLabel}}
             IN \E x \in same : /\ Cardinality({y \in same : y.ts >= x.ts}) >= StuckWindow
                                /\ \A y \in other : y.ts <= x.ts
  BY <1>1, <1>3, <1>4, StuckHasStreak
<1>5. ASSUME NEW x \in Earlier(r, seen), x.label = r.label, x.label # NoLabel,
             Cardinality({y \in {z \in Earlier(r, seen) : z.label = r.label /\ z.label # NoLabel} :
                            y.ts >= x.ts}) >= StuckWindow,
             \A y \in {z \in Earlier(r, seen) : z.label \notin {r.label, NoLabel}} : y.ts < x.ts,
             Cardinality({y \in Earlier(r, seen) : y.ts >= x.ts}) <= HistoryRows
      PROVE  Fired(v, "StuckModel")
  BY <1>1, <1>3, <1>5, StreakIsStuck
<1>6. StreakExact(v)
  <2> DEFINE same == {x \in Earlier(r, seen) : x.label = r.label /\ x.label # NoLabel}
             other == {x \in Earlier(r, seen) : x.label \notin {r.label, NoLabel}}
             Since(S, t) == {x \in S : x.ts >= t}
  <2>1. Fired(v, "StuckModel") =>
            \E x \in same : /\ Cardinality(Since(same, x.ts)) >= StuckWindow
                            /\ \A y \in other : y.ts <= x.ts
    BY <1>4
  <2>2. ASSUME NEW x \in same, Cardinality(Since(same, x.ts)) >= StuckWindow,
               \A y \in other : y.ts < x.ts,
               Cardinality(Since(Earlier(r, seen), x.ts)) <= HistoryRows
        PROVE  Fired(v, "StuckModel")
    BY <1>5, <2>2
  <2> QED BY <1>2, <2>1, <2>2 DEF StreakExact
<1> QED BY <1>6 DEF v

(* However rows are cut off, tied, unlabelled or missing: StuckModel fires *)
(* only at the end of a streak of StuckWindow equal labels, and for every  *)
(* streak that the context has room for.                                   *)
THEOREM StuckSound == Spec => []StuckStreak
<1>1. StuckStreak <=> \A v \in verdicts : StreakExact(v)
  BY DEF StuckStreak, StreakExact
<1>2. Init => \A v \in verdicts : StreakExact(v)
  BY DEF Init
<1>3. ASSUME TypeOK, Selected, \A v \in verdicts : StreakExact(v), [Next]_vars
      PROVE  \A v \in verdicts' : StreakExact(v)
  <2>1. CASE verdicts' = verdicts
    BY <1>3, <2>1
  <2>2. ASSUME NEW w \in Workers, Commit(w) PROVE \A v \in verdicts' : StreakExact(v)
    BY <1>3, <2>2, CommitInContext, CommitStreakExact
  <2> QED BY <1>3, <2>1, <2>2 DEF Next, vars, Claim, LoadContext, Abort
<1>4. (\A v \in verdicts : StreakExact(v))' <=> \A v \in verdicts' : StreakExact(v)
  BY DEF StreakExact, Fired, Known
<1>5. Spec => [](\A v \in verdicts : StreakExact(v))
  BY <1>2, <1>3, <1>4, RuleEngineTypeCorrect, SelectedAlways, PTL DEF Spec
<1> QED BY <1>1, <1>5, PTL

(* As long as the floor is a fraction: a model is reported for accuracy    *)
(* only on account of an earlier record that was wrong.                    *)
THEOREM DriftSound ==
    ASSUME FloorPercent <= 100
    PROVE  Spec => []DriftHasCause
<1>1. Init => DriftHasCause
  BY DEF Init, DriftHasCause
<1>2. TypeOK /\ Selected /\ DriftHasCause /\ [Next]_vars => DriftHasCause'
  <2> SUFFICES ASSUME TypeOK, Selected, DriftHasCause, [Next]_vars PROVE DriftHasCause'
    OBVIOUS
  <2>1. CASE verdicts' = verdicts
    BY <2>1 DEF DriftHasCause, Fired, Known
  <2>2. ASSUME NEW w \in Workers, Commit(w) PROVE DriftHasCause'
    <3>0. PICK up \in BOOLEAN : verdicts' = verdicts \cup {VerdictOf(w, up)}
      BY <2>2, CommitInContext
    <3>1. /\ IsFiniteSet(loaded[w].recent)
          /\ loaded[w].recent \subseteq Earlier(open[w], loaded[w].seen)
      BY <2>2, CommitInContext
    <3>2. Known(VerdictOf(w, up)) = Earlier(open[w], loaded[w].seen)
      BY DEF Known, VerdictOf
    <3>3. ASSUME Fired(VerdictOf(w, up), "AccuracyDrift")
          PROVE  \E x \in loaded[w].recent :
                    x.label # NoLabel /\ x.expected # NoLabel /\ x.label # x.expected
      BY <3>1, <3>3, DriftFinding, DriftNeedsMiss DEF Fired, VerdictOf
    <3>4. Fired(VerdictOf(w, up), "AccuracyDrift") =>
            \E x \in Known(VerdictOf(w, up)) :
                x.label # NoLabel /\ x.expected # NoLabel /\ x.label # x.expected
      BY <3>1, <3>2, <3>3
    <3> QED BY <3>0, <3>4 DEF DriftHasCause, Fired, Known
  <2> QED BY <2>1, <2>2 DEF Next, vars, Claim, LoadContext, Abort
<1> QED BY <1>1, <1>2, RuleEngineTypeCorrect, SelectedAlways, PTL DEF Spec

-----------------------------------------------------------------------------
(* The mean cost of a context.                                             *)

Any(S) == CHOOSE x \in S : TRUE
Rest(S) == S \ {Any(S)}

(* g is the function that TotalCost(S) evaluates at S.                     *)
Sums(g, S) == g = [T \in SUBSET S |-> IF T = {} THEN 0 ELSE Any(T).cost + g[Rest(T)]]

LEMMA TotalCostDef ==
    ASSUME NEW S
    PROVE  TotalCost(S) = (CHOOSE g : Sums(g, S))[S]
BY DEF TotalCost, MapThenSumSet, MapThenFoldSet, Sums, Any, Rest

LEMMA RestSmaller ==
    ASSUME NEW S, S # {}
    PROVE  /\ Any(S) \in S /\ Any(S) \notin Rest(S)
           /\ Rest(S) \subseteq S /\ Rest(S) # S /\ S = Rest(S) \cup {Any(S)}
BY DEF Any, Rest

(* Two such functions agree wherever both are defined.                     *)
LEMMA SumsAgree ==
    ASSUME NEW S, NEW T, NEW g, NEW h, Sums(g, S), Sums(h, T),
           NEW U, IsFiniteSet(U), U \subseteq S, U \subseteq T
    PROVE  g[U] = h[U]
<1> DEFINE bad == {V \in SUBSET U : g[V] # h[V]}
<1> SUFFICES ASSUME bad # {} PROVE FALSE
  OBVIOUS
<1>1. PICK B \in bad : \A C \in bad : C \subseteq B => C = B
  <2>1. bad \subseteq SUBSET U
    OBVIOUS
  <2> HIDE DEF bad
  <2> QED BY <2>1, SmallestSubset
<1>2. /\ g[B] = IF B = {} THEN 0 ELSE Any(B).cost + g[Rest(B)]
      /\ h[B] = IF B = {} THEN 0 ELSE Any(B).cost + h[Rest(B)]
  BY <1>1 DEF Sums
<1>3. B # {}
  BY <1>1, <1>2
<1>4. Rest(B) \notin bad /\ Rest(B) \in SUBSET U
  BY <1>1, <1>3, RestSmaller
<1> QED BY <1>1, <1>2, <1>3, <1>4

(* The definition of TotalCost is sound: there is such a function.         *)
LEMMA SumsExist ==
    ASSUME NEW S, IsFiniteSet(S)
    PROVE  \E g : Sums(g, S)
<1> DEFINE bad == {T \in SUBSET S : ~ \E g : Sums(g, T)}
<1> SUFFICES ASSUME bad # {} PROVE FALSE
  OBVIOUS
<1>1. PICK B \in bad : \A C \in bad : C \subseteq B => C = B
  <2>1. bad \subseteq SUBSET S
    OBVIOUS
  <2> HIDE DEF bad
  <2> QED BY <2>1, SmallestSubset
<1> DEFINE F(T) == CHOOSE g : Sums(g, T)
           h == [T \in SUBSET B |-> IF T = {} THEN 0 ELSE Any(T).cost + F(Rest(T))[Rest(T)]]
<1>2. ASSUME NEW T \in SUBSET B, T # B PROVE Sums(F(T), T)
  <2>1. \E g : Sums(g, T)
    BY <1>1, <1>2
  <2> QED BY <2>1
<1>3. ASSUME NEW T \in SUBSET B, T # B PROVE h[T] = F(T)[T]
  <2>1. F(T)[T] = IF T = {} THEN 0 ELSE Any(T).cost + F(T)[Rest(T)]
    <3>1. Sums(F(T), T)
      BY <1>2, <1>3
    <3> HIDE DEF F
    <3> QED BY <3>1 DEF Sums
  <2>2. CASE T = {}
    BY <2>1, <2>2
  <2>3. CASE T # {}
    <3>1. Rest(T) \in SUBSET B /\ Rest(T) # B /\ Rest(T) \subseteq T /\ IsFiniteSet(Rest(T))
      BY <1>1, <2>3, RestSmaller, FS_Subset
    <3>2. Sums(F(T), T) /\ Sums(F(Rest(T)), Rest(T))
      BY <1>2, <1>3, <3>1
    <3> HIDE DEF F
    <3>3. F(T)[Rest(T)] = F(Rest(T))[Rest(T)]
      BY <3>1, <3>2, SumsAgree
    <3> QED BY <2>1, <2>3, <3>3
  <2> QED BY <2>2, <2>3
<1>4. ASSUME NEW T \in SUBSET B, T # {} PROVE F(Rest(T))[Rest(T)] = h[Rest(T)]
  <2>1. Rest(T) \in SUBSET B /\ Rest(T) # B
    BY <1>4, RestSmaller
  <2> HIDE DEF F, h
  <2> QED BY <1>3, <2>1
<1>5. Sums(h, B)
  <2>1. h = [T \in SUBSET B |-> IF T = {} THEN 0 ELSE Any(T).cost + F(Rest(T))[Rest(T)]]
    OBVIOUS
  <2> HIDE DEF h, F
  <2>2. h = [T \in SUBSET B |-> IF T = {} THEN 0 ELSE Any(T).cost + h[Rest(T)]]
    BY <1>4, <2>1
  <2> QED BY <2>2 DEF Sums
<1> QED BY <1>1, <1>5

(* What TotalCost computes, one record at a time.                          *)
LEMMA TotalCostIs ==
    ASSUME NEW S, IsFiniteSet(S)
    PROVE  TotalCost(S) = IF S = {} THEN 0 ELSE Any(S).cost + TotalCost(Rest(S))
<1> DEFINE F(T) == CHOOSE g : Sums(g, T)
<1>1. Sums(F(S), S)
  BY SumsExist
<1>2. F(S)[S] = IF S = {} THEN 0 ELSE Any(S).cost + F(S)[Rest(S)]
  BY <1>1 DEF Sums
<1>3. CASE S = {}
  BY <1>2, <1>3, TotalCostDef
<1>4. CASE S # {}
  <2>1. Rest(S) \subseteq S /\ IsFiniteSet(Rest(S))
    BY <1>4, RestSmaller, FS_Subset
  <2>2. Sums(F(Rest(S)), Rest(S))
    BY <2>1, SumsExist
  <2>3. TotalCost(S) = F(S)[S] /\ TotalCost(Rest(S)) = F(Rest(S))[Rest(S)]
    BY TotalCostDef
  <2> HIDE DEF F
  <2>4. F(S)[Rest(S)] = F(Rest(S))[Rest(S)]
    BY <1>1, <2>1, <2>2, SumsAgree
  <2> QED BY <1>2, <1>4, <2>3, <2>4
<1> QED BY <1>3, <1>4

LEMMA TimesSuccessor ==
    ASSUME NEW c \in Nat, NEW n \in Nat
    PROVE  c * (n + 1) = c * n + c /\ c * n \in Nat
OBVIOUS

LEMMA AddBounds ==
    ASSUME NEW s \in Nat, NEW t \in Nat, NEW c \in Nat, NEW d \in Nat
    PROVE  /\ 2 * s <= c /\ 2 * t <= d => 2 * (s + t) <= d + c
           /\ 2 * s >= c /\ 2 * t >= d => 2 * (s + t) >= d + c
           /\ 2 * s < c /\ 2 * t <= d => 2 * (s + t) < d + c
           /\ 2 * s <= c /\ 2 * t < d => 2 * (s + t) < d + c
OBVIOUS

(* A total lies between the bounds that hold for each of its terms.        *)
LEMMA TotalCostBounds ==
    ASSUME NEW S, IsFiniteSet(S), \A x \in S : x.cost \in Nat, NEW c \in Nat
    PROVE  /\ TotalCost(S) \in Nat
           /\ \A x \in S : x.cost <= TotalCost(S)
           /\ (\A x \in S : 2 * x.cost <= c) => 2 * TotalCost(S) <= c * Cardinality(S)
           /\ (\A x \in S : 2 * x.cost >= c) => 2 * TotalCost(S) >= c * Cardinality(S)
           /\ (\A x \in S : 2 * x.cost <= c) /\ (\E x \in S : 2 * x.cost < c)
                  => 2 * TotalCost(S) < c * Cardinality(S)
<1> DEFINE Good(T) ==
      /\ TotalCost(T) \in Nat
      /\ \A x \in T : x.cost <= TotalCost(T)
      /\ (\A x \in T : 2 * x.cost <= c) => 2 * TotalCost(T) <= c * Cardinality(T)
      /\ (\A x \in T : 2 * x.cost >= c) => 2 * TotalCost(T) >= c * Cardinality(T)
      /\ (\A x \in T : 2 * x.cost <= c) /\ (\E x \in T : 2 * x.cost < c)
             => 2 * TotalCost(T) < c * Cardinality(T)
    bad == {T \in SUBSET S : ~ Good(T)}
<1> SUFFICES ASSUME bad # {} PROVE FALSE
  OBVIOUS
<1> HIDE DEF Good
<1>1. PICK B \in bad : \A C \in bad : C \subseteq B => C = B
  <2>1. bad \subseteq SUBSET S
    OBVIOUS
  <2> HIDE DEF bad
  <2> QED BY <2>1, SmallestSubset
<1>2. IsFiniteSet(B)
  BY <1>1, FS_Subset
<1>3. CASE B = {}
  BY <1>1, <1>2, <1>3, TotalCostIs, FS_EmptySet DEF Good
<1>4. CASE B # {}
  <2> DEFINE a == Any(B)  R == Rest(B)
  <2>1. /\ a \in B /\ R \subseteq B /\ R # B /\ B = R \cup {a} /\ a \notin R
        /\ IsFiniteSet(R)
    BY <1>2, <1>4, RestSmaller, FS_Subset
  <2>2. TotalCost(B) = a.cost + TotalCost(R)
    BY <1>2, <1>4, TotalCostIs
  <2> HIDE DEF a, R
  <2>3. Good(R)
    BY <1>1, <2>1
  <2>4. Cardinality(B) = Cardinality(R) + 1 /\ Cardinality(R) \in Nat
    BY <2>1, FS_AddElement, FS_CardinalityType
  <2>5. c * Cardinality(B) = c * Cardinality(R) + c /\ c * Cardinality(R) \in Nat
    BY <2>4, TimesSuccessor
  <2>6. a.cost \in Nat /\ TotalCost(R) \in Nat
    BY <1>1, <2>1, <2>3 DEF Good
  <2>7. TotalCost(B) \in Nat /\ \A x \in B : x.cost <= TotalCost(B)
    <3>1. ASSUME NEW x \in R PROVE x.cost <= TotalCost(B)
      <4>1. x.cost <= TotalCost(R) /\ x.cost \in Nat
        BY <1>1, <2>1, <2>3, <3>1 DEF Good
      <4> QED BY <2>2, <2>6, <4>1
    <3>2. TotalCost(B) \in Nat /\ a.cost <= TotalCost(B)
      BY <2>2, <2>6
    <3>3. \A x \in B : x \in R \/ x = a
      BY <2>1
    <3> QED BY <3>1, <3>2, <3>3
  <2>8. ASSUME \A x \in B : 2 * x.cost <= c PROVE 2 * TotalCost(B) <= c * Cardinality(B)
    <3>1. 2 * TotalCost(R) <= c * Cardinality(R) /\ 2 * a.cost <= c
      BY <2>1, <2>3, <2>8 DEF Good
    <3>2. 2 * (a.cost + TotalCost(R)) <= c * Cardinality(R) + c
      BY <2>5, <2>6, <3>1, AddBounds
    <3>3. 2 * TotalCost(B) <= c * Cardinality(R) + c
      BY <2>2, <3>2
    <3> QED BY <2>5, <3>3
  <2>9. ASSUME \A x \in B : 2 * x.cost >= c PROVE 2 * TotalCost(B) >= c * Cardinality(B)
    <3>1. 2 * TotalCost(R) >= c * Cardinality(R) /\ 2 * a.cost >= c
      BY <2>1, <2>3, <2>9 DEF Good
    <3>2. 2 * (a.cost + TotalCost(R)) >= c * Cardinality(R) + c
      BY <2>5, <2>6, <3>1, AddBounds
    <3>3. 2 * TotalCost(B) >= c * Cardinality(R) + c
      BY <2>2, <3>2
    <3> QED BY <2>5, <3>3
  <2>10. ASSUME \A x \in B : 2 * x.cost <= c, NEW y \in B, 2 * y.cost < c
         PROVE  2 * TotalCost(B) < c * Cardinality(B)
    <3>1. 2 * TotalCost(R) <= c * Cardinality(R) /\ 2 * a.cost <= c
      BY <2>1, <2>3, <2>10 DEF Good
    <3>2. 2 * a.cost < c \/ 2 * TotalCost(R) < c * Cardinality(R)
      <4>1. CASE y = a
        BY <2>10, <4>1
      <4>2. CASE y \in R
        BY <2>1, <2>3, <2>10, <4>2 DEF Good
      <4> QED BY <2>1, <2>10, <4>1, <4>2
    <3>3. 2 * (a.cost + TotalCost(R)) < c * Cardinality(R) + c
      BY <2>5, <2>6, <3>1, <3>2, AddBounds
    <3>4. 2 * TotalCost(B) < c * Cardinality(R) + c
      BY <2>2, <3>3
    <3> QED BY <2>5, <3>4
  <2>11. Good(B)
    BY <2>7, <2>8, <2>9, <2>10 DEF Good
  <2> QED BY <1>1, <2>11
<1> QED BY <1>3, <1>4

(* The ratio test of CostAnomaly.                                          *)
TwiceTheMean(c, recent, up) ==
    LET times == c * Cardinality(recent)
        twice == 2 * TotalCost(recent)
    IN times > twice \/ (up /\ times = twice)

(* What a report of CostAnomaly says of its context.                       *)
LEMMA CostFinding ==
    ASSUME NEW r, NEW recent, NEW labels, NEW up
    PROVE  (\E f \in EvaluateAll(r, recent, labels, up) : f.rule = "CostAnomaly")
             <=> \/ r.cost > CostLimit
                 \/ /\ TotalCost(recent) > 0
                    /\ TwiceTheMean(r.cost, recent, up)
                    /\ r.cost >= MinCost
<1> DEFINE condition == \/ r.cost > CostLimit
                        \/ /\ TotalCost(recent) > 0
                           /\ TwiceTheMean(r.cost, recent, up)
                           /\ r.cost >= MinCost
<1>1. \A f \in EvaluateAll(r, recent, labels, up) : f.rule = "CostAnomaly" => f \in CostAnomaly(r, recent, up)
  BY DEF EvaluateAll, LatencyBreach, StuckModel, AccuracyDrift, MissingHeartbeat, PiiLeak,
         ToxicityHeuristic, Fires
<1>2. CostAnomaly(r, recent, up) \subseteq EvaluateAll(r, recent, labels, up)
  BY DEF EvaluateAll
<1>3. CostAnomaly(r, recent, up) = Fires("CostAnomaly", "warn", condition)
  BY DEF CostAnomaly, TwiceTheMean
<1> HIDE DEF condition
<1>4. \A f \in CostAnomaly(r, recent, up) : f.rule = "CostAnomaly"
  BY <1>3 DEF Fires
<1>5. CostAnomaly(r, recent, up) # {} <=> condition
  BY <1>3 DEF Fires
<1>6. (\E f \in EvaluateAll(r, recent, labels, up) : f.rule = "CostAnomaly") <=> condition
  BY <1>1, <1>2, <1>4, <1>5
<1> QED BY <1>6 DEF condition

(* A cost that is twice the mean of a context is twice one of its costs.   *)
LEMMA AnomalyHasHalf ==
    ASSUME NEW recent, IsFiniteSet(recent), \A x \in recent : x.cost \in Nat, NEW c \in Nat,
           TotalCost(recent) > 0, c * Cardinality(recent) >= 2 * TotalCost(recent)
    PROVE  \E x \in recent : 2 * x.cost <= c
<1> SUFFICES ASSUME \A x \in recent : ~(2 * x.cost <= c) PROVE FALSE
  OBVIOUS
<1>1. \A x \in recent : 2 * x.cost >= c + 1
  OBVIOUS
<1>2. 2 * TotalCost(recent) >= (c + 1) * Cardinality(recent)
  <2>1. c + 1 \in Nat
    OBVIOUS
  <2> QED BY <1>1, <2>1, TotalCostBounds
<1>3. Cardinality(recent) \in Nat /\ TotalCost(recent) \in Nat
  BY FS_CardinalityType, TotalCostBounds
<1>4. recent # {}
  BY TotalCostIs
<1>5. Cardinality(recent) # 0
  BY <1>4, FS_EmptySet
<1> DEFINE n == Cardinality(recent)
<1>6. (c + 1) * n = c * n + n /\ c * n \in Nat
  BY <1>3
<1>7. c * n >= 2 * TotalCost(recent) /\ 2 * TotalCost(recent) >= (c + 1) * n /\ n \in Nat /\ n # 0
  BY <1>2, <1>3, <1>5
<1> HIDE DEF n
<1> QED BY <1>3, <1>6, <1>7

(* A context that is large enough for the whole history is the history.    *)
LEMMA WholeHistory ==
    ASSUME NEW r, NEW seen, NEW recent, NEW labels, Context(r, seen, recent, labels),
           Cardinality(Earlier(r, seen)) <= HistoryRows
    PROVE  recent = Earlier(r, seen)
<1> DEFINE known == Earlier(r, seen)
<1>1. IsFiniteSet(known) /\ recent \in SUBSET known
      /\ Cardinality(recent) = IF Cardinality(known) < Window THEN Cardinality(known) ELSE Window
  BY DEF Context, Newest
<1>2. Window \in Nat /\ HistoryRows \in Nat /\ HistoryRows <= Window
  BY ThresholdAssumption DEF Window
<1>3. Cardinality(known) \in Nat /\ Cardinality(known) <= HistoryRows
  BY <1>1, FS_CardinalityType
<1> HIDE DEF known
<1>4. Cardinality(recent) = Cardinality(known)
  BY <1>1, <1>2, <1>3
<1>5. recent = known
  BY <1>1, <1>4, FS_Subset
<1> QED BY <1>5 DEF known

(* The body of CostAgainstHistory, for one verdict.                        *)
CostExact(v) ==
    LET c == v.record.cost
        Half(x) == 2 * x.cost <= c
    IN
    /\ Fired(v, "CostAnomaly") /\ c <= CostLimit =>
        c >= MinCost /\ \E x \in Known(v) : Half(x)
    /\ /\ c >= MinCost
       /\ \A x \in Known(v) : Half(x)
       /\ \E x \in Known(v) : 2 * x.cost < c
       /\ \E x \in Known(v) : x.cost > 0
       /\ Cardinality(Known(v)) <= HistoryRows
       => Fired(v, "CostAnomaly")

LEMMA CommitCostExact ==
    ASSUME TypeOK, Selected, NEW w \in Workers, Commit(w), NEW up \in BOOLEAN
    PROVE  CostExact(VerdictOf(w, up))
<1> DEFINE r == open[w]
           seen == loaded[w].seen
           recent == loaded[w].recent
           labels == loaded[w].labels
           v == VerdictOf(w, up)
           c == r.cost
<1>1. /\ Context(r, seen, recent, labels)
      /\ IsFiniteSet(recent) /\ recent \subseteq Earlier(r, seen)
  BY CommitInContext
<1>2. v.record = r /\ Known(v) = Earlier(r, seen)
  BY DEF VerdictOf, Known
<1>3. Fired(v, "CostAnomaly")
        <=> \/ c > CostLimit
            \/ /\ TotalCost(recent) > 0
               /\ TwiceTheMean(c, recent, up)
               /\ c >= MinCost
  BY CostFinding DEF Fired, VerdictOf
<1>4. c \in Nat /\ CostLimit \in Nat /\ \A x \in Earlier(r, seen) : x.cost \in Nat
  <2>1. r \in Records /\ seen \subseteq Records
    BY NoRecordAssumption DEF Commit, TypeOK, Rows
  <2> QED BY <2>1, RecordAssumption, ThresholdAssumption DEF Earlier
<1> HIDE DEF r, seen, recent, labels, v
<1>5. ASSUME Fired(v, "CostAnomaly"), c <= CostLimit
      PROVE  c >= MinCost /\ \E x \in Earlier(r, seen) : 2 * x.cost <= c
  <2>0. TotalCost(recent) > 0 /\ c >= MinCost /\ TwiceTheMean(c, recent, up)
    BY <1>3, <1>4, <1>5
  <2>1. c * Cardinality(recent) >= 2 * TotalCost(recent)
    <3>1. TotalCost(recent) \in Nat /\ Cardinality(recent) \in Nat
      BY <1>1, <1>4, FS_CardinalityType, TotalCostBounds
    <3>2. c * Cardinality(recent) \in Nat
      BY <1>4, <3>1
    <3> HIDE DEF c
    <3> QED BY <2>0, <3>1, <3>2 DEF TwiceTheMean
  <2>2. \A x \in recent : x.cost \in Nat
    BY <1>1, <1>4
  <2>3. c \in Nat
    BY <1>4
  <2> HIDE DEF c
  <2>4. \E x \in recent : 2 * x.cost <= c
    BY <1>1, <2>0, <2>1, <2>2, <2>3, AnomalyHasHalf
  <2> QED BY <1>1, <2>0, <2>4
<1>6. ASSUME c >= MinCost, \A x \in Earlier(r, seen) : 2 * x.cost <= c,
             NEW x \in Earlier(r, seen), x.cost > 0,
             NEW y \in Earlier(r, seen), 2 * y.cost < c,
             Cardinality(Earlier(r, seen)) <= HistoryRows
      PROVE  Fired(v, "CostAnomaly")
  <2>1. recent = Earlier(r, seen)
    BY <1>1, <1>6, WholeHistory
  <2>2. c \in Nat /\ x.cost \in Nat
    BY <1>4
  <2> HIDE DEF c
  <2>3. /\ TotalCost(recent) \in Nat /\ x.cost <= TotalCost(recent)
        /\ 2 * TotalCost(recent) < c * Cardinality(recent)
    BY <1>1, <1>4, <1>6, <2>1, <2>2, TotalCostBounds
  <2>4. Cardinality(recent) \in Nat
    BY <1>1, FS_CardinalityType
  <2>5. TotalCost(recent) > 0 /\ c * Cardinality(recent) \in Nat
    BY <1>6, <2>2, <2>3, <2>4
  <2>6. TwiceTheMean(c, recent, up)
    BY <2>3, <2>5 DEF TwiceTheMean
  <2> QED BY <1>3, <1>6, <2>5, <2>6
<1>7. CostExact(v)
  BY <1>2, <1>5, <1>6 DEF CostExact
<1> QED BY <1>7 DEF v

(* However a context is cut, the mean of its costs says something of the   *)
(* whole history: a cost within the fixed limit is reported only if some   *)
(* earlier record cost at most half of it, and whenever all of them did,   *)
(* one of them less, and the context could hold them.                      *)
THEOREM CostSound == Spec => []CostAgainstHistory
<1>1. CostAgainstHistory <=> \A v \in verdicts : CostExact(v)
  BY DEF CostAgainstHistory, CostExact
<1>2. Init => \A v \in verdicts : CostExact(v)
  BY DEF Init
<1>3. ASSUME TypeOK, Selected, \A v \in verdicts : CostExact(v), [Next]_vars
      PROVE  \A v \in verdicts' : CostExact(v)
  <2>1. CASE verdicts' = verdicts
    BY <1>3, <2>1
  <2>2. ASSUME NEW w \in Workers, Commit(w) PROVE \A v \in verdicts' : CostExact(v)
    BY <1>3, <2>2, CommitInContext, CommitCostExact
  <2> QED BY <1>3, <2>1, <2>2 DEF Next, vars, Claim, LoadContext, Abort
<1>4. (\A v \in verdicts : CostExact(v))' <=> \A v \in verdicts' : CostExact(v)
  BY DEF CostExact, Fired, Known
<1>5. Spec => [](\A v \in verdicts : CostExact(v))
  BY <1>2, <1>3, <1>4, RuleEngineTypeCorrect, SelectedAlways, PTL DEF Spec
<1> QED BY <1>1, <1>5, PTL

=============================================================================
