---------------------------- MODULE WorkerProofs ----------------------------
(***************************************************************************)
(* Proofs about Worker, for every number of workers, messages and keys,    *)
(* every verdict set, receive count and number of restarts.                *)
(***************************************************************************)
EXTENDS Worker, TLAPS

USE KeyAssumption, PoisonAssumption, RuleAssumption, PartnerAssumption,
    InvestigateAssumption, BoundAssumption, NoReceiptAssumption

(* The receipts a poll hands out are receipts.                             *)
LEMMA ReceiptsOfType ==
    ASSUME TypeOK, NEW S \in SUBSET Messages, Receivable(S)
    PROVE  ReceiptsOf(S) \in SUBSET Receipts
  BY DEF TypeOK, Receivable, ReceiptsOf, Receipts

(* An alert made from a receipt and a finding is an alert.                 *)
LEMMA AlertOfType ==
    ASSUME NEW r \in Receipts, NEW f \in Findings
    PROVE  AlertOf(r, f) \in Alerts
  BY DEF Receipts, Findings, AlertOf, Alerts

(* The findings of a verdict are findings.                                 *)
LEMMA VerdictType ==
    ASSUME NEW v \in Verdicts \cup {{}}
    PROVE  v \in SUBSET Findings
  BY VerdictAssumption

-----------------------------------------------------------------------------
LEMMA TypeInit == Init => TypeOK
  BY DEF Init, TypeOK, Processing

(* Closing the session leaves the worker without a receipt.                *)
LEMMA CloseSessionType ==
    ASSUME TypeOK, NEW w \in Workers, CloseSession(w)
    PROVE  /\ cur' \in [Workers -> Receipts \cup {NoReceipt}]
           /\ verdict' \in [Workers -> Verdicts \cup {{}}]
           /\ pending' \in [Workers -> SUBSET Deliveries]
           /\ rows' \in [Workers -> SUBSET Attempts]
           /\ outbox' \in [Workers -> SUBSET Findings]
           /\ cur'[w] = NoReceipt
           /\ \A x \in Workers \ {w} : cur'[x] = cur[x] /\ verdict'[x] = verdict[x]
  BY DEF CloseSession, TypeOK

LEMMA WriteAllType ==
    ASSUME TypeOK, NEW w \in Workers, ReadyToCommit(w), WriteAll(w)
    PROVE  /\ records' \subseteq [key : Keys, msg : Messages]
           /\ alerts' \subseteq Alerts
           /\ attempts' \subseteq Attempts
  <1>1. cur[w] \in Receipts /\ cur[w].msg \in Messages
    BY DEF TypeOK, ReadyToCommit, Processing, Receipts
  <1>2. \A f \in verdict[w] : AlertOf(cur[w], f) \in Alerts
    BY <1>1, AlertOfType, VerdictType DEF TypeOK
  <1> QED
    BY <1>1, <1>2 DEF TypeOK, WriteAll

LEMMA TypeStep == TypeOK /\ [Next]_vars => TypeOK'
  <1> SUFFICES ASSUME TypeOK, [Next]_vars PROVE TypeOK'
    OBVIOUS
  <1> USE DEF TypeOK, vars, queueVars, jobVars, dbVars, logVars
  <1>1. ASSUME NEW m \in Messages, Arrive(m) \/ VisibilityExpires(m) \/ Redrive(m)
        PROVE  TypeOK'
    BY <1>1 DEF Arrive, VisibilityExpires, Redrive
  <1>2. ASSUME NEW w \in Workers, NEW S \in SUBSET Messages, Receive(w, S) \/ ReceiveLost(w, S)
        PROVE  TypeOK'
    <2>1. ReceiptsOf(S) \in SUBSET Receipts
      BY <1>2, ReceiptsOfType DEF Receive, ReceiveLost
    <2>2. queue' \in [Messages -> {"unsent", "visible", "inflight", "deleted", "dlq"}]
      BY <1>2 DEF Receive, ReceiveLost, HandOut
    <2>3. receives' \in [Messages -> 0..MaxReceive]
      BY <1>2 DEF Receive, ReceiveLost, HandOut, Receivable
    <2> QED
      BY <1>2, <2>1, <2>2, <2>3 DEF Receive, ReceiveLost
  <1>3. ASSUME NEW w \in Workers, ReceiveNothing(w) PROVE TypeOK'
    BY <1>3 DEF ReceiveNothing
  <1>4. ASSUME NEW w \in Workers, Take(w) PROVE TypeOK'
    BY <1>4 DEF Take, Processing
  <1>5. ASSUME NEW w \in Workers, ClaimFirst(w) \/ ClaimDuplicate(w) PROVE TypeOK'
    BY <1>5 DEF ClaimFirst, ClaimDuplicate, Processing
  <1>6. ASSUME NEW w \in Workers, Evaluate(w) PROVE TypeOK'
    <2>1. \A v \in Verdicts : DeliveriesOf(v) \in SUBSET Deliveries
      BY DEF DeliveriesOf
    <2> QED
      BY <1>6, <2>1 DEF Evaluate, Processing
  <1>7. ASSUME NEW w \in Workers, Send(w) PROVE TypeOK'
    <2>1. cur[w] \in Receipts
      BY <1>7 DEF Send, Processing
    <2>2. PICK d \in pending[w], reached \in BOOLEAN, ok \in BOOLEAN :
             /\ pending' = [pending EXCEPT ![w] = @ \ {d}]
             /\ rows' = [rows EXCEPT ![w] = @ \cup
                    {[alert |-> AlertOf(cur[w], d.finding), partner |-> d.partner, ok |-> ok]}]
             /\ pages' = IF reached
                    THEN pages \cup {[alert |-> AlertOf(cur[w], d.finding), partner |-> d.partner]}
                    ELSE pages
      BY <1>7 DEF Send
    <2>3. AlertOf(cur[w], d.finding) \in Alerts /\ d.partner \in Partners
      BY <2>1, AlertOfType DEF Deliveries
    <2> QED
      BY <1>7, <2>2, <2>3 DEF Send, Attempts
  <1>8. ASSUME NEW w \in Workers, Commit(w) PROVE TypeOK'
    <2>1. CriticalOf(verdict[w]) \in SUBSET Findings
      BY VerdictType DEF CriticalOf
    <2> QED
      BY <1>8, <2>1, WriteAllType DEF Commit, ReadyToCommit, Processing
  <1>9. ASSUME NEW w \in Workers, CommitUnconfirmed(w) PROVE TypeOK'
    BY <1>9, WriteAllType, CloseSessionType DEF CommitUnconfirmed, ReadyToCommit, Processing
  <1>10. ASSUME NEW w \in Workers, EnqueueInvestigation(w) PROVE TypeOK'
    <2>1. \A f \in outbox[w] : AlertOf(cur[w], f) \in Alerts
      BY <1>10, AlertOfType DEF EnqueueInvestigation, Processing
    <2> QED
      BY <1>10, <2>1 DEF EnqueueInvestigation
  <1>11. ASSUME NEW w \in Workers, Delete(w) PROVE TypeOK'
    BY <1>11, CloseSessionType DEF Delete, Processing
  <1>12. ASSUME NEW w \in Workers, Fail(w) \/ Reject(w) PROVE TypeOK'
    BY <1>12, CloseSessionType DEF Fail, Reject, Processing
  <1>13. ASSUME NEW w \in Workers, Crash(w) PROVE TypeOK'
    BY <1>13, CloseSessionType DEF Crash, Processing
  <1>14. ASSUME NEW w \in Workers, Stop(w) \/ Start(w) PROVE TypeOK'
    BY <1>14 DEF Stop, Start, Polling, Processing
  <1>15. CASE UNCHANGED vars
    BY <1>15
  <1> QED
    BY <1>1, <1>2, <1>3, <1>4, <1>5, <1>6, <1>7, <1>8, <1>9, <1>10, <1>11, <1>12,
       <1>13, <1>14, <1>15 DEF Next, Progress, Disturbance

(* The state stays well typed: queue counters within the redrive bound, a  *)
(* receipt held exactly while a message is processed.                      *)
THEOREM TypeCorrect == Spec => []TypeOK
  BY TypeInit, TypeStep, PTL DEF Spec

-----------------------------------------------------------------------------
(* What the unique constraint gives every worker while it processes: an    *)
(* open transaction holds its key alone and nothing is committed under     *)
(* that key; a message past its commit, or found to be a duplicate, has a  *)
(* committed record.                                                       *)
ClaimsConsistent ==
    /\ \A w, x \in Workers :
        /\ pc[w] \in InClaim /\ pc[x] \in InClaim
        /\ KeyOf[cur[w].msg] = KeyOf[cur[x].msg]
        => w = x
    /\ \A w \in Workers : pc[w] \in InClaim => ~Recorded(KeyOf[cur[w].msg])
    /\ \A w \in Workers : pc[w] = "finish" => Recorded(KeyOf[cur[w].msg])

(* The inductive invariant behind deduplication.  ClaimsConsistent is the   *)
(* strengthening: NoDuplicateAlerts survives a commit because the worker    *)
(* that commits holds its key alone with nothing recorded under it, and     *)
(* NoLostEvent survives a delete because a finished message is recorded.    *)
DedupeInv == TypeOK /\ ClaimsConsistent /\ NoLostEvent /\ NoDuplicateAlerts

LEMMA DedupeInit == Init => DedupeInv
  <1> SUFFICES ASSUME Init PROVE DedupeInv
    OBVIOUS
  <1>1. TypeOK
    BY TypeInit
  <1>2. ClaimsConsistent
    BY DEF Init, ClaimsConsistent, InClaim
  <1> QED
    BY <1>1, <1>2 DEF Init, DedupeInv, NoLostEvent, NoDuplicateAlerts

(* A step of worker w that commits nothing and leaves w outside its claim.  *)
LEMMA ClaimsReleased ==
    ASSUME TypeOK, ClaimsConsistent, NEW w \in Workers,
           records' = records,
           \A x \in Workers \ {w} : pc'[x] = pc[x] /\ cur'[x] = cur[x],
           pc'[w] \notin InClaim \cup {"finish"}
    PROVE  ClaimsConsistent'
  BY DEF ClaimsConsistent, Recorded

(* A step that moves no worker into or out of a claim and commits nothing.  *)
LEMMA ClaimsUnchanged ==
    ASSUME ClaimsConsistent, records' = records, cur' = cur,
           \A x \in Workers : \/ pc'[x] = pc[x]
                              \/ pc[x] \in InClaim /\ pc'[x] \in InClaim
    PROVE  ClaimsConsistent'
  BY DEF ClaimsConsistent, Recorded, InClaim

(* Committing a worker's transaction: its key becomes recorded.             *)
LEMMA WriteAllClaims ==
    ASSUME DedupeInv, NEW w \in Workers, ReadyToCommit(w), WriteAll(w),
           \A x \in Workers \ {w} : pc'[x] = pc[x] /\ cur'[x] = cur[x],
           \/ pc'[w] = "finish" /\ cur'[w] = cur[w]
           \/ pc'[w] = "poll"
    PROVE  ClaimsConsistent' /\ NoDuplicateAlerts'
  <1>1. cur[w] \in Receipts /\ cur[w].msg \in Messages /\ pc[w] = "deliver"
    BY DEF DedupeInv, TypeOK, ReadyToCommit, Processing, Receipts
  <1>2. \A r \in records : r.key # KeyOf[cur[w].msg]
    BY <1>1 DEF DedupeInv, ClaimsConsistent, InClaim, Recorded
  <1>3. \A k \in Keys : (\E r \in records' : r.key = k)
                         <=> (\E r \in records : r.key = k) \/ k = KeyOf[cur[w].msg]
    <2> DEFINE new == [key |-> KeyOf[cur[w].msg], msg |-> cur[w].msg]
    <2>1. records' = records \cup {new} /\ new.key = KeyOf[cur[w].msg]
      BY DEF WriteAll
    <2> HIDE DEF new
    <2> QED
      BY <2>1
  <1>4. ClaimsConsistent'
    <2>1. \A x \in Workers : pc[x] \in Processing => KeyOf[cur[x].msg] \in Keys
      BY DEF DedupeInv, TypeOK, Receipts
    <2> QED
      BY <1>1, <1>3, <2>1 DEF DedupeInv, ClaimsConsistent, InClaim, Processing, Recorded
  <1>5. verdict[w] \in SUBSET Findings
        /\ \A f, g \in verdict[w] : f.rule = g.rule => f = g
    BY VerdictAssumption DEF DedupeInv, TypeOK
  <1>6. \A a \in alerts : KeyOf[a.msg] # KeyOf[cur[w].msg]
    BY <1>2 DEF DedupeInv, NoDuplicateAlerts
  <1>7. \A a \in alerts' : \/ a \in alerts
                           \/ \E f \in verdict[w] : a = AlertOf(cur[w], f)
    BY DEF WriteAll
  <1>8. \A a \in alerts' \ alerts : a.msg = cur[w].msg /\ a.n = cur[w].n
    BY <1>7 DEF AlertOf
  <1>9. \A a, b \in alerts' \ alerts : a.rule = b.rule => a = b
    BY <1>5, <1>7 DEF AlertOf
  <1>10. NoDuplicateAlerts'
    <2>1. \A a \in alerts' : [key |-> KeyOf[a.msg], msg |-> a.msg] \in records'
      BY <1>7, <1>8 DEF WriteAll, DedupeInv, NoDuplicateAlerts
    <2>2. \A r, s \in records' : r.key = s.key => r = s
      BY <1>2 DEF WriteAll, DedupeInv, NoDuplicateAlerts
    <2>3. ASSUME NEW a \in alerts', NEW b \in alerts', KeyOf[a.msg] = KeyOf[b.msg]
          PROVE  a.msg = b.msg /\ a.n = b.n /\ (a.rule = b.rule => a = b)
      BY <2>3, <1>6, <1>8, <1>9 DEF DedupeInv, NoDuplicateAlerts
    <2> QED
      BY <2>1, <2>2, <2>3 DEF NoDuplicateAlerts
  <1> QED
    BY <1>4, <1>10

LEMMA DedupeStep == DedupeInv /\ [Next]_vars => DedupeInv'
  <1> SUFFICES ASSUME DedupeInv, [Next]_vars PROVE DedupeInv'
    OBVIOUS
  <1>0. TypeOK /\ TypeOK' /\ ClaimsConsistent /\ NoLostEvent /\ NoDuplicateAlerts
    BY TypeStep DEF DedupeInv
  <1> USE <1>0 DEF vars, queueVars, jobVars, dbVars, logVars
  (* No commit: the alerts and records stay as they are.                    *)
  <1>a. ASSUME records' = records, alerts' = alerts PROVE NoDuplicateAlerts'
    BY <1>a DEF NoDuplicateAlerts
  (* No delete: every deleted message was deleted and recorded before.      *)
  <1>b. ASSUME records \subseteq records',
               \A m \in Messages : queue'[m] = "deleted" => queue[m] = "deleted"
        PROVE  NoLostEvent'
    BY <1>b DEF NoLostEvent
  <1>1. ASSUME NEW m \in Messages, Arrive(m) \/ VisibilityExpires(m) \/ Redrive(m)
        PROVE  DedupeInv'
    <2>1. \A n \in Messages : queue'[n] = "deleted" => queue[n] = "deleted"
      BY <1>1 DEF Arrive, VisibilityExpires, Redrive, TypeOK
    <2> QED
      BY <1>1, <2>1, <1>a, <1>b, ClaimsUnchanged
      DEF Arrive, VisibilityExpires, Redrive, DedupeInv
  <1>2. ASSUME NEW w \in Workers, NEW S \in SUBSET Messages, Receive(w, S) \/ ReceiveLost(w, S)
        PROVE  DedupeInv'
    <2>1. \A n \in Messages : queue'[n] = "deleted" => queue[n] = "deleted"
      BY <1>2 DEF Receive, ReceiveLost, HandOut, TypeOK
    <2> QED
      BY <1>2, <2>1, <1>a, <1>b, ClaimsUnchanged DEF Receive, ReceiveLost, DedupeInv
  <1>3. ASSUME NEW w \in Workers, Take(w) PROVE DedupeInv'
    <2>1. ClaimsConsistent'
      BY <1>3, ClaimsReleased DEF Take, InClaim, TypeOK
    <2> QED
      BY <1>3, <2>1, <1>a, <1>b DEF Take, DedupeInv
  <1>4. ASSUME NEW w \in Workers, ClaimFirst(w) PROVE DedupeInv'
    <2>1. \A x \in Workers : pc[x] \in InClaim => KeyOf[cur[x].msg] # KeyOf[cur[w].msg]
      BY <1>4 DEF ClaimFirst, Holders
    <2>2. ClaimsConsistent'
      BY <1>4, <2>1 DEF ClaimFirst, ClaimsConsistent, InClaim, Recorded, TypeOK
    <2> QED
      BY <1>4, <2>2, <1>a, <1>b DEF ClaimFirst, DedupeInv
  <1>5. ASSUME NEW w \in Workers, ClaimDuplicate(w) PROVE DedupeInv'
    <2>1. ClaimsConsistent'
      BY <1>5 DEF ClaimDuplicate, ClaimsConsistent, InClaim, Recorded, TypeOK
    <2> QED
      BY <1>5, <2>1, <1>a, <1>b DEF ClaimDuplicate, DedupeInv
  <1>6. ASSUME NEW w \in Workers, Evaluate(w) PROVE DedupeInv'
    <2>1. ClaimsConsistent'
      BY <1>6, ClaimsUnchanged DEF Evaluate, InClaim, TypeOK
    <2> QED
      BY <1>6, <2>1, <1>a, <1>b DEF Evaluate, DedupeInv
  <1>7. ASSUME NEW w \in Workers, Send(w) \/ EnqueueInvestigation(w) PROVE DedupeInv'
    BY <1>7, <1>a, <1>b, ClaimsUnchanged DEF Send, EnqueueInvestigation, DedupeInv
  <1>8. ASSUME NEW w \in Workers, Commit(w) PROVE DedupeInv'
    <2>1. ClaimsConsistent' /\ NoDuplicateAlerts'
      BY <1>8, WriteAllClaims DEF Commit, TypeOK
    <2>2. records \subseteq records' /\ queue' = queue
      BY <1>8 DEF Commit, WriteAll
    <2> QED
      BY <2>1, <2>2, <1>b DEF DedupeInv
  <1>9. ASSUME NEW w \in Workers, CommitUnconfirmed(w) PROVE DedupeInv'
    <2>1. ClaimsConsistent' /\ NoDuplicateAlerts'
      BY <1>9, WriteAllClaims, CloseSessionType DEF CommitUnconfirmed, TypeOK
    <2>2. records \subseteq records' /\ queue' = queue
      BY <1>9 DEF CommitUnconfirmed, WriteAll
    <2> QED
      BY <2>1, <2>2, <1>b DEF DedupeInv
  <1>10. ASSUME NEW w \in Workers, Delete(w) PROVE DedupeInv'
    <2>1. ClaimsConsistent'
      BY <1>10, ClaimsReleased, CloseSessionType DEF Delete, InClaim, TypeOK
    <2>2. Recorded(KeyOf[cur[w].msg])
      BY <1>10 DEF Delete, ClaimsConsistent
    <2>3. NoLostEvent'
      BY <1>10, <2>2 DEF Delete, NoLostEvent, Recorded, TypeOK
    <2> QED
      BY <1>10, <2>1, <2>3, <1>a DEF Delete, DedupeInv
  <1>11. ASSUME NEW w \in Workers, Fail(w) \/ Reject(w) PROVE DedupeInv'
    <2>1. ClaimsConsistent'
      BY <1>11, ClaimsReleased, CloseSessionType DEF Fail, Reject, InClaim, TypeOK
    <2> QED
      BY <1>11, <2>1, <1>a, <1>b DEF Fail, Reject, DedupeInv
  <1>12. ASSUME NEW w \in Workers, Crash(w) PROVE DedupeInv'
    <2>1. ClaimsConsistent'
      BY <1>12, ClaimsReleased, CloseSessionType DEF Crash, InClaim, TypeOK
    <2> QED
      BY <1>12, <2>1, <1>a, <1>b DEF Crash, DedupeInv
  <1>13. ASSUME NEW w \in Workers, Stop(w) \/ Start(w) PROVE DedupeInv'
    <2>1. ClaimsConsistent'
      BY <1>13, ClaimsReleased DEF Stop, Start, InClaim, TypeOK
    <2> QED
      BY <1>13, <2>1, <1>a, <1>b DEF Stop, Start, DedupeInv
  <1>14. ASSUME UNCHANGED vars PROVE DedupeInv'
    BY <1>14, <1>a, <1>b, ClaimsUnchanged DEF DedupeInv
  <1> QED
    BY <1>1, <1>2, <1>3, <1>4, <1>5, <1>6, <1>7, <1>8, <1>9, <1>10, <1>11, <1>12,
       <1>13, <1>14 DEF Next, Progress, Disturbance, ReceiveNothing

LEMMA DedupeAlways == Spec => []DedupeInv
  BY DedupeInit, DedupeStep, PTL DEF Spec

(* However workers crash, stall, restart and race, and however often the   *)
(* queue hands a message out again: each idempotency key alerts once, from *)
(* the delivery that recorded it.                                          *)
THEOREM DedupeSafe == Spec => []NoDuplicateAlerts
  <1>1. DedupeInv => NoDuplicateAlerts
    BY DEF DedupeInv
  <1> QED
    BY DedupeAlways, <1>1, PTL

(* Every message deleted from the queue is on record.                      *)
THEOREM NothingLost == Spec => []NoLostEvent
  <1>1. DedupeInv => NoLostEvent
    BY DEF DedupeInv
  <1> QED
    BY DedupeAlways, <1>1, PTL

-----------------------------------------------------------------------------
(* No delivery of an unrecorded message is forgotten.                       *)

(* A step that hands nothing out keeps the accounts if every receipt a      *)
(* worker lets go of has failed or has its key recorded.                    *)
LEMMA AccountedFrame ==
    ASSUME TypeOK, DeliveriesAccounted, receives' = receives,
           records \subseteq records', failed \subseteq failed', orphaned \subseteq orphaned',
           \A w \in Workers, r \in Receipts :
               r \in batch[w] \/ r = cur[w] =>
                   \/ r \in failed' \cup orphaned'
                   \/ \E x \in Workers : r \in batch'[x] \/ r = cur'[x]
                   \/ \E s \in records' : s.key = KeyOf[r.msg]
    PROVE  DeliveriesAccounted'
  BY DEF DeliveriesAccounted

LEMMA AccountedStep ==
    ASSUME DedupeInv, DeliveriesAccounted, [Next]_vars PROVE DeliveriesAccounted'
  <1>0. TypeOK
    BY DEF DedupeInv
  <1> USE <1>0 DEF vars, queueVars, jobVars, dbVars, logVars
  <1>1. ASSUME NEW m \in Messages, Arrive(m) \/ VisibilityExpires(m) \/ Redrive(m)
        PROVE  DeliveriesAccounted'
    BY <1>1 DEF Arrive, VisibilityExpires, Redrive, DeliveriesAccounted
  <1>2. ASSUME NEW w \in Workers, NEW S \in SUBSET Messages, Receive(w, S) \/ ReceiveLost(w, S)
        PROVE  DeliveriesAccounted'
    <2>1. \A r \in Receipts :
             r.n <= receives'[r.msg] => r.n <= receives[r.msg] \/ r \in ReceiptsOf(S)
      BY <1>2 DEF Receive, ReceiveLost, HandOut, ReceiptsOf, Receipts, TypeOK
    <2>2. batch[w] = {}
      BY <1>2 DEF Receive, ReceiveLost, Polling
    <2>3. CASE Receive(w, S)
      <3>1. batch'[w] = ReceiptsOf(S) /\ \A x \in Workers \ {w} : batch'[x] = batch[x]
        BY <2>3 DEF Receive, TypeOK
      <3>2. \A m \in Messages : receives'[m] \in Nat /\ receives[m] \in Nat
        BY <2>3 DEF Receive, HandOut, TypeOK
      <3> QED
        BY <2>1, <2>2, <2>3, <3>1, <3>2 DEF Receive, DeliveriesAccounted, Receipts
    <2>4. CASE ReceiveLost(w, S)
      <3>1. \A m \in Messages : receives'[m] \in Nat /\ receives[m] \in Nat
        BY <2>4 DEF ReceiveLost, HandOut, TypeOK
      <3> QED
        BY <2>1, <2>4, <3>1 DEF ReceiveLost, DeliveriesAccounted, Receipts
    <2> QED
      BY <1>2, <2>3, <2>4
  <1>3. ASSUME NEW w \in Workers, Take(w) PROVE DeliveriesAccounted'
    <2>1. cur[w] = NoReceipt
      BY <1>3 DEF Take, Processing, TypeOK
    <2> QED
      BY <1>3, <2>1, AccountedFrame, NoReceiptAssumption DEF Take, TypeOK
  <1>4. ASSUME NEW w \in Workers,
               \/ ClaimFirst(w) \/ ClaimDuplicate(w) \/ Evaluate(w) \/ Send(w)
               \/ EnqueueInvestigation(w) \/ Start(w)
        PROVE  DeliveriesAccounted'
    BY <1>4, AccountedFrame
    DEF ClaimFirst, ClaimDuplicate, Evaluate, Send, EnqueueInvestigation, Start
  <1>5. ASSUME NEW w \in Workers, Commit(w) PROVE DeliveriesAccounted'
    BY <1>5, AccountedFrame DEF Commit, WriteAll
  <1>6. ASSUME NEW w \in Workers, CommitUnconfirmed(w) PROVE DeliveriesAccounted'
    BY <1>6, AccountedFrame, CloseSessionType DEF CommitUnconfirmed, WriteAll
  <1>7. ASSUME NEW w \in Workers, Delete(w) PROVE DeliveriesAccounted'
    <2>1. \E s \in records : s.key = KeyOf[cur[w].msg]
      BY <1>7 DEF Delete, DedupeInv, ClaimsConsistent, Recorded
    <2> QED
      BY <1>7, <2>1, AccountedFrame, CloseSessionType DEF Delete
  <1>8. ASSUME NEW w \in Workers, Fail(w) \/ Reject(w) PROVE DeliveriesAccounted'
    BY <1>8, AccountedFrame, CloseSessionType DEF Fail, Reject
  <1>9. ASSUME NEW w \in Workers, Crash(w) PROVE DeliveriesAccounted'
    <2>1. \A r \in Receipts : r \in batch[w] \/ r = cur[w] => r \in orphaned'
      BY <1>9 DEF Crash, TypeOK
    <2> QED
      BY <1>9, <2>1, AccountedFrame, CloseSessionType DEF Crash, TypeOK
  <1>10. ASSUME NEW w \in Workers, Stop(w) PROVE DeliveriesAccounted'
    BY <1>10, AccountedFrame DEF Stop
  <1>11. ASSUME UNCHANGED vars PROVE DeliveriesAccounted'
    BY <1>11 DEF DeliveriesAccounted
  <1> QED
    BY <1>1, <1>2, <1>3, <1>4, <1>5, <1>6, <1>7, <1>8, <1>9, <1>10, <1>11
    DEF Next, Progress, Disturbance, ReceiveNothing

(* Of a message whose key is not recorded, every delivery is in a worker's *)
(* hands, ended in an exception or was held by a process that was killed:  *)
(* the dead-letter queue never receives an unrecorded message that a       *)
(* living worker dropped.                                                  *)
THEOREM DeliveriesAlwaysAccounted == Spec => []DeliveriesAccounted
  <1>1. Init => DeliveriesAccounted
    BY DEF Init, DeliveriesAccounted, Receipts
  <1> QED
    BY DedupeInit, DedupeStep, <1>1, AccountedStep, PTL DEF Spec

-----------------------------------------------------------------------------
(* The worker implements IngestOnce.                                        *)

(* A worker only holds messages that were sent.                            *)
HeldWasSent ==
    \A w \in Workers, r \in Receipts :
        r \in batch[w] \/ r = cur[w] => queue[r.msg] # "unsent"

LEMMA HeldWasSentStep ==
    ASSUME TypeOK, HeldWasSent, [Next]_vars PROVE HeldWasSent'
  <1> USE DEF vars, queueVars, jobVars, dbVars, logVars
  <1>1. \A m \in Messages : queue[m] # "unsent" => queue'[m] # "unsent"
    BY DEF Next, Progress, Disturbance, Arrive, VisibilityExpires, Redrive, Receive, ReceiveLost,
           HandOut, ReceiveNothing, Take, ClaimFirst, ClaimDuplicate, Evaluate, Send, Commit,
           CommitUnconfirmed, EnqueueInvestigation, Delete, Fail, Reject, Crash, Stop, Start, TypeOK
  <1>2. ASSUME NEW w \in Workers, NEW r \in Receipts, r \in batch'[w] \/ r = cur'[w]
        PROVE  r \in batch[w] \/ r = cur[w] \/ queue'[r.msg] = "inflight"
    <2>1. ASSUME NEW x \in Workers, NEW S \in SUBSET Messages, Receive(x, S)
          PROVE  r \in batch[w] \/ r = cur[w] \/ queue'[r.msg] = "inflight"
      <3>1. \A p \in ReceiptsOf(S) : queue'[p.msg] = "inflight"
        BY <2>1 DEF Receive, HandOut, ReceiptsOf
      <3> QED
        BY <1>2, <2>1, <3>1 DEF Receive, TypeOK
    <2>2. ASSUME NEW x \in Workers, CloseSession(x) PROVE r = cur'[w] => r = cur[w]
      BY <2>2, CloseSessionType, NoReceiptAssumption
    <2> QED
      BY <1>2, <2>1, <2>2
      DEF Next, Progress, Disturbance, Arrive, VisibilityExpires, Redrive, ReceiveLost,
          ReceiveNothing, Take, ClaimFirst, ClaimDuplicate, Evaluate, Send, Commit,
          CommitUnconfirmed, EnqueueInvestigation, Delete, Fail, Reject, Crash, Stop, Start, TypeOK
  <1> QED
    BY <1>1, <1>2 DEF HeldWasSent, Receipts

onceVars == <<[m \in Messages |-> FateOf(m)], [k \in Keys |-> OutcomeOf(k)]>>

LEMMA OnceInit == Init => Once!Init
  BY DEF Init, Once!Init, FateOf, OutcomeOf

(* A step that writes no record and no alert decides nothing.               *)
LEMMA OutcomeUnchanged ==
    ASSUME records' = records, alerts' = alerts
    PROVE  \A k \in Keys : OutcomeOf(k)' = OutcomeOf(k)
  BY DEF OutcomeOf, CommittedFindings

LEMMA FateUnchanged ==
    ASSUME \A m \in Messages :
               \/ queue'[m] = queue[m]
               \/ {queue[m], queue'[m]} = {"visible", "inflight"}
    PROVE  \A m \in Messages : FateOf(m)' = FateOf(m)
  BY DEF FateOf

(* A commit decides the key of the committing worker's message.             *)
LEMMA CommitDecides ==
    ASSUME DedupeInv, HeldWasSent, NEW w \in Workers, ReadyToCommit(w), WriteAll(w), queue' = queue
    PROVE  \E m \in Messages, v \in Verdicts : Once!Decide(m, v)
  <1>0. cur[w] \in Receipts /\ pc[w] = "deliver" /\ verdict[w] \in Verdicts
    BY DEF DedupeInv, TypeOK, ReadyToCommit, Processing
  <1>1. PICK m \in Messages, v \in Verdicts, k \in Keys :
            m = cur[w].msg /\ v = verdict[w] /\ k = KeyOf[m]
    BY <1>0 DEF Receipts
  <1>2. \A r \in records : r.key # k
    BY <1>0, <1>1 DEF DedupeInv, ClaimsConsistent, InClaim, Recorded
  <1>3. \A a \in alerts : KeyOf[a.msg] # k
    BY <1>2 DEF DedupeInv, NoDuplicateAlerts
  <1>4. \A f \in v : /\ AlertOf(cur[w], f).msg = m
                     /\ AlertOf(cur[w], f).rule = f.rule
                     /\ AlertOf(cur[w], f).severity = f.severity
                     /\ f = [rule |-> f.rule, severity |-> f.severity]
    BY <1>1, VerdictType DEF AlertOf, Findings
  <1>5. OutcomeOf(k) = {}
    BY <1>2 DEF OutcomeOf
  <1>6. OutcomeOf(k)' = {[by |-> m, verdict |-> v]}
    <2>1. {b \in alerts' : KeyOf[b.msg] = k} = {AlertOf(cur[w], f) : f \in v}
      BY <1>1, <1>3, <1>4 DEF WriteAll
    <2>2. CommittedFindings(k)' = {[rule |-> a.rule, severity |-> a.severity] :
                                       a \in {AlertOf(cur[w], f) : f \in v}}
      BY <2>1 DEF CommittedFindings
    <2>3. CommittedFindings(k)' = v
      BY <2>2, <1>4
    <2>4. {s \in records' : s.key = k} = {[key |-> k, msg |-> m]}
      BY <1>1, <1>2 DEF WriteAll
    <2>5. OutcomeOf(k)' = {[by |-> r.msg, verdict |-> CommittedFindings(k)'] :
                               r \in {[key |-> k, msg |-> m]}}
      BY <2>4 DEF OutcomeOf
    <2> QED
      BY <2>3, <2>5
  <1>7. \A j \in Keys \ {k} : OutcomeOf(j)' = OutcomeOf(j)
    <2> SUFFICES ASSUME NEW j \in Keys \ {k} PROVE OutcomeOf(j)' = OutcomeOf(j)
      OBVIOUS
    <2>1. {s \in records' : s.key = j} = {s \in records : s.key = j}
      BY <1>1 DEF WriteAll
    <2>2. {b \in alerts' : KeyOf[b.msg] = j} = {b \in alerts : KeyOf[b.msg] = j}
      BY <1>1, <1>4 DEF WriteAll
    <2> QED
      BY <2>1, <2>2 DEF OutcomeOf, CommittedFindings
  <1>8. FateOf(m) # "unsent" /\ \A n \in Messages : FateOf(n)' = FateOf(n)
    BY <1>0, <1>1, FateUnchanged DEF HeldWasSent, FateOf
  <1>9. [j \in Keys |-> OutcomeOf(j)'] =
            [[j \in Keys |-> OutcomeOf(j)] EXCEPT ![KeyOf[m]] = {[by |-> m, verdict |-> v]}]
    BY <1>1, <1>6, <1>7
  <1>10. Once!Decide(m, v)
    BY <1>1, <1>5, <1>8, <1>9 DEF Once!Decide
  <1> QED
    BY <1>1, <1>10

LEMMA OnceStep ==
    ASSUME DedupeInv, HeldWasSent, [Next]_vars PROVE [Once!Next]_onceVars
  <1>0. TypeOK
    BY DEF DedupeInv
  <1> USE <1>0 DEF vars, queueVars, jobVars, dbVars, logVars
  <1>1. ASSUME NEW m \in Messages, Arrive(m) PROVE Once!Accept(m)
    BY <1>1, OutcomeUnchanged DEF Arrive, Once!Accept, FateOf, TypeOK
  <1>2. ASSUME NEW m \in Messages, Redrive(m) PROVE Once!PutAside(m)
    BY <1>2, OutcomeUnchanged DEF Redrive, Once!PutAside, FateOf, TypeOK
  <1>3. ASSUME NEW w \in Workers, Commit(w) \/ CommitUnconfirmed(w) PROVE Once!Next
    BY <1>3, CommitDecides DEF Commit, CommitUnconfirmed, Once!Next
  <1>4. ASSUME NEW w \in Workers, Delete(w) PROVE [Once!Next]_onceVars
    <2>1. PICK m \in Messages : m = cur[w].msg
      BY <1>4 DEF Delete, Processing, Receipts, TypeOK
    <2>2. \A k \in Keys : OutcomeOf(k)' = OutcomeOf(k)
      BY <1>4, OutcomeUnchanged DEF Delete
    <2>3. OutcomeOf(KeyOf[m]) # {}
      <3>1. \E r \in records : r.key = KeyOf[m]
        BY <1>4, <2>1 DEF Delete, DedupeInv, ClaimsConsistent, Recorded
      <3> QED
        BY <3>1 DEF OutcomeOf
    <2>4. CASE queue' = queue
      BY <2>2, <2>4, FateUnchanged DEF onceVars
    <2>5. CASE queue[m] \in {"visible", "inflight"} /\ queue' = [queue EXCEPT ![m] = "deleted"]
      BY <2>2, <2>3, <2>5 DEF Once!Next, Once!Acknowledge, FateOf, TypeOK
    <2> QED
      BY <1>4, <2>1, <2>4, <2>5 DEF Delete
  <1>5. ASSUME records' = records, alerts' = alerts,
               \A m \in Messages : \/ queue'[m] = queue[m]
                                   \/ {queue[m], queue'[m]} = {"visible", "inflight"}
        PROVE  UNCHANGED onceVars
    BY <1>5, OutcomeUnchanged, FateUnchanged DEF onceVars
  <1>6. ASSUME NEW m \in Messages, VisibilityExpires(m) PROVE UNCHANGED onceVars
    BY <1>5, <1>6 DEF VisibilityExpires, TypeOK
  <1>7. ASSUME NEW w \in Workers, NEW S \in SUBSET Messages, Receive(w, S) \/ ReceiveLost(w, S)
        PROVE  UNCHANGED onceVars
    BY <1>5, <1>7 DEF Receive, ReceiveLost, HandOut, Receivable, TypeOK
  <1>8. ASSUME NEW w \in Workers,
               \/ ReceiveNothing(w) \/ Take(w) \/ ClaimFirst(w) \/ ClaimDuplicate(w)
               \/ Evaluate(w) \/ Send(w) \/ EnqueueInvestigation(w) \/ Fail(w) \/ Reject(w)
               \/ Crash(w) \/ Stop(w) \/ Start(w)
        PROVE  UNCHANGED onceVars
    BY <1>5, <1>8 DEF ReceiveNothing, Take, ClaimFirst, ClaimDuplicate, Evaluate, Send,
                      EnqueueInvestigation, Fail, Reject, Crash, Stop, Start
  <1>9. CASE UNCHANGED vars
    BY <1>5, <1>9
  <1> QED
    BY <1>1, <1>2, <1>3, <1>4, <1>6, <1>7, <1>8, <1>9
    DEF Next, Progress, Disturbance, Once!Next

(* Every behaviour of the worker is one of IngestOnce: per key one verdict *)
(* is decided, once and for good, by the transaction of one message; a     *)
(* message is acknowledged only after that.                                *)
THEOREM WorkerImplementsIngestOnce == Spec => ImplementsIngestOnce
  <1>1. Init => HeldWasSent
    BY DEF Init, HeldWasSent, Receipts
  <1>2. DedupeInv /\ HeldWasSent /\ [Next]_vars => HeldWasSent'
    BY HeldWasSentStep DEF DedupeInv
  <1>3. DedupeInv /\ HeldWasSent /\ [Next]_vars => [Once!Next]_onceVars
    BY OnceStep
  <1> QED
    BY DedupeInit, DedupeStep, OnceInit, <1>1, <1>2, <1>3, PTL
    DEF Spec, ImplementsIngestOnce, Once!Spec, onceVars

-----------------------------------------------------------------------------
(* What an open transaction has sent so far, and what it leaves behind.     *)

(* The receipt r was judged v: sent holds one row for each delivery that   *)
(* is due and not to be made any more.                                     *)
Drafted(r, v, todo, sent) ==
    /\ todo \subseteq DeliveriesOf(v)
    /\ \A t \in sent : \E f \in v : t.alert = AlertOf(r, f)
    /\ \A t, u \in sent : t.alert = u.alert /\ t.partner = u.partner => t = u
    /\ \A f \in v, p \in Partners :
          (\E t \in sent : t.alert = AlertOf(r, f) /\ t.partner = p)
          <=> p \in PartnersFor(f.severity) /\ [finding |-> f, partner |-> p] \notin todo

Truthful(sent) ==
    \A t \in sent : t.ok => [alert |-> t.alert, partner |-> t.partner] \in pages

(* The strengthening behind the audit.                                     *)
DraftsSound ==
    \A w \in Workers :
        /\ pc[w] = "deliver" => Drafted(cur[w], verdict[w], pending[w], rows[w])
        /\ pc[w] \notin {"deliver", "finish"} => rows[w] = {}
        /\ Truthful(rows[w])

AuditInv == DedupeInv /\ DraftsSound /\ AuditComplete

(* A step that leaves a worker in the middle of its deliveries leaves its  *)
(* transaction alone, and takes no page back.                              *)
LEMMA DraftsFrame ==
    ASSUME DraftsSound, pages \subseteq pages',
           \A w \in Workers :
               \/ /\ pc'[w] = pc[w] /\ cur'[w] = cur[w] /\ verdict'[w] = verdict[w]
                  /\ pending'[w] = pending[w] /\ rows'[w] = rows[w]
               \/ pc'[w] # "deliver" /\ rows'[w] = {}
               \/ pc'[w] = "finish" /\ rows'[w] = rows[w]
    PROVE  DraftsSound'
  <1> SUFFICES ASSUME NEW w \in Workers
               PROVE  /\ pc'[w] = "deliver" => Drafted(cur[w], verdict[w], pending[w], rows[w])'
                      /\ pc'[w] \notin {"deliver", "finish"} => rows'[w] = {}
                      /\ Truthful(rows[w])'
    BY DEF DraftsSound
  <1>1. Truthful(rows[w])'
    BY DEF DraftsSound, Truthful
  <1>2. ASSUME pc'[w] = pc[w], cur'[w] = cur[w], verdict'[w] = verdict[w],
               pending'[w] = pending[w], rows'[w] = rows[w], pc'[w] = "deliver"
        PROVE  Drafted(cur[w], verdict[w], pending[w], rows[w])'
    BY <1>2 DEF DraftsSound, Drafted
  <1> QED
    BY <1>1, <1>2 DEF DraftsSound

LEMMA AuditFrame ==
    ASSUME AuditComplete, alerts' = alerts, attempts' = attempts, pages \subseteq pages'
    PROVE  AuditComplete'
  BY DEF AuditComplete

(* One delivery: its row is new, and so is what it tells.                  *)
LEMMA DraftsSend ==
    ASSUME AuditInv, NEW w \in Workers, Send(w) PROVE DraftsSound' /\ AuditComplete'
  <1>0. TypeOK /\ DraftsSound /\ AuditComplete
    BY DEF AuditInv, DedupeInv
  <1>1. cur[w] \in Receipts /\ verdict[w] \in SUBSET Findings /\ pc[w] = "deliver"
    BY <1>0, VerdictType DEF Send, TypeOK, Processing
  <1>2. PICK d \in pending[w], reached \in BOOLEAN, ok \in BOOLEAN :
           LET a == AlertOf(cur[w], d.finding) IN
           /\ ok => reached
           /\ pending' = [pending EXCEPT ![w] = @ \ {d}]
           /\ rows' = [rows EXCEPT ![w] = @ \cup {[alert |-> a, partner |-> d.partner, ok |-> ok]}]
           /\ pages' = IF reached THEN pages \cup {[alert |-> a, partner |-> d.partner]} ELSE pages
    BY DEF Send
  <1> DEFINE a == AlertOf(cur[w], d.finding)
             t == [alert |-> a, partner |-> d.partner, ok |-> ok]
  <1>3. d \in DeliveriesOf(verdict[w]) /\ Drafted(cur[w], verdict[w], pending[w], rows[w])
    BY <1>0, <1>1 DEF DraftsSound, Drafted
  <1>4. d.finding \in verdict[w] /\ d.partner \in Partners /\ d.partner \in PartnersFor(d.finding.severity)
        /\ d = [finding |-> d.finding, partner |-> d.partner]
    BY <1>3 DEF DeliveriesOf, Deliveries
  <1>5. \A f, g \in verdict[w] : AlertOf(cur[w], f) = AlertOf(cur[w], g) => f = g
    BY <1>1 DEF AlertOf, Findings
  <1>6. pages \subseteq pages' /\ (ok => [alert |-> a, partner |-> d.partner] \in pages')
    BY <1>2
  <1>7. /\ pending'[w] = pending[w] \ {d} /\ rows'[w] = rows[w] \cup {t}
        /\ \A x \in Workers \ {w} : pending'[x] = pending[x] /\ rows'[x] = rows[x]
    BY <1>0, <1>2 DEF TypeOK
  <1>8. t.alert = a /\ t.partner = d.partner /\ t.ok = ok
    OBVIOUS
  <1> HIDE DEF t
  <1>9. Drafted(cur[w], verdict[w], pending'[w], rows'[w])
    <2>1. \A u \in rows[w] : ~(u.alert = a /\ u.partner = d.partner)
      BY <1>3, <1>4 DEF Drafted
    <2>2. ASSUME NEW f \in verdict[w], NEW p \in Partners
          PROVE  (\E u \in rows'[w] : u.alert = AlertOf(cur[w], f) /\ u.partner = p)
                 <=> p \in PartnersFor(f.severity) /\ [finding |-> f, partner |-> p] \notin pending'[w]
      <3>1. CASE f = d.finding /\ p = d.partner
        BY <1>4, <1>7, <1>8, <3>1
      <3>2. CASE ~(f = d.finding /\ p = d.partner)
        <4>1. [finding |-> f, partner |-> p] # d
          BY <3>2
        <4>2. ~(t.alert = AlertOf(cur[w], f) /\ t.partner = p)
          BY <1>4, <1>5, <1>8, <3>2
        <4> QED BY <1>3, <1>7, <4>1, <4>2 DEF Drafted
      <3> QED BY <3>1, <3>2
    <2>3. \A u \in rows'[w] : \E f \in verdict[w] : u.alert = AlertOf(cur[w], f)
      BY <1>3, <1>4, <1>7, <1>8 DEF Drafted
    <2>4. \A u, v \in rows'[w] : u.alert = v.alert /\ u.partner = v.partner => u = v
      BY <1>3, <1>7, <1>8, <2>1 DEF Drafted
    <2> QED BY <1>3, <1>7, <2>2, <2>3, <2>4 DEF Drafted
  <1>10. Truthful(rows[w])'
    BY <1>0, <1>6, <1>7, <1>8 DEF DraftsSound, Truthful
  <1>11. pc' = pc /\ cur' = cur /\ verdict' = verdict /\ alerts' = alerts /\ attempts' = attempts
    BY DEF Send, dbVars
  <1>12. DraftsSound'
    <2>1. ASSUME NEW x \in Workers \ {w}, pc'[x] = "deliver"
          PROVE  Drafted(cur[x], verdict[x], pending[x], rows[x])'
      BY <1>0, <1>7, <1>11, <2>1 DEF DraftsSound, Drafted
    <2>2. \A x \in Workers \ {w} : Truthful(rows[x])'
      BY <1>0, <1>6, <1>7 DEF DraftsSound, Truthful
    <2>3. Drafted(cur[w], verdict[w], pending[w], rows[w])'
      BY <1>9, <1>11 DEF Drafted
    <2> QED BY <1>0, <1>1, <1>7, <1>10, <1>11, <2>1, <2>2, <2>3 DEF DraftsSound
  <1> QED BY <1>0, <1>6, <1>11, <1>12, AuditFrame

(* A commit: the rows of its transaction are those of its alerts.          *)
LEMMA AuditWritten ==
    ASSUME AuditInv, NEW w \in Workers, ReadyToCommit(w), WriteAll(w), pages' = pages
    PROVE  AuditComplete'
  <1>0. TypeOK /\ DraftsSound /\ AuditComplete
    BY DEF AuditInv, DedupeInv
  <1>1. /\ cur[w] \in Receipts /\ verdict[w] \in SUBSET Findings /\ rows[w] \in SUBSET Attempts
        /\ Drafted(cur[w], verdict[w], {}, rows[w]) /\ Truthful(rows[w])
    BY <1>0, VerdictType DEF ReadyToCommit, TypeOK, Processing, DraftsSound
  <1>2. ~Recorded(KeyOf[cur[w].msg])
    BY DEF ReadyToCommit, AuditInv, DedupeInv, ClaimsConsistent, InClaim
  <1>3. \A a \in alerts : KeyOf[a.msg] # KeyOf[cur[w].msg]
    BY <1>2 DEF AuditInv, DedupeInv, NoDuplicateAlerts, Recorded
  <1>4. \A f \in verdict[w] : AlertOf(cur[w], f) \notin alerts
                              /\ AlertOf(cur[w], f).severity = f.severity
    BY <1>1, <1>3 DEF AlertOf
  <1>5. /\ attempts' = attempts \cup rows[w]
        /\ \A a \in alerts' : a \in alerts \/ \E f \in verdict[w] : a = AlertOf(cur[w], f)
        /\ \A f \in verdict[w] : AlertOf(cur[w], f) \in alerts'
        /\ alerts \subseteq alerts'
    BY DEF WriteAll
  <1>6. \A t \in attempts : t.alert \in alerts
    BY <1>0 DEF AuditComplete
  <1>7. \A t \in rows[w] : t.alert \notin alerts /\ t.alert \in alerts'
    BY <1>1, <1>4, <1>5 DEF Drafted
  <1>8. \A t \in attempts' : /\ t.alert \in alerts'
                             /\ t.ok => [alert |-> t.alert, partner |-> t.partner] \in pages'
    BY <1>0, <1>1, <1>5, <1>7 DEF AuditComplete, Truthful
  <1>9. \A t, u \in attempts' : t.alert = u.alert /\ t.partner = u.partner => t = u
    BY <1>0, <1>1, <1>5, <1>6, <1>7 DEF AuditComplete, Drafted
  <1>10. ASSUME NEW a \in alerts', NEW p \in Partners
         PROVE  (\E t \in attempts' : t.alert = a /\ t.partner = p)
                <=> (p = "slack" \/ a.severity = "critical")
    <2>1. CASE a \in alerts
      BY <1>0, <1>5, <1>7, <2>1 DEF AuditComplete
    <2>2. ASSUME NEW f \in verdict[w], a = AlertOf(cur[w], f)
          PROVE  (\E t \in attempts' : t.alert = a /\ t.partner = p)
                 <=> (p = "slack" \/ a.severity = "critical")
      <3>1. (\E t \in attempts' : t.alert = a /\ t.partner = p)
            <=> \E t \in rows[w] : t.alert = a /\ t.partner = p
        BY <1>4, <1>5, <1>6, <2>2
      <3>2. (\E t \in rows[w] : t.alert = a /\ t.partner = p) <=> p \in PartnersFor(f.severity)
        BY <1>1, <2>2 DEF Drafted
      <3> QED BY <1>4, <2>2, <3>1, <3>2 DEF PartnersFor
    <2> QED BY <1>5, <2>1, <2>2
  <1> QED BY <1>8, <1>9, <1>10 DEF AuditComplete

LEMMA AuditStep == AuditInv /\ [Next]_vars => AuditInv'
  <1> SUFFICES ASSUME AuditInv, [Next]_vars PROVE DraftsSound' /\ AuditComplete'
    BY DedupeStep DEF AuditInv
  <1>0. TypeOK /\ DraftsSound /\ AuditComplete
    BY DEF AuditInv, DedupeInv
  <1> USE <1>0 DEF vars, queueVars, jobVars, dbVars, logVars
  <1>1. ASSUME NEW w \in Workers, CloseSession(w)
        PROVE  rows'[w] = {} /\ \A x \in Workers \ {w} :
                   /\ cur'[x] = cur[x] /\ verdict'[x] = verdict[x]
                   /\ pending'[x] = pending[x] /\ rows'[x] = rows[x]
    BY <1>1 DEF CloseSession, TypeOK
  <1>2. ASSUME NEW w \in Workers, Evaluate(w) PROVE DraftsSound' /\ AuditComplete'
    <2>1. PICK v \in Verdicts : /\ verdict' = [verdict EXCEPT ![w] = v]
                                /\ pending' = [pending EXCEPT ![w] = DeliveriesOf(v)]
      BY <1>2 DEF Evaluate
    <2>2. rows[w] = {} /\ v \in SUBSET Findings
      BY <1>2, VerdictType DEF Evaluate, DraftsSound
    <2>3. \A f \in v : \A p \in PartnersFor(f.severity) : [finding |-> f, partner |-> p] \in DeliveriesOf(v)
      BY <2>2 DEF DeliveriesOf, Deliveries, PartnersFor
    <2>4. Drafted(cur[w], v, DeliveriesOf(v), {})
      BY <2>3 DEF Drafted
    <2>5. /\ verdict'[w] = v /\ pending'[w] = DeliveriesOf(v)
          /\ \A x \in Workers \ {w} : verdict'[x] = verdict[x] /\ pending'[x] = pending[x] /\ pc'[x] = pc[x]
          /\ pc'[w] = "deliver" /\ rows' = rows /\ cur' = cur /\ pages' = pages
          /\ alerts' = alerts /\ attempts' = attempts
      BY <1>2, <2>1 DEF Evaluate, TypeOK
    <2>6. ASSUME NEW x \in Workers, pc'[x] = "deliver"
          PROVE  Drafted(cur[x], verdict[x], pending[x], rows[x])'
      BY <2>2, <2>4, <2>5, <2>6 DEF DraftsSound, Drafted
    <2>7. \A x \in Workers : Truthful(rows[x])'
      BY <2>5 DEF DraftsSound, Truthful
    <2> QED BY <2>5, <2>6, <2>7, AuditFrame DEF DraftsSound
  <1>3. ASSUME NEW w \in Workers, Send(w) PROVE DraftsSound' /\ AuditComplete'
    BY <1>3, DraftsSend
  <1>4. ASSUME NEW w \in Workers, Commit(w) PROVE DraftsSound' /\ AuditComplete'
    BY <1>4, DraftsFrame, AuditWritten DEF Commit, TypeOK
  <1>5. ASSUME NEW w \in Workers, CommitUnconfirmed(w) PROVE DraftsSound' /\ AuditComplete'
    BY <1>1, <1>5, DraftsFrame, AuditWritten DEF CommitUnconfirmed, TypeOK
  <1>6. ASSUME NEW w \in Workers, Delete(w) \/ Fail(w) \/ Reject(w) \/ Crash(w)
        PROVE  DraftsSound' /\ AuditComplete'
    BY <1>1, <1>6, DraftsFrame, AuditFrame DEF Delete, Fail, Reject, Crash, TypeOK
  <1>7. ASSUME NEW w \in Workers, Take(w) PROVE DraftsSound' /\ AuditComplete'
    BY <1>7, DraftsFrame, AuditFrame DEF Take, TypeOK, DraftsSound
  <1>8. ASSUME NEW w \in Workers, ClaimFirst(w) \/ ClaimDuplicate(w) \/ Stop(w) \/ Start(w)
        PROVE  DraftsSound' /\ AuditComplete'
    BY <1>8, DraftsFrame, AuditFrame DEF ClaimFirst, ClaimDuplicate, Stop, Start, Polling, TypeOK,
                                         DraftsSound
  <1>9. ASSUME UNCHANGED <<pc, cur, verdict, pending, rows, alerts, attempts, pages>>
        PROVE  DraftsSound' /\ AuditComplete'
    BY <1>9, DraftsFrame, AuditFrame
  <1>10. ASSUME NEW w \in Workers, NEW S \in SUBSET Messages, Receive(w, S) \/ ReceiveLost(w, S)
         PROVE  DraftsSound' /\ AuditComplete'
    BY <1>9, <1>10 DEF Receive, ReceiveLost
  <1>11. ASSUME NEW w \in Workers, ReceiveNothing(w) \/ EnqueueInvestigation(w)
         PROVE  DraftsSound' /\ AuditComplete'
    BY <1>9, <1>11 DEF ReceiveNothing, EnqueueInvestigation
  <1>12. ASSUME NEW m \in Messages, Arrive(m) \/ VisibilityExpires(m) \/ Redrive(m)
         PROVE  DraftsSound' /\ AuditComplete'
    BY <1>9, <1>12 DEF Arrive, VisibilityExpires, Redrive
  <1>13. CASE UNCHANGED vars
    BY <1>9, <1>13
  <1> QED
    BY <1>2, <1>3, <1>4, <1>5, <1>6, <1>7, <1>8, <1>10, <1>11, <1>12, <1>13
    DEF Next, Progress, Disturbance

LEMMA AuditAlways == Spec => []AuditInv
  <1>1. Init => DraftsSound /\ AuditComplete
    BY DEF Init, DraftsSound, AuditComplete, Truthful
  <1> QED BY DedupeInit, <1>1, AuditStep, PTL DEF Spec, AuditInv

(* Whatever is rolled back, redelivered or lost: the committed delivery    *)
(* attempts are exactly one per committed alert and partner it concerns,   *)
(* and one that is recorded as a success did reach the partner.            *)
THEOREM AuditSound == Spec => []AuditComplete
  <1>1. AuditInv => AuditComplete
    BY DEF AuditInv
  <1> QED BY <1>1, AuditAlways, PTL

(* No step pages a partner for a key that is recorded, or adds alerts or   *)
(* attempts to it.                                                         *)
THEOREM RecordedStaysFinal == Spec => RecordedIsFinal
  <1>1. ASSUME AuditInv, [Next]_vars PROVE RecordedIsFinalStep
    <2> USE DEF vars, queueVars, jobVars, dbVars, logVars
    <2>1. ASSUME NEW w \in Workers, pc[w] = "deliver"
          PROVE  ~Recorded(KeyOf[cur[w].msg]) /\ \A t \in rows[w] : t.alert.msg = cur[w].msg
      <3>1. ~Recorded(KeyOf[cur[w].msg])
        BY <1>1, <2>1 DEF AuditInv, DedupeInv, ClaimsConsistent, InClaim
      <3>2. Drafted(cur[w], verdict[w], pending[w], rows[w])
        BY <1>1, <2>1 DEF AuditInv, DraftsSound
      <3>3. \A t \in rows[w] : t.alert.msg = cur[w].msg
        <4>1. ASSUME NEW t \in rows[w] PROVE t.alert.msg = cur[w].msg
          <5>1. PICK f \in verdict[w] : t.alert = AlertOf(cur[w], f)
            BY <3>2 DEF Drafted
          <5> QED BY <5>1 DEF AlertOf
        <4> QED BY <4>1
      <3> QED BY <3>1, <3>3
    <2>2. ASSUME NEW w \in Workers, Send(w) PROVE RecordedIsFinalStep
      <3>1. \A p \in pages' \ pages : p.alert.msg = cur[w].msg
        BY <2>2 DEF Send, AlertOf
      <3> QED BY <2>1, <2>2, <3>1 DEF Send, RecordedIsFinalStep, Recorded
    <2>3. ASSUME NEW w \in Workers, Commit(w) \/ CommitUnconfirmed(w) PROVE RecordedIsFinalStep
      <3>1. pc[w] = "deliver" /\ WriteAll(w) /\ pages' = pages
        BY <2>3 DEF Commit, CommitUnconfirmed, ReadyToCommit
      <3>2. \A a \in alerts' \ alerts : a.msg = cur[w].msg
        BY <3>1 DEF WriteAll, AlertOf
      <3>3. \A t \in attempts' \ attempts : t.alert.msg = cur[w].msg
        BY <2>1, <3>1 DEF WriteAll
      <3> QED BY <2>1, <3>1, <3>2, <3>3 DEF RecordedIsFinalStep, Recorded, WriteAll
    <2>4. ASSUME UNCHANGED <<pages, alerts, attempts, records>> PROVE RecordedIsFinalStep
      BY <2>4 DEF RecordedIsFinalStep, Recorded
    <2> QED
      BY <1>1, <2>2, <2>3, <2>4
      DEF Next, Progress, Disturbance, Arrive, VisibilityExpires, Redrive, Receive, ReceiveLost,
          ReceiveNothing, Take, ClaimFirst, ClaimDuplicate, Evaluate, EnqueueInvestigation, Delete,
          Fail, Reject, Crash, Stop, Start
  <1> QED BY <1>1, AuditAlways, PTL DEF Spec, RecordedIsFinal

-----------------------------------------------------------------------------
(* The investigations that are owed.                                        *)

(* What a worker still has to publish is committed and critical.           *)
OutboxSound ==
    \A w \in Workers :
        /\ pc[w] # "finish" => outbox[w] = {}
        /\ \A f \in outbox[w] : AlertOf(cur[w], f) \in alerts /\ f.severity = "critical"

OwedInv == TypeOK /\ OutboxSound /\ InvestigationsAccounted

(* A step that leaves the outboxes alone, or empties one of a delivery     *)
(* that failed, was held by a killed process or had nothing to publish.    *)
LEMMA OwedFrame ==
    ASSUME OwedInv, NEW w \in Workers,
           alerts \subseteq alerts', investigations' = investigations,
           failed \subseteq failed', orphaned \subseteq orphaned', unpublished' = unpublished,
           \A x \in Workers \ {w} : pc'[x] = pc[x] /\ cur'[x] = cur[x] /\ outbox'[x] = outbox[x],
           outbox'[w] = {},
           outbox[w] = {} \/ cur[w] \in failed' \cup orphaned',
           Investigate => \A a \in alerts' \ alerts :
                              a.severity = "critical" => [msg |-> a.msg, n |-> a.n] \in failed'
    PROVE  OutboxSound' /\ InvestigationsAccounted'
  <1>1. OutboxSound'
    BY DEF OwedInv, OutboxSound
  <1>2. ASSUME NEW a \in alerts, NEW x \in Workers, Investigate,
               cur[x] = [msg |-> a.msg, n |-> a.n],
               [rule |-> a.rule, severity |-> a.severity] \in outbox[x]
        PROVE  \/ [msg |-> a.msg, n |-> a.n] \in failed' \cup orphaned'
               \/ x # w
    BY <1>2
  <1> QED BY <1>1, <1>2 DEF OwedInv, InvestigationsAccounted

LEMMA OwedStep == OwedInv /\ [Next]_vars => OwedInv'
  <1> SUFFICES ASSUME OwedInv, [Next]_vars PROVE OutboxSound' /\ InvestigationsAccounted'
    BY TypeStep DEF OwedInv
  <1>0. TypeOK /\ OutboxSound /\ InvestigationsAccounted
    BY DEF OwedInv
  <1> USE DEF vars, queueVars, jobVars, dbVars, logVars
  <1>1. ASSUME NEW w \in Workers, CloseSession(w)
        PROVE  /\ outbox'[w] = {}
               /\ \A x \in Workers \ {w} : cur'[x] = cur[x] /\ outbox'[x] = outbox[x]
    BY <1>0, <1>1 DEF CloseSession, TypeOK
  <1>2. ASSUME NEW w \in Workers, Commit(w) PROVE OutboxSound' /\ InvestigationsAccounted'
    <2>1. cur[w] \in Receipts /\ verdict[w] \in SUBSET Findings /\ outbox[w] = {}
      BY <1>0, <1>2, VerdictType DEF Commit, ReadyToCommit, TypeOK, Processing, OutboxSound
    <2>2. /\ outbox'[w] = CriticalOf(verdict[w]) /\ pc'[w] = "finish" /\ cur' = cur
          /\ \A x \in Workers \ {w} : outbox'[x] = outbox[x] /\ pc'[x] = pc[x]
          /\ UNCHANGED <<investigations, failed, orphaned, unpublished>>
      BY <1>0, <1>2 DEF Commit, TypeOK
    <2>3. /\ alerts \subseteq alerts'
          /\ \A f \in verdict[w] : AlertOf(cur[w], f) \in alerts'
          /\ \A a \in alerts' \ alerts : \E f \in verdict[w] : a = AlertOf(cur[w], f)
      BY <1>2 DEF Commit, WriteAll
    <2>4. OutboxSound'
      BY <1>0, <2>2, <2>3 DEF OutboxSound, CriticalOf
    <2>5. ASSUME NEW a \in alerts' \ alerts, a.severity = "critical", Investigate
          PROVE  cur'[w] = [msg |-> a.msg, n |-> a.n]
                 /\ [rule |-> a.rule, severity |-> a.severity] \in outbox'[w]
      <3>1. PICK f \in verdict[w] : a = AlertOf(cur[w], f)
        BY <2>3
      <3>2. f = [rule |-> a.rule, severity |-> a.severity] /\ cur[w] = [msg |-> a.msg, n |-> a.n]
        BY <2>1, <3>1 DEF AlertOf, Findings, Receipts
      <3> QED BY <2>2, <2>5, <3>2 DEF CriticalOf
    <2>6. ASSUME NEW a \in alerts, NEW x \in Workers,
                 [rule |-> a.rule, severity |-> a.severity] \in outbox[x]
          PROVE  outbox'[x] = outbox[x]
      BY <2>1, <2>2, <2>6
    <2> QED BY <1>0, <2>2, <2>3, <2>4, <2>5, <2>6 DEF InvestigationsAccounted
  <1>3. ASSUME NEW w \in Workers, CommitUnconfirmed(w)
        PROVE  OutboxSound' /\ InvestigationsAccounted'
    <2>1. cur[w] \in Receipts /\ verdict[w] \in SUBSET Findings /\ outbox[w] = {}
      BY <1>0, <1>3, VerdictType DEF CommitUnconfirmed, ReadyToCommit, TypeOK, Processing, OutboxSound
    <2>2. alerts \subseteq alerts' /\ \A a \in alerts' \ alerts : [msg |-> a.msg, n |-> a.n] = cur[w]
      BY <1>3, <2>1 DEF CommitUnconfirmed, WriteAll, AlertOf, Receipts
    <2> QED BY <1>0, <1>1, <1>3, <2>1, <2>2, OwedFrame DEF CommitUnconfirmed, TypeOK
  <1>4. ASSUME NEW w \in Workers, EnqueueInvestigation(w)
        PROVE  OutboxSound' /\ InvestigationsAccounted'
    <2>1. PICK f \in outbox[w] :
             /\ outbox' = [outbox EXCEPT ![w] = @ \ {f}]
             /\ \/ investigations' = investigations \cup {AlertOf(cur[w], f)} /\ UNCHANGED unpublished
                \/ investigations' = investigations
                   /\ unpublished' = unpublished \cup {AlertOf(cur[w], f)}
      BY <1>4 DEF EnqueueInvestigation
    <2>2. /\ outbox'[w] = outbox[w] \ {f} /\ \A x \in Workers \ {w} : outbox'[x] = outbox[x]
          /\ UNCHANGED <<pc, cur, alerts, failed, orphaned>>
      BY <1>0, <1>4, <2>1 DEF EnqueueInvestigation, TypeOK
    <2>3. AlertOf(cur[w], f) \in alerts /\ AlertOf(cur[w], f).severity = "critical"
      BY <1>0 DEF OutboxSound, AlertOf
    <2>4. ASSUME NEW a \in alerts, cur[w] = [msg |-> a.msg, n |-> a.n],
                 f = [rule |-> a.rule, severity |-> a.severity]
          PROVE  a = AlertOf(cur[w], f)
      <3>1. a \in Alerts
        BY <1>0 DEF TypeOK
      <3> QED BY <2>4, <3>1 DEF AlertOf, Alerts
    <2>5. OutboxSound'
      BY <1>0, <2>2 DEF OutboxSound
    <2>6. investigations' \subseteq {a \in alerts' : a.severity = "critical"}
      BY <1>0, <2>1, <2>2, <2>3 DEF InvestigationsAccounted
    <2>7. /\ investigations \subseteq investigations' /\ unpublished \subseteq unpublished'
          /\ AlertOf(cur[w], f) \in investigations' \cup unpublished'
      BY <2>1
    <2>8. ASSUME NEW a \in alerts, NEW x \in Workers, cur[x] = [msg |-> a.msg, n |-> a.n],
                 [rule |-> a.rule, severity |-> a.severity] \in outbox[x]
          PROVE  \/ a \in investigations' \cup unpublished'
                 \/ [rule |-> a.rule, severity |-> a.severity] \in outbox'[x]
      BY <2>2, <2>4, <2>7, <2>8
    <2> QED BY <1>0, <2>2, <2>5, <2>6, <2>7, <2>8 DEF InvestigationsAccounted
  <1>5. ASSUME NEW w \in Workers, Delete(w) \/ Fail(w) \/ Reject(w)
        PROVE  OutboxSound' /\ InvestigationsAccounted'
    BY <1>0, <1>1, <1>5, OwedFrame DEF Delete, Fail, Reject, TypeOK
  <1>6. ASSUME NEW w \in Workers, Crash(w) PROVE OutboxSound' /\ InvestigationsAccounted'
    <2>1. outbox[w] = {} \/ cur[w] \in orphaned'
      BY <1>0, <1>6 DEF Crash, OutboxSound, Processing
    <2> QED BY <1>0, <1>1, <1>6, <2>1, OwedFrame DEF Crash, TypeOK
  <1>7. ASSUME NEW w \in Workers,
               \/ Take(w) \/ ClaimFirst(w) \/ ClaimDuplicate(w) \/ Evaluate(w) \/ Send(w)
               \/ Stop(w) \/ Start(w)
        PROVE  OutboxSound' /\ InvestigationsAccounted'
    <2>1. outbox[w] = {}
      BY <1>0, <1>7 DEF OutboxSound, Take, ClaimFirst, ClaimDuplicate, Evaluate, Send, Stop, Start,
                        Polling
    <2> QED BY <1>0, <1>7, <2>1, OwedFrame
            DEF Take, ClaimFirst, ClaimDuplicate, Evaluate, Send, Stop, Start, TypeOK
  <1>8. ASSUME UNCHANGED <<pc, cur, outbox, alerts, investigations, failed, orphaned,
                          unpublished>>
        PROVE  OutboxSound' /\ InvestigationsAccounted'
    BY <1>0, <1>8 DEF OutboxSound, InvestigationsAccounted
  <1>9. ASSUME NEW w \in Workers, NEW S \in SUBSET Messages, Receive(w, S)
        PROVE  OutboxSound' /\ InvestigationsAccounted'
    BY <1>8, <1>9 DEF Receive
  <1>10. ASSUME NEW w \in Workers, NEW S \in SUBSET Messages, ReceiveLost(w, S)
         PROVE  OutboxSound' /\ InvestigationsAccounted'
    BY <1>0, <1>10 DEF ReceiveLost, OutboxSound, InvestigationsAccounted
  <1>11. ASSUME NEW m \in Messages, Arrive(m) \/ VisibilityExpires(m) \/ Redrive(m)
         PROVE  OutboxSound' /\ InvestigationsAccounted'
    BY <1>8, <1>11 DEF Arrive, VisibilityExpires, Redrive
  <1>12. CASE UNCHANGED vars
    BY <1>8, <1>12
  <1> QED
    BY <1>2, <1>3, <1>4, <1>5, <1>6, <1>7, <1>9, <1>10, <1>11, <1>12
    DEF Next, Progress, Disturbance, ReceiveNothing

(* Only committed critical alerts are published, and one that is never     *)
(* published was logged as a failed publication, was logged as a failed    *)
(* message, or went unlogged with a worker killed before it published it.  *)
THEOREM NoInvestigationForgotten == Spec => []InvestigationsAccounted
  <1>1. Init => OwedInv
    BY TypeInit DEF Init, OwedInv, OutboxSound, InvestigationsAccounted
  <1>2. OwedInv => InvestigationsAccounted
    BY DEF OwedInv
  <1> QED BY <1>1, <1>2, OwedStep, PTL DEF Spec

=============================================================================
