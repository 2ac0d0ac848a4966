------------------------------- MODULE Worker -------------------------------
(***************************************************************************)
(* The evaluation worker (src/apps/worker/worker): competing consumers of  *)
(* the work queue that claim an idempotency key, evaluate the rules, notify *)
(* the partners and commit everything in one database transaction, publish *)
(* the critical alerts for investigation, and only then delete the message.*)
(*                                                                         *)
(* One delivery of a message is a receipt [msg, n]: the n-th time the queue *)
(* handed msg out.  Everything a worker writes carries its receipt, so the *)
(* work of two deliveries of one message is told apart, as the fresh       *)
(* alert.id and partner_request_id of the code tell it apart.              *)
(***************************************************************************)
EXTENDS Integers, FiniteSets

CONSTANTS
    Workers,      \* worker processes polling the same queue
    Messages,     \* queue messages, one per accepted POST (one event_id each)
    Keys,         \* idempotency keys
    KeyOf,        \* the idempotency_key in the body of a message
    Malformed,    \* messages whose body or raw event cannot be loaded
    Rules,        \* positions in ALL_RULES
    Verdicts,     \* what evaluate_all may return: sets of findings
    Partners,     \* partners with a URL configured
    Investigate,  \* whether investigations_queue_url is configured
    MaxReceive,   \* maxReceiveCount of the redrive policy
    MaxBatch,     \* sqs_max_messages
    MaxRestarts,  \* bound on crashes and graceful stops
    NoReceipt     \* cur[w] when worker w is between two messages

Severities == {"warn", "critical"}
Findings == [rule : Rules, severity : Severities]
Receipts == [msg : Messages, n : 1..MaxReceive]
Alerts == [msg : Messages, n : 1..MaxReceive, rule : Rules, severity : Severities]
Deliveries == [finding : Findings, partner : Partners]
Attempts == [alert : Alerts, partner : Partners, ok : BOOLEAN]

ASSUME KeyAssumption == KeyOf \in [Messages -> Keys]
ASSUME PoisonAssumption == Malformed \subseteq Messages
ASSUME RuleAssumption == Rules \subseteq Nat
ASSUME VerdictAssumption ==
    /\ Verdicts \subseteq SUBSET Findings
    /\ \A v \in Verdicts : \A f, g \in v : f.rule = g.rule => f = g
ASSUME PartnerAssumption == Partners \subseteq {"slack", "pagerduty"}
ASSUME InvestigateAssumption == Investigate \in BOOLEAN
ASSUME BoundAssumption == MaxReceive \in Nat \ {0} /\ MaxBatch \in Nat \ {0} /\ MaxRestarts \in Nat
ASSUME NoReceiptAssumption == NoReceipt \notin Receipts

VARIABLES
    queue,      \* where each message is: not sent, visible, in flight, deleted, dead-lettered
    receives,   \* ApproximateReceiveCount of each message
    pc,         \* what each worker is about to do
    batch,      \* receipts of the current poll each worker has not started on
    cur,        \* receipt of the message each worker processes
    verdict,    \* what evaluate_all returned in the open transaction
    pending,    \* deliveries the loop over alerts and clients has still to make
    rows,       \* delivery-attempt rows added to the open transaction
    outbox,     \* critical findings still to be published for investigation
    records,    \* committed inference_records: [key, msg]
    alerts,     \* committed alerts
    attempts,   \* committed partner_delivery_attempts
    pages,      \* what the partners received: [alert, partner]
    investigations, \* alerts published to the investigations queue
    failed,     \* receipts lost to an exception, which run_once or main logs
    orphaned,   \* receipts held by a process that was killed, of which nothing is logged
    unpublished, \* alerts whose publication failed and was only logged
    restarts    \* crashes and graceful stops so far

queueVars == <<queue, receives>>
jobVars == <<cur, verdict, pending, rows, outbox>>
dbVars == <<records, alerts, attempts>>
logVars == <<failed, orphaned, unpublished>>
vars == <<queueVars, pc, batch, jobVars, dbVars, pages, investigations, logVars, restarts>>

Recorded(k) == \E r \in records : r.key = k

(* The workers whose open transaction holds the uncommitted row of key k.  *)
InClaim == {"evaluate", "deliver"}
Holders(k) == {w \in Workers : pc[w] \in InClaim /\ KeyOf[cur[w].msg] = k}

AlertOf(r, f) == [msg |-> r.msg, n |-> r.n, rule |-> f.rule, severity |-> f.severity]

(* Mutant: the severity test of the delivery loop is missing.              *)
AllPartners(severity) == Partners

(* PagerDuty only for critical alerts, Slack for everything.               *)
PartnersFor(severity) == {p \in Partners : p # "pagerduty" \/ severity = "critical"}

DeliveriesOf(v) ==
    {d \in Deliveries : d.finding \in v /\ d.partner \in PartnersFor(d.finding.severity)}

(* The nested loop runs over the alerts in rule order, then over clients.  *)
Precedes(d, e) ==
    \/ d.finding.rule < e.finding.rule
    \/ d.finding.rule = e.finding.rule /\ d.partner = "slack" /\ e.partner = "pagerduty"

CriticalOf(v) == IF Investigate THEN {f \in v : f.severity = "critical"} ELSE {}

Init ==
    /\ queue = [m \in Messages |-> "unsent"]
    /\ receives = [m \in Messages |-> 0]
    /\ pc = [w \in Workers |-> "poll"]
    /\ batch = [w \in Workers |-> {}]
    /\ cur = [w \in Workers |-> NoReceipt]
    /\ verdict = [w \in Workers |-> {}]
    /\ pending = [w \in Workers |-> {}]
    /\ rows = [w \in Workers |-> {}]
    /\ outbox = [w \in Workers |-> {}]
    /\ records = {}
    /\ alerts = {}
    /\ attempts = {}
    /\ pages = {}
    /\ investigations = {}
    /\ failed = {}
    /\ orphaned = {}
    /\ unpublished = {}
    /\ restarts = 0

-----------------------------------------------------------------------------
(* The queue.                                                              *)

(* The API sends the work message of an accepted event.                    *)
Arrive(m) ==
    /\ queue[m] = "unsent"
    /\ queue' = [queue EXCEPT ![m] = "visible"]
    /\ UNCHANGED <<receives, pc, batch, jobVars, dbVars, pages, investigations, logVars, restarts>>

(* The visibility timeout runs from the receive, whatever the worker does: *)
(* the message becomes visible while a slow worker still holds its receipt.*)
VisibilityExpires(m) ==
    /\ queue[m] = "inflight"
    /\ queue' = [queue EXCEPT ![m] = "visible"]
    /\ UNCHANGED <<receives, pc, batch, jobVars, dbVars, pages, investigations, logVars, restarts>>

(* Mutant: off by one, an exhausted message is neither handed out nor moved. *)
RedriveLate(m) ==
    /\ queue[m] = "visible"
    /\ receives[m] > MaxReceive
    /\ queue' = [queue EXCEPT ![m] = "dlq"]
    /\ UNCHANGED <<receives, pc, batch, jobVars, dbVars, pages, investigations, logVars, restarts>>

(* A message already received MaxReceive times moves to the DLQ instead of *)
(* being handed out again.                                                 *)
Redrive(m) ==
    /\ queue[m] = "visible"
    /\ receives[m] = MaxReceive
    /\ queue' = [queue EXCEPT ![m] = "dlq"]
    /\ UNCHANGED <<receives, pc, batch, jobVars, dbVars, pages, investigations, logVars, restarts>>

-----------------------------------------------------------------------------
(* The polling loop.                                                       *)

Receivable(S) ==
    /\ S # {} /\ Cardinality(S) <= MaxBatch
    /\ \A m \in S : queue[m] = "visible" /\ receives[m] < MaxReceive

HandOut(S) ==
    /\ queue' = [m \in Messages |-> IF m \in S THEN "inflight" ELSE queue[m]]
    /\ receives' = [m \in Messages |-> IF m \in S THEN receives[m] + 1 ELSE receives[m]]

ReceiptsOf(S) == {[msg |-> m, n |-> receives[m] + 1] : m \in S}

Polling(w) == pc[w] = "poll" /\ batch[w] = {}

Receive(w, S) ==
    /\ Polling(w)
    /\ Receivable(S)
    /\ HandOut(S)
    /\ batch' = [batch EXCEPT ![w] = ReceiptsOf(S)]
    /\ UNCHANGED <<pc, jobVars, dbVars, pages, investigations, logVars, restarts>>

(* The response of receive_message is lost, or run_once raises before its  *)
(* loop, which main logs as a failed poll: the messages stay in flight     *)
(* with nobody working on them.                                            *)
ReceiveLost(w, S) ==
    /\ Polling(w)
    /\ Receivable(S)
    /\ HandOut(S)
    /\ failed' = failed \cup ReceiptsOf(S)
    /\ UNCHANGED <<pc, batch, jobVars, dbVars, pages, investigations, orphaned, unpublished,
                   restarts>>

ReceiveNothing(w) == Polling(w) /\ UNCHANGED vars

(* Mutant: only one message of a poll is processed, the rest is forgotten. *)
TakeAndDrop(w) ==
    /\ pc[w] = "poll"
    /\ \E r \in batch[w] :
        /\ cur' = [cur EXCEPT ![w] = r]
        /\ batch' = [batch EXCEPT ![w] = {}]
    /\ pc' = [pc EXCEPT ![w] = "claim"]
    /\ UNCHANGED <<queueVars, verdict, pending, rows, outbox, dbVars, pages, investigations,
                   logVars, restarts>>

(* The next iteration of the loop over the received messages, up to and    *)
(* including the read of the raw event and its conversion.                 *)
Take(w) ==
    /\ pc[w] = "poll"
    /\ \E r \in batch[w] :
        /\ cur' = [cur EXCEPT ![w] = r]
        /\ batch' = [batch EXCEPT ![w] = @ \ {r}]
    /\ pc' = [pc EXCEPT ![w] = "claim"]
    /\ UNCHANGED <<queueVars, verdict, pending, rows, outbox, dbVars, pages, investigations,
                   logVars, restarts>>

(* The session of the current message is closed.                           *)
CloseSession(w) ==
    /\ cur' = [cur EXCEPT ![w] = NoReceipt]
    /\ verdict' = [verdict EXCEPT ![w] = {}]
    /\ pending' = [pending EXCEPT ![w] = {}]
    /\ rows' = [rows EXCEPT ![w] = {}]
    /\ outbox' = [outbox EXCEPT ![w] = {}]

-----------------------------------------------------------------------------
(* One message: claim, evaluate, deliver, commit.                          *)

(* Mutant: the unique constraint is missing.                               *)
ClaimUnchecked(w) ==
    /\ pc[w] = "claim"
    /\ cur[w].msg \notin Malformed
    /\ Holders(KeyOf[cur[w].msg]) = {}
    /\ pc' = [pc EXCEPT ![w] = "evaluate"]
    /\ UNCHANGED <<queueVars, batch, jobVars, dbVars, pages, investigations, logVars, restarts>>

(* The INSERT of the inference record succeeds.  While another transaction *)
(* holds the uncommitted key the INSERT waits: neither claim is enabled.   *)
ClaimFirst(w) ==
    /\ pc[w] = "claim"
    /\ cur[w].msg \notin Malformed
    /\ ~Recorded(KeyOf[cur[w].msg])
    /\ Holders(KeyOf[cur[w].msg]) = {}
    /\ pc' = [pc EXCEPT ![w] = "evaluate"]
    /\ UNCHANGED <<queueVars, batch, jobVars, dbVars, pages, investigations, logVars, restarts>>

(* Mutant: a key claimed but not yet committed already counts as taken.    *)
ClaimDuplicateEarly(w) ==
    /\ pc[w] = "claim"
    /\ cur[w].msg \notin Malformed
    /\ Recorded(KeyOf[cur[w].msg]) \/ Holders(KeyOf[cur[w].msg]) # {}
    /\ pc' = [pc EXCEPT ![w] = "finish"]
    /\ UNCHANGED <<queueVars, batch, jobVars, dbVars, pages, investigations, logVars, restarts>>

(* The INSERT violates the unique constraint on idempotency_key: rolled    *)
(* back, and the message is deleted as a duplicate.                        *)
ClaimDuplicate(w) ==
    /\ pc[w] = "claim"
    /\ cur[w].msg \notin Malformed
    /\ Recorded(KeyOf[cur[w].msg])
    /\ pc' = [pc EXCEPT ![w] = "finish"]
    /\ UNCHANGED <<queueVars, batch, jobVars, dbVars, pages, investigations, logVars, restarts>>

(* Mutant: critical alerts are published before they are committed.        *)
EvaluateAndPublish(w) ==
    /\ pc[w] = "evaluate"
    /\ \E v \in Verdicts :
        /\ verdict' = [verdict EXCEPT ![w] = v]
        /\ pending' = [pending EXCEPT ![w] = DeliveriesOf(v)]
        /\ investigations' = investigations \cup {AlertOf(cur[w], f) : f \in CriticalOf(v)}
    /\ pc' = [pc EXCEPT ![w] = "deliver"]
    /\ UNCHANGED <<queueVars, batch, cur, rows, outbox, dbVars, pages, logVars, restarts>>

(* evaluate_all reads the recent records of the model, which other workers *)
(* keep changing: any verdict may come out, a new one at every redelivery. *)
Evaluate(w) ==
    /\ pc[w] = "evaluate"
    /\ \E v \in Verdicts :
        /\ verdict' = [verdict EXCEPT ![w] = v]
        /\ pending' = [pending EXCEPT ![w] = DeliveriesOf(v)]
    /\ pc' = [pc EXCEPT ![w] = "deliver"]
    /\ UNCHANGED <<queueVars, batch, cur, rows, outbox, dbVars, pages, investigations,
                   logVars, restarts>>

(* One client.send: whether the partner got the alert and whether send     *)
(* reports success are independent, but success means it got it.  A send   *)
(* that raises is this step followed by Fail, which discards the row.      *)
Send(w) ==
    /\ pc[w] = "deliver"
    /\ \E d \in pending[w], reached, ok \in BOOLEAN :
        LET a == AlertOf(cur[w], d.finding) IN
        /\ \A e \in pending[w] : ~Precedes(e, d)
        /\ ok => reached
        /\ pending' = [pending EXCEPT ![w] = @ \ {d}]
        /\ rows' = [rows EXCEPT ![w] = @ \cup {[alert |-> a, partner |-> d.partner, ok |-> ok]}]
        /\ pages' = IF reached THEN pages \cup {[alert |-> a, partner |-> d.partner]} ELSE pages
    /\ UNCHANGED <<queueVars, pc, batch, cur, verdict, outbox, dbVars, investigations,
                   logVars, restarts>>

(* What the transaction writes becomes visible at once.                    *)
WriteAll(w) ==
    /\ records' = records \cup {[key |-> KeyOf[cur[w].msg], msg |-> cur[w].msg]}
    /\ alerts' = alerts \cup {AlertOf(cur[w], f) : f \in verdict[w]}
    /\ attempts' = attempts \cup rows[w]

ReadyToCommit(w) == pc[w] = "deliver" /\ pending[w] = {}

Commit(w) ==
    /\ ReadyToCommit(w)
    /\ WriteAll(w)
    /\ outbox' = [outbox EXCEPT ![w] = CriticalOf(verdict[w])]
    /\ pc' = [pc EXCEPT ![w] = "finish"]
    /\ UNCHANGED <<queueVars, batch, cur, verdict, pending, rows, pages, investigations,
                   logVars, restarts>>

(* The server commits but the connection breaks before the reply: commit() *)
(* raises, nothing is published and the message is not deleted.            *)
CommitUnconfirmed(w) ==
    /\ ReadyToCommit(w)
    /\ WriteAll(w)
    /\ CloseSession(w)
    /\ pc' = [pc EXCEPT ![w] = "poll"]
    /\ failed' = failed \cup {cur[w]}
    /\ UNCHANGED <<queueVars, batch, pages, investigations, orphaned, unpublished, restarts>>

-----------------------------------------------------------------------------
(* After the commit: publish the critical alerts, delete the message.      *)

(* The critical alerts are published in rule order; a failed publication   *)
(* is logged and swallowed, and may have reached the queue all the same.   *)
EnqueueInvestigation(w) ==
    /\ pc[w] = "finish"
    /\ \E f \in outbox[w] :
        LET a == AlertOf(cur[w], f) IN
        /\ \A g \in outbox[w] : f.rule <= g.rule
        /\ outbox' = [outbox EXCEPT ![w] = @ \ {f}]
        /\ \/ investigations' = investigations \cup {a} /\ UNCHANGED unpublished
           \/ investigations' = investigations /\ unpublished' = unpublished \cup {a}
    /\ UNCHANGED <<queueVars, pc, batch, cur, verdict, pending, rows, dbVars, pages, failed,
                   orphaned, restarts>>

(* delete_message with the receipt handle of this delivery: a handle that  *)
(* a later receive replaced may or may not still delete the message.       *)
Delete(w) ==
    /\ pc[w] = "finish"
    /\ outbox[w] = {}
    /\ LET m == cur[w].msg  live == queue[m] \in {"visible", "inflight"} IN
        \/ live /\ queue' = [queue EXCEPT ![m] = "deleted"]
        \/ (~live \/ cur[w].n < receives[m]) /\ UNCHANGED queue
    /\ CloseSession(w)
    /\ pc' = [pc EXCEPT ![w] = "poll"]
    /\ UNCHANGED <<receives, batch, dbVars, pages, investigations, logVars, restarts>>

-----------------------------------------------------------------------------
(* Failures, crashes, restarts.                                            *)

Processing == {"claim", "evaluate", "deliver", "finish"}

(* Mutant: the message is deleted whether or not it was processed.         *)
FailAndDelete(w) ==
    /\ pc[w] \in Processing
    /\ queue' = [queue EXCEPT ![cur[w].msg] = IF @ = "dlq" THEN @ ELSE "deleted"]
    /\ CloseSession(w)
    /\ pc' = [pc EXCEPT ![w] = "poll"]
    /\ failed' = failed \cup {cur[w]}
    /\ UNCHANGED <<receives, batch, dbVars, pages, investigations, orphaned, unpublished, restarts>>

(* Any exception while a message is processed: roll back, do not delete,   *)
(* go on with the next message of the batch.                               *)
Fail(w) ==
    /\ pc[w] \in Processing
    /\ CloseSession(w)
    /\ pc' = [pc EXCEPT ![w] = "poll"]
    /\ failed' = failed \cup {cur[w]}
    /\ UNCHANGED <<queueVars, batch, dbVars, pages, investigations, orphaned, unpublished, restarts>>

(* Mutant: a message that cannot be processed is treated as handled.       *)
RejectAndDelete(w) ==
    /\ pc[w] = "claim" /\ cur[w].msg \in Malformed
    /\ pc' = [pc EXCEPT ![w] = "finish"]
    /\ UNCHANGED <<queueVars, batch, jobVars, dbVars, pages, investigations, logVars, restarts>>

(* The exceptions a poison message raises at every delivery.               *)
Reject(w) ==
    /\ pc[w] = "claim" /\ cur[w].msg \in Malformed
    /\ Fail(w)

(* The process is killed: the open transaction aborts, the receipts it     *)
(* held are nobody's, and nothing is logged, neither the message it was at *)
(* nor the alerts it had committed and not yet published.                  *)
Crash(w) ==
    /\ pc[w] # "stopped" /\ restarts < MaxRestarts
    /\ orphaned' = orphaned \cup batch[w] \cup (IF pc[w] \in Processing THEN {cur[w]} ELSE {})
    /\ batch' = [batch EXCEPT ![w] = {}]
    /\ CloseSession(w)
    /\ pc' = [pc EXCEPT ![w] = "stopped"]
    /\ restarts' = restarts + 1
    /\ UNCHANGED <<queueVars, dbVars, pages, investigations, failed, unpublished>>

(* Mutant: the flag is honoured between two messages of a batch.           *)
StopInBatch(w) ==
    /\ pc[w] = "poll" /\ restarts < MaxRestarts
    /\ batch' = [batch EXCEPT ![w] = {}]
    /\ pc' = [pc EXCEPT ![w] = "stopped"]
    /\ restarts' = restarts + 1
    /\ UNCHANGED <<queueVars, jobVars, dbVars, pages, investigations, logVars>>

(* SIGTERM only sets a flag, which main reads between two polls.           *)
Stop(w) ==
    /\ Polling(w) /\ restarts < MaxRestarts
    /\ pc' = [pc EXCEPT ![w] = "stopped"]
    /\ restarts' = restarts + 1
    /\ UNCHANGED <<queueVars, batch, jobVars, dbVars, pages, investigations, logVars>>

Start(w) ==
    /\ pc[w] = "stopped"
    /\ pc' = [pc EXCEPT ![w] = "poll"]
    /\ UNCHANGED <<queueVars, batch, jobVars, dbVars, pages, investigations, logVars, restarts>>

-----------------------------------------------------------------------------

(* What a worker does when left alone.                                     *)
Progress(w) ==
    \/ \E S \in SUBSET Messages : Receive(w, S)
    \/ Take(w)
    \/ ClaimFirst(w)
    \/ ClaimDuplicate(w)
    \/ Evaluate(w)
    \/ Send(w)
    \/ Commit(w)
    \/ EnqueueInvestigation(w)
    \/ Delete(w)
    \/ Reject(w)
    \/ Start(w)

(* What its surroundings do to it.                                         *)
Disturbance(w) ==
    \/ \E S \in SUBSET Messages : ReceiveLost(w, S)
    \/ ReceiveNothing(w)
    \/ CommitUnconfirmed(w)
    \/ Fail(w)
    \/ Crash(w)
    \/ Stop(w)

Next ==
    \/ \E m \in Messages : Arrive(m) \/ VisibilityExpires(m) \/ Redrive(m)
    \/ \E w \in Workers : Progress(w) \/ Disturbance(w)

(* Workers and the queue keep running; nothing forces an exception, a      *)
(* crash, a stop or an arrival.                                            *)
Fairness ==
    /\ \A w \in Workers : WF_vars(Progress(w))
    /\ \A m \in Messages : WF_vars(VisibilityExpires(m)) /\ WF_vars(Redrive(m))

Spec == Init /\ [][Next]_vars

FairSpec == Spec /\ Fairness
-----------------------------------------------------------------------------
(* Properties.                                                             *)

(* Type correctness of the state; a worker between two messages holds no   *)
(* receipt, and one that processes a message holds its receipt.            *)
TypeOK ==
    /\ queue \in [Messages -> {"unsent", "visible", "inflight", "deleted", "dlq"}]
    /\ receives \in [Messages -> 0..MaxReceive]
    /\ pc \in [Workers -> {"stopped", "poll"} \cup Processing]
    /\ batch \in [Workers -> SUBSET Receipts]
    /\ cur \in [Workers -> Receipts \cup {NoReceipt}]
    /\ verdict \in [Workers -> Verdicts \cup {{}}]
    /\ pending \in [Workers -> SUBSET Deliveries]
    /\ rows \in [Workers -> SUBSET Attempts]
    /\ outbox \in [Workers -> SUBSET Findings]
    /\ records \subseteq [key : Keys, msg : Messages]
    /\ alerts \subseteq Alerts
    /\ attempts \subseteq Attempts
    /\ pages \subseteq [alert : Alerts, partner : Partners]
    /\ investigations \subseteq Alerts
    /\ failed \subseteq Receipts
    /\ orphaned \subseteq Receipts
    /\ unpublished \subseteq Alerts
    /\ restarts \in 0..MaxRestarts
    /\ \A w \in Workers :
        /\ pc[w] \in Processing <=> cur[w] # NoReceipt
        /\ pc[w] = "deliver" => verdict[w] \in Verdicts

(* A message is deleted from the queue only when its key has a committed   *)
(* inference record: run_once deletes after _process_message, whether it   *)
(* committed or found the key taken.                                       *)
NoLostEvent ==
    \A m \in Messages :
        queue[m] = "deleted" => \E r \in records : r.key = KeyOf[m]

(* All committed alerts of one idempotency key come from one delivery of   *)
(* one message, the one whose record is committed, and no rule alerts      *)
(* twice: redelivered and duplicate messages never alert again.            *)
NoDuplicateAlerts ==
    /\ \A a \in alerts : [key |-> KeyOf[a.msg], msg |-> a.msg] \in records
    /\ \A r, s \in records : r.key = s.key => r = s
    /\ \A a, b \in alerts :
        KeyOf[a.msg] = KeyOf[b.msg] =>
            /\ a.msg = b.msg /\ a.n = b.n
            /\ a.rule = b.rule => a = b

(* The committed delivery attempts are exactly one per committed alert and *)
(* partner it concerns (PagerDuty for critical alerts only), and one that  *)
(* is recorded as a success did reach the partner.                         *)
AuditComplete ==
    /\ \A t \in attempts : t.alert \in alerts /\ (t.ok => [alert |-> t.alert, partner |-> t.partner] \in pages)
    /\ \A t, u \in attempts : t.alert = u.alert /\ t.partner = u.partner => t = u
    /\ \A a \in alerts, p \in Partners :
        (\E t \in attempts : t.alert = a /\ t.partner = p) <=> (p = "slack" \/ a.severity = "critical")

(* As long as its key is not recorded, every delivery of a message is in   *)
(* some worker's hands, ended in a logged exception, or was held by a      *)
(* process that was killed: a message that reaches the dead-letter queue   *)
(* without a record met MaxReceive failures, no worker that lived merely   *)
(* dropped it.                                                             *)
DeliveriesAccounted ==
    \A r \in Receipts :
        \/ r.n > receives[r.msg]
        \/ r \in failed \cup orphaned
        \/ \E w \in Workers : r \in batch[w] \/ r = cur[w]
        \/ \E s \in records : s.key = KeyOf[r.msg]

(* Only committed critical alerts are published for investigation, and a   *)
(* committed critical alert is published, still in its worker's loop, or   *)
(* lost in one of three ways: its publication failed and was logged, its   *)
(* delivery raised after the commit and was logged, or the worker was      *)
(* killed after the commit and before the publication, which leaves no     *)
(* trace (the redelivery is dropped as a duplicate).                       *)
InvestigationsAccounted ==
    /\ investigations \subseteq {a \in alerts : a.severity = "critical"}
    /\ Investigate =>
        \A a \in alerts : a.severity = "critical" =>
            \/ a \in investigations
            \/ a \in unpublished
            \/ [msg |-> a.msg, n |-> a.n] \in failed \cup orphaned
            \/ \E w \in Workers :
                /\ cur[w] = [msg |-> a.msg, n |-> a.n]
                /\ [rule |-> a.rule, severity |-> a.severity] \in outbox[w]

(* No step pages a partner for an event whose key is already recorded, and *)
(* no step adds alerts or attempts to a key already recorded: duplicates   *)
(* are dropped before they evaluate or deliver anything.                   *)
RecordedIsFinalStep ==
    \A k \in Keys : Recorded(k) =>
        /\ \A p \in pages' : KeyOf[p.alert.msg] = k => p \in pages
        /\ \A a \in alerts' : KeyOf[a.msg] = k => a \in alerts
        /\ \A t \in attempts' : KeyOf[t.alert.msg] = k => t \in attempts
        /\ \E r \in records' : r.key = k
RecordedIsFinal == [][RecordedIsFinalStep]_vars

(* A partner can tell a repeated alert from a new one by the idempotency   *)
(* key header: all pages for one event, rule and partner carry one key.    *)
PagesDeduplicable ==
    \A p, q \in pages :
        /\ p.partner = q.partner
        /\ p.alert.msg = q.alert.msg
        /\ p.alert.rule = q.alert.rule
        => p.alert.n = q.alert.n

(* Every alert a partner received is on record as a delivery attempt, once *)
(* the worker that sent it has gone on to something else.                  *)
PagesRecorded ==
    \A p \in pages :
        \/ \E t \in attempts : t.alert = p.alert /\ t.partner = p.partner
        \/ \E w \in Workers : cur[w] = [msg |-> p.alert.msg, n |-> p.alert.n]

(* Every message sent is in the end deleted or dead-lettered: no worker    *)
(* waits for ever for another's claim, and no message is retried for ever. *)
EventuallySettled ==
    \A m \in Messages : queue[m] # "unsent" ~> queue[m] \in {"deleted", "dlq"}

(* Every message sent is in the end recorded, unless each of its           *)
(* MaxReceive deliveries ended in an exception or was held by a process    *)
(* that was killed, even if its visibility keeps expiring while workers    *)
(* hold it.                                                                *)
EventuallyRecorded ==
    \A m \in Messages :
        queue[m] # "unsent" ~> \/ Recorded(KeyOf[m])
                               \/ \A n \in 1..MaxReceive : [msg |-> m, n |-> n] \in failed \cup orphaned

(* A message that cannot be loaded ends in the dead-letter queue.          *)
PoisonDeadLettered ==
    \A m \in Malformed : queue[m] # "unsent" ~> queue[m] = "dlq"

-----------------------------------------------------------------------------
(* The worker implements IngestOnce.  A key is decided when its record is  *)
(* committed; its verdict is read back from the committed alerts.          *)

FateOf(m) == CASE queue[m] = "unsent" -> "unsent"
               [] queue[m] = "deleted" -> "acknowledged"
               [] queue[m] = "dlq" -> "dead"
               [] OTHER -> "open"

CommittedFindings(k) ==
    {[rule |-> a.rule, severity |-> a.severity] : a \in {b \in alerts : KeyOf[b.msg] = k}}

OutcomeOf(k) ==
    {[by |-> r.msg, verdict |-> CommittedFindings(k)] : r \in {s \in records : s.key = k}}

Once == INSTANCE IngestOnce WITH
            fate <- [m \in Messages |-> FateOf(m)],
            outcome <- [k \in Keys |-> OutcomeOf(k)]

(* Every behaviour of the worker, its queue and its database is one of     *)
(* IngestOnce: one verdict per key, decided once, then acknowledged.       *)
ImplementsIngestOnce == Once!Spec

=============================================================================
