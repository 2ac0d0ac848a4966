---------------------------- MODULE Investigator ----------------------------
(***************************************************************************)
(* The incident investigator (src/apps/investigator/investigator): each    *)
(* process polls the investigations queue one message at a time, runs the  *)
(* LangGraph agent on the alert it names, stores the report and only then  *)
(* deletes the message.  A message is identified with its alert, since the *)
(* worker publishes an alert once; a delivery is a receipt, the message    *)
(* with its receive count.  Of the data, the model keeps the confidence of *)
(* the best hypothesis relative to graph_confidence_threshold, the number  *)
(* of verify loops, and the cost, one unit per call of the language model. *)
(***************************************************************************)
EXTENDS Integers, FiniteSets

CONSTANTS
    Investigators,  \* investigator processes
    Alerts,         \* critical alerts the worker may publish
    Gone,           \* those whose row may be missing when the message arrives
    NoReceipt,      \* cur[i] when i holds no message
    MaxReceive,     \* maxReceiveCount of the queue
    MaxLoops,       \* graph_verify_max_loops
    MaxRestarts     \* bound on crashes and stops

ASSUME AlertsAssumption == Gone \subseteq Alerts /\ NoReceipt \notin [alert : Alerts, n : Nat]
ASSUME LimitsAssumption ==
    MaxReceive \in Nat \ {0} /\ MaxLoops \in Nat /\ MaxRestarts \in Nat

Receipts == [alert : Alerts, n : 1..MaxReceive]
Confidences == {"none", "low", "high"}

VARIABLES
    gone,      \* alerts without a row
    queue,     \* where each message is
    receives,  \* how often it has been received
    pc,        \* the node or step each process is at
    cur,       \* the receipt it is working on
    state,     \* the InvestigationState of its graph run
    rows,      \* committed investigations
    posted,    \* receipts whose report was posted to Slack
    failed,    \* receipts whose processing ended in an exception or a crash
    restarts   \* crashes and stops so far

queueVars == <<queue, receives>>
vars == <<gone, queueVars, pc, cur, state, rows, posted, failed, restarts>>

(* LangGraph keeps of a node's result only the keys that InvestigationState *)
(* declares; anything else is lost between two nodes.                      *)
DeclaredKeys == {"alert_id", "event_id", "model", "rule", "severity", "alert_message",
                 "alert_evidence", "alert_created_at", "raw_event", "recent_alerts",
                 "recent_deployments", "logs", "partner_history", "evidence", "hypotheses",
                 "verify_loops", "tool_calls", "cost_usd", "report", "error"}
Kept(key) == key \in DeclaredKeys

(* inference_meta and llm_response tell whether the key is set; calls      *)
(* counts the calls of the language model that were really made.           *)
InitialState == [inference_meta |-> FALSE, llm_response |-> FALSE, top |-> "none",
                 verify_loops |-> 0, cost_usd |-> 0, calls |-> 0]
States == [inference_meta : BOOLEAN, llm_response : BOOLEAN, top : Confidences,
           verify_loops : 0..MaxLoops, cost_usd : 0..MaxLoops + 1, calls : 0..MaxLoops + 2]

Report(i) == [receipt |-> cur[i], report |-> state[i]]

Init ==
    /\ gone \in SUBSET Gone
    /\ queue = [a \in Alerts |-> "unsent"]
    /\ receives = [a \in Alerts |-> 0]
    /\ pc = [i \in Investigators |-> "poll"]
    /\ cur = [i \in Investigators |-> NoReceipt]
    /\ state = [i \in Investigators |-> InitialState]
    /\ rows = {}
    /\ posted = {}
    /\ failed = {}
    /\ restarts = 0

-----------------------------------------------------------------------------
(* The queue.                                                              *)

Publish(a) ==
    /\ queue[a] = "unsent"
    /\ queue' = [queue EXCEPT ![a] = "visible"]
    /\ UNCHANGED <<gone, receives, pc, cur, state, rows, posted, failed,
                   restarts>>

(* The visibility timeout runs from the receive, however long the graph    *)
(* takes: the message can be handed out again to another process.          *)
VisibilityExpires(a) ==
    /\ queue[a] = "inflight"
    /\ queue' = [queue EXCEPT ![a] = "visible"]
    /\ UNCHANGED <<gone, receives, pc, cur, state, rows, posted, failed,
                   restarts>>

(* Mutant: messages are retried without a dead-letter queue.               *)
RedriveNever(a) == FALSE /\ UNCHANGED vars

Redrive(a) ==
    /\ queue[a] = "visible" /\ receives[a] = MaxReceive
    /\ queue' = [queue EXCEPT ![a] = "dlq"]
    /\ UNCHANGED <<gone, receives, pc, cur, state, rows, posted, failed,
                   restarts>>

HandOut(a) ==
    /\ queue[a] = "visible" /\ receives[a] < MaxReceive
    /\ queue' = [queue EXCEPT ![a] = "inflight"]
    /\ receives' = [receives EXCEPT ![a] = @ + 1]

Receive(i, a) ==
    /\ pc[i] = "poll"
    /\ HandOut(a)
    /\ cur' = [cur EXCEPT ![i] = [alert |-> a, n |-> receives[a] + 1]]
    /\ pc' = [pc EXCEPT ![i] = "receive_alert"]
    /\ UNCHANGED <<gone, state, rows, posted, failed, restarts>>

(* The reply of receive_message is lost.                                   *)
ReceiveLost(i, a) ==
    /\ pc[i] = "poll"
    /\ HandOut(a)
    /\ failed' = failed \cup {[alert |-> a, n |-> receives[a] + 1]}
    /\ UNCHANGED <<gone, pc, cur, state, rows, posted, restarts>>

ReceiveNothing(i) == pc[i] = "poll" /\ UNCHANGED vars

-----------------------------------------------------------------------------
(* The nodes of the graph.                                                 *)

(* A node of i's graph that hands on to the next one.                      *)
Node(i, here, next) ==
    /\ pc[i] = here
    /\ pc' = [pc EXCEPT ![i] = next]
    /\ UNCHANGED <<gone, queueVars, cur, rows, posted, failed, restarts>>

(* A missing alert only sets error; the edge to gather_context is          *)
(* unconditional.                                                          *)
ReceiveAlert(i) ==
    /\ Node(i, "receive_alert", "gather_context")
    /\ state' = [state EXCEPT ![i].inference_meta =
                    cur[i].alert \notin gone /\ Kept("inference_meta")]

(* state["rule"] and its likes are only there if the alert was found:      *)
(* otherwise this node raises KeyError.                                    *)
GatherContext(i) ==
    /\ Node(i, "gather_context", "hypothesize")
    /\ cur[i].alert \notin gone
    /\ UNCHANGED state

(* Mutant: one verify loop too few.                                        *)
RouteEarly(s) ==
    IF s.top = "low" /\ s.verify_loops + 1 < MaxLoops THEN "verify" ELSE "draft_postmortem"

RouteAfterHypothesize(s) ==
    IF s.top = "low" /\ s.verify_loops < MaxLoops THEN "verify" ELSE "draft_postmortem"

(* Each loop asks the model again, and what it answers then replaces the   *)
(* earlier hypotheses, even if nothing of it can be parsed.                *)
Hypothesize(i) ==
    /\ \E answer \in Confidences :
        state' = [state EXCEPT ![i].top = answer, ![i].cost_usd = @ + 1, ![i].calls = @ + 1,
                               ![i].llm_response = Kept("llm_response")]
    /\ Node(i, "hypothesize", RouteAfterHypothesize(state'[i]))

Verify(i) ==
    /\ Node(i, "verify", "hypothesize")
    /\ state' = [state EXCEPT ![i].verify_loops = @ + 1]

(* Mutant: no report if there is no hypothesis; the message is deleted all  *)
(* the same.                                                               *)
DraftOrNothing(i) ==
    /\ Node(i, "draft_postmortem", IF state[i].top = "none" THEN "delete" ELSE "deliver")
    /\ state' = [state EXCEPT ![i].calls = IF state[i].llm_response THEN @ ELSE @ + 1]

(* Without an llm_response the model is asked once more, and that call's   *)
(* cost is not added.                                                      *)
DraftPostmortem(i) ==
    /\ Node(i, "draft_postmortem", "deliver")
    /\ state' = [state EXCEPT ![i].calls = IF state[i].llm_response THEN @ ELSE @ + 1]

(* Mutant: the report is posted before it is stored.                       *)
DeliverPostedFirst(i) ==
    /\ pc[i] = "deliver"
    /\ pc' = [pc EXCEPT ![i] = "post"]
    /\ posted' = posted \cup {cur[i]}
    /\ UNCHANGED <<gone, queueVars, cur, state, rows, failed, restarts>>

(* Mutant: the report replaces an earlier one of the alert.                *)
DeliverReplacing(i) ==
    /\ pc[i] = "deliver"
    /\ pc' = [pc EXCEPT ![i] = "post"]
    /\ rows' = {r \in rows : r.receipt.alert # cur[i].alert} \cup {Report(i)}
    /\ UNCHANGED <<gone, queueVars, cur, state, posted, failed, restarts>>

Deliver(i) ==
    /\ pc[i] = "deliver"
    /\ pc' = [pc EXCEPT ![i] = "post"]
    /\ rows' = rows \cup {Report(i)}
    /\ UNCHANGED <<gone, queueVars, cur, state, posted, failed, restarts>>

(* _post_to_slack swallows every exception and looks at no status code.    *)
PostToSlack(i) ==
    /\ pc[i] = "post"
    /\ pc' = [pc EXCEPT ![i] = "delete"]
    /\ posted' \in {posted, posted \cup {cur[i]}}
    /\ UNCHANGED <<gone, queueVars, cur, state, rows, failed, restarts>>

Close(i) ==
    /\ cur' = [cur EXCEPT ![i] = NoReceipt]
    /\ state' = [state EXCEPT ![i] = InitialState]

(* A receipt that a later receive has replaced may or may not still delete *)
(* the message.                                                            *)
Delete(i) ==
    /\ pc[i] = "delete"
    /\ LET a == cur[i].alert  live == queue[a] \in {"visible", "inflight"} IN
        \/ live /\ queue' = [queue EXCEPT ![a] = "deleted"]
        \/ (~live \/ cur[i].n < receives[a]) /\ UNCHANGED queue
    /\ Close(i)
    /\ pc' = [pc EXCEPT ![i] = "poll"]
    /\ UNCHANGED <<gone, receives, rows, posted, failed, restarts>>

-----------------------------------------------------------------------------
(* Failures, crashes, restarts.                                            *)

Processing == {"receive_alert", "gather_context", "hypothesize", "verify", "draft_postmortem",
               "deliver", "post", "delete"}

(* Mutant: the message is deleted in any case.                             *)
FailAndDelete(i) ==
    /\ pc[i] \in Processing
    /\ queue' = [queue EXCEPT ![cur[i].alert] = IF @ = "dlq" THEN @ ELSE "deleted"]
    /\ Close(i)
    /\ pc' = [pc EXCEPT ![i] = "poll"]
    /\ failed' = failed \cup {cur[i]}
    /\ UNCHANGED <<gone, receives, rows, posted, restarts>>

(* Any exception, of a tool, the model, the database or delete_message, is *)
(* logged by run_once, which leaves the message in the queue; whatever was *)
(* committed before stays.                                                 *)
Fail(i) ==
    /\ pc[i] \in Processing
    /\ Close(i)
    /\ pc' = [pc EXCEPT ![i] = "poll"]
    /\ failed' = failed \cup {cur[i]}
    /\ UNCHANGED <<gone, queueVars, rows, posted, restarts>>

(* The exception that a missing alert raises at every delivery.            *)
AlertMissing(i) ==
    /\ pc[i] = "gather_context" /\ cur[i].alert \in gone
    /\ Fail(i)

(* The insert is committed but commit, or the refresh after it, raises.    *)
DeliverUnconfirmed(i) ==
    /\ pc[i] = "deliver"
    /\ rows' = rows \cup {Report(i)}
    /\ Close(i)
    /\ pc' = [pc EXCEPT ![i] = "poll"]
    /\ failed' = failed \cup {cur[i]}
    /\ UNCHANGED <<gone, queueVars, posted, restarts>>

Crash(i) ==
    /\ pc[i] # "stopped" /\ restarts < MaxRestarts
    /\ failed' = failed \cup (IF pc[i] \in Processing THEN {cur[i]} ELSE {})
    /\ Close(i)
    /\ pc' = [pc EXCEPT ![i] = "stopped"]
    /\ restarts' = restarts + 1
    /\ UNCHANGED <<gone, queueVars, rows, posted>>

(* SIGTERM only sets a flag, which main reads between two polls.           *)
Stop(i) ==
    /\ pc[i] = "poll" /\ restarts < MaxRestarts
    /\ pc' = [pc EXCEPT ![i] = "stopped"]
    /\ restarts' = restarts + 1
    /\ UNCHANGED <<gone, queueVars, cur, state, rows, posted, failed>>

Start(i) ==
    /\ pc[i] = "stopped"
    /\ pc' = [pc EXCEPT ![i] = "poll"]
    /\ UNCHANGED <<gone, queueVars, cur, state, rows, posted, failed, restarts>>

-----------------------------------------------------------------------------

(* What a process does when left alone.                                    *)
Progress(i) ==
    \/ \E a \in Alerts : Receive(i, a)
    \/ ReceiveAlert(i) \/ GatherContext(i) \/ AlertMissing(i)
    \/ Hypothesize(i) \/ Verify(i) \/ DraftPostmortem(i)
    \/ Deliver(i) \/ PostToSlack(i) \/ Delete(i)
    \/ Start(i)

(* What its surroundings do to it.                                         *)
Disturbance(i) ==
    \/ \E a \in Alerts : ReceiveLost(i, a)
    \/ ReceiveNothing(i)
    \/ Fail(i) \/ DeliverUnconfirmed(i)
    \/ Crash(i) \/ Stop(i)

Next ==
    \/ \E a \in Alerts : Publish(a) \/ VisibilityExpires(a) \/ Redrive(a)
    \/ \E i \in Investigators : Progress(i) \/ Disturbance(i)

Spec == Init /\ [][Next]_vars

(* Processes and the queue keep running; nothing forces an exception, a    *)
(* crash, a stop or a publication.                                         *)
FairSpec ==
    /\ Spec
    /\ \A i \in Investigators : WF_vars(Progress(i))
    /\ \A a \in Alerts : WF_vars(VisibilityExpires(a)) /\ WF_vars(Redrive(a))

-----------------------------------------------------------------------------
(* Properties.                                                             *)

(* Type correctness; a process holds a receipt exactly while it works on   *)
(* a message, and a receipt it holds was handed out.                       *)
TypeOK ==
    /\ gone \subseteq Gone
    /\ queue \in [Alerts -> {"unsent", "visible", "inflight", "deleted", "dlq"}]
    /\ receives \in [Alerts -> 0..MaxReceive]
    /\ pc \in [Investigators -> {"poll", "stopped"} \cup Processing]
    /\ cur \in [Investigators -> Receipts \cup {NoReceipt}]
    /\ state \in [Investigators -> States]
    /\ rows \subseteq [receipt : Receipts, report : States]
    /\ posted \subseteq Receipts
    /\ failed \subseteq Receipts
    /\ restarts \in 0..MaxRestarts
    /\ \A i \in Investigators : pc[i] \in Processing <=> cur[i] # NoReceipt

(* A message leaves the queue only with its investigation stored: run_once *)
(* deletes after the graph has delivered, and a failed run, or one whose   *)
(* alert is missing, is left to be retried.                                *)
NoLostInvestigation ==
    \A a \in Alerts : queue[a] = "deleted" => \E r \in rows : r.receipt.alert = a

(* Verification, of which s is the end, was bounded and not cut short.     *)
Verified(s) ==
    /\ s.top = "low" => s.verify_loops = MaxLoops
    /\ s.cost_usd = s.verify_loops + 1
    /\ s.calls \in {s.cost_usd, s.cost_usd + 1}

(* A report drafted on a low confidence has used all its verify loops, and *)
(* no run asks the model more often than once per loop, once before and    *)
(* once to draft.                                                          *)
LowConfidenceEarned == \A r \in rows : Verified(r.report)

(* Each delivery stores at most one report, so that an alert has at most   *)
(* MaxReceive of them; only a stored report of an existing alert is posted *)
(* to Slack, and a process about to post has stored its report.            *)
ReportsAccounted ==
    /\ \A r, s \in rows : r.receipt = s.receipt => r = s
    /\ \A r \in rows : r.receipt.alert \notin gone
                       /\ r.receipt.n <= receives[r.receipt.alert]
    /\ posted \subseteq {r.receipt : r \in rows}
    /\ \A i \in Investigators : pc[i] \in {"post", "delete"} => Report(i) \in rows

(* Every published message is in the end deleted or dead-lettered.         *)
EventuallySettled ==
    \A a \in Alerts : queue[a] # "unsent" ~> queue[a] \in {"deleted", "dlq"}

(* Every published alert is in the end investigated, unless each of its    *)
(* MaxReceive deliveries ended in an exception or a crash.                 *)
EventuallyInvestigated ==
    \A a \in Alerts :
        queue[a] # "unsent" ~> \/ \E r \in rows : r.receipt.alert = a
                               \/ \A n \in 1..MaxReceive : [alert |-> a, n |-> n] \in failed

(* What a node returns is merged into the state that later nodes see: the  *)
(* report is drafted from the metadata receive_alert has loaded, and from  *)
(* the answer hypothesize has paid for, so that its cost is the whole cost.*)
DeltasMerged ==
    \A r \in rows : r.report.inference_meta /\ r.report.calls = r.report.cost_usd

(* Whatever the processes do, what becomes of an alert is what ReportKept  *)
(* allows: in particular, no delivery replaces or removes the report of    *)
(* another, and an alert is dead-lettered only after its last delivery.    *)
Fate(where) ==
    CASE where \in {"visible", "inflight"} -> "open"
      [] where = "deleted" -> "acknowledged"
      [] where = "dlq" -> "dead"
      [] OTHER -> where
Promise == INSTANCE ReportKept WITH
    MaxDeliveries <- MaxReceive, Reports <- {s \in States : Verified(s)},
    missing <- gone, fate <- [a \in Alerts |-> Fate(queue[a])],
    delivered <- receives, reports <- rows, told <- posted
ImplementsReportKept == Promise!Spec

=============================================================================
