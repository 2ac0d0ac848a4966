------------------------ MODULE InvestigatorProofs ------------------------
(***************************************************************************)
(* Proofs about Investigator, for any number of processes, alerts,         *)
(* deliveries and verify loops.                                            *)
(***************************************************************************)
EXTENDS Investigator, TLAPS

USE AlertsAssumption, LimitsAssumption

Idle == {"poll", "stopped"}
Graph == {"receive_alert", "gather_context", "hypothesize", "verify", "draft_postmortem",
          "deliver"}

(* What the state s of a run on receipt r looks like at node p.            *)
Phase(p, s, r) ==
    /\ p \in Idle => s = InitialState
    /\ p \in {"receive_alert", "gather_context"} =>
        s.verify_loops = 0 /\ s.cost_usd = 0 /\ s.calls = 0
    /\ p = "hypothesize" => s.cost_usd = s.verify_loops /\ s.calls = s.verify_loops
    /\ p = "verify" => /\ s.cost_usd = s.verify_loops + 1 /\ s.calls = s.cost_usd
                       /\ s.verify_loops < MaxLoops
    /\ p = "draft_postmortem" => /\ s.cost_usd = s.verify_loops + 1 /\ s.calls = s.cost_usd
                                 /\ s.top = "low" => s.verify_loops = MaxLoops
    /\ p \in {"deliver", "post", "delete"} => Verified(s)
    /\ p \in Processing \ {"receive_alert", "gather_context"} => r.alert \notin gone

PhasesOK == \A i \in Investigators : Phase(pc[i], state[i], cur[i])

(* Every receipt in hand was handed out, to one process only, and has no   *)
(* row before its process reaches "post".                                  *)
ReceiptsOK ==
    /\ \A i \in Investigators :
        pc[i] \in Processing => cur[i].n <= receives[cur[i].alert]
    /\ \A i, j \in Investigators :
        pc[i] \in Processing /\ pc[j] \in Processing /\ cur[i] = cur[j] => i = j
    /\ \A i \in Investigators, r \in rows : pc[i] \in Graph => r.receipt # cur[i]

Inv == /\ TypeOK /\ NoLostInvestigation /\ LowConfidenceEarned /\ ReportsAccounted
       /\ PhasesOK /\ ReceiptsOK

LEMMA InvInit == Init => Inv
  BY DEF Init, Inv, TypeOK, NoLostInvestigation, LowConfidenceEarned, ReportsAccounted, PhasesOK,
         ReceiptsOK, Phase, Idle, Graph, Processing, States, InitialState, Confidences

LEMMA InitialStateType == InitialState \in States
  BY DEF InitialState, States, Confidences

(* A node hands on to another one, with new state s.                       *)
LEMMA GraphStep ==
    ASSUME Inv, NEW i \in Investigators, NEW here \in Graph, NEW next \in Graph,
           NEW s \in States, Node(i, here, next), state' = [state EXCEPT ![i] = s],
           Phase(next, s, cur[i])
    PROVE  Inv'
  <1>1. TypeOK /\ PhasesOK /\ ReceiptsOK /\ ReportsAccounted BY DEF Inv
  <1>2. /\ pc[i] = here /\ pc' = [pc EXCEPT ![i] = next]
        /\ UNCHANGED <<gone, queue, receives, cur, rows, posted, failed, restarts>>
    BY DEF Node, queueVars
  <1>3. here \in Processing /\ next \in Processing /\ next \notin {"post", "delete"}
    BY DEF Graph, Processing
  <1>4. TypeOK'
    BY <1>1, <1>2, <1>3 DEF TypeOK
  <1>5. /\ pc'[i] = next /\ state'[i] = s
        /\ \A j \in Investigators \ {i} : pc'[j] = pc[j] /\ state'[j] = state[j]
    BY <1>1, <1>2 DEF TypeOK
  <1>6. PhasesOK'
    BY <1>1, <1>2, <1>5 DEF PhasesOK, Phase
  <1>7. ReceiptsOK'
    BY <1>1, <1>2, <1>3, <1>5 DEF ReceiptsOK
  <1>8. NoLostInvestigation' /\ LowConfidenceEarned'
    BY <1>2 DEF Inv, NoLostInvestigation, LowConfidenceEarned
  <1>9. ReportsAccounted'
    <2>1. \A j \in Investigators : pc'[j] \in {"post", "delete"} => j # i
      BY <1>3, <1>5
    <2>2. \A j \in Investigators : pc'[j] \in {"post", "delete"} => Report(j)' \in rows'
      BY <1>1, <1>2, <1>5, <2>1 DEF ReportsAccounted, Report
    <2> QED BY <1>1, <1>2, <2>2 DEF ReportsAccounted
  <1> QED BY <1>4, <1>6, <1>7, <1>8, <1>9 DEF Inv

(* The work on a message ends, well or badly, perhaps storing its report.  *)
LEMMA CloseStep ==
    ASSUME Inv, NEW i \in Investigators, NEW q \in Idle, pc[i] \in Processing \cup Idle, Close(i),
           pc' = [pc EXCEPT ![i] = q],
           \/ rows' = rows
           \/ pc[i] = "deliver" /\ rows' = rows \cup {Report(i)},
           gone' = gone, receives' = receives, posted' = posted,
           queue' \in [Alerts -> {"unsent", "visible", "inflight", "deleted", "dlq"}],
           \A a \in Alerts : queue'[a] = "deleted" =>
                queue[a] = "deleted" \/ \E r \in rows : r.receipt.alert = a,
           failed' \subseteq Receipts, restarts' \in 0..MaxRestarts
    PROVE  Inv'
  <1>1. TypeOK /\ PhasesOK /\ ReceiptsOK /\ ReportsAccounted /\ NoLostInvestigation
        /\ LowConfidenceEarned
    BY DEF Inv
  <1>2. /\ cur' = [cur EXCEPT ![i] = NoReceipt]
        /\ state' = [state EXCEPT ![i] = InitialState]
    BY DEF Close
  <1>3. q \notin Processing /\ q \notin Graph /\ q \in Idle /\ q \notin {"post", "delete"}
    BY DEF Idle, Processing, Graph
  <1>4. /\ pc'[i] = q /\ state'[i] = InitialState /\ cur'[i] = NoReceipt
        /\ \A j \in Investigators \ {i} :
            pc'[j] = pc[j] /\ state'[j] = state[j] /\ cur'[j] = cur[j]
    BY <1>1, <1>2 DEF TypeOK
  <1>5. pc[i] = "deliver" => /\ cur[i] \in Receipts
                             /\ state[i] \in States
                             /\ cur[i].alert \in Alerts
                             /\ cur[i].alert \notin gone
                             /\ Verified(state[i])
                             /\ cur[i].n <= receives[cur[i].alert]
                             /\ \A r \in rows : r.receipt # cur[i]
    BY <1>1 DEF TypeOK, PhasesOK, Phase, ReceiptsOK, Processing, Graph, Receipts
  <1>6. pc[i] = "deliver" => Report(i) \in [receipt : Receipts, report : States]
    BY <1>5 DEF Report
  <1>7. rows \subseteq rows' /\ rows' \subseteq [receipt : Receipts, report : States]
    BY <1>1, <1>6 DEF TypeOK
  <1>8. TypeOK'
    <2>1. pc' \in [Investigators -> {"poll", "stopped"} \cup Processing]
      BY <1>1, <1>3 DEF TypeOK, Idle
    <2>2. /\ cur' \in [Investigators -> Receipts \cup {NoReceipt}]
          /\ state' \in [Investigators -> States]
      BY <1>1, <1>2, InitialStateType DEF TypeOK
    <2>3. \A j \in Investigators : pc'[j] \in Processing <=> cur'[j] # NoReceipt
      BY <1>1, <1>3, <1>4 DEF TypeOK
    <2> QED BY <1>1, <1>7, <2>1, <2>2, <2>3 DEF TypeOK
  <1>9. PhasesOK'
    <2>1. Phase(q, InitialState, NoReceipt)
      BY <1>3 DEF Phase, Idle, Processing
    <2> QED BY <1>1, <1>4, <2>1 DEF PhasesOK, Phase
  <1>10. ReceiptsOK'
    <2>1. \A j \in Investigators, r \in rows' : pc'[j] \in Graph => r.receipt # cur'[j]
      <3> SUFFICES ASSUME NEW j \in Investigators, NEW r \in rows', pc'[j] \in Graph
                   PROVE  r.receipt # cur'[j]
        OBVIOUS
      <3>1. j # i /\ pc[j] \in Graph /\ pc[j] \in Processing /\ cur'[j] = cur[j]
        BY <1>3, <1>4 DEF Graph, Processing
      <3>2. CASE r \in rows
        BY <1>1, <3>1, <3>2 DEF ReceiptsOK
      <3>3. CASE pc[i] = "deliver" /\ r = Report(i)
        BY <1>1, <3>1, <3>3 DEF ReceiptsOK, Report, Processing
      <3> QED BY <3>2, <3>3
    <2> QED BY <1>1, <1>3, <1>4, <2>1 DEF ReceiptsOK
  <1>11. NoLostInvestigation'
    BY <1>1, <1>7 DEF NoLostInvestigation
  <1>12. LowConfidenceEarned'
    BY <1>1, <1>5 DEF LowConfidenceEarned, Verified, Report
  <1>13. ReportsAccounted'
    <2>1. \A r, s \in rows' : r.receipt = s.receipt => r = s
      BY <1>1, <1>5 DEF ReportsAccounted, Report
    <2>2. \A r \in rows' : r.receipt.alert \notin gone
                           /\ r.receipt.n <= receives'[r.receipt.alert]
      BY <1>1, <1>5 DEF ReportsAccounted, Report
    <2>3. \A j \in Investigators : pc'[j] \in {"post", "delete"} => Report(j)' \in rows'
      BY <1>1, <1>3, <1>4, <1>7 DEF ReportsAccounted, Report
    <2> QED BY <1>1, <1>7, <2>1, <2>2, <2>3 DEF ReportsAccounted
  <1> QED BY <1>8, <1>9, <1>10, <1>11, <1>12, <1>13 DEF Inv

(* A message is handed out once more.                                      *)
LEMMA HandOutFacts ==
    ASSUME Inv, NEW a \in Alerts, HandOut(a)
    PROVE  /\ receives[a] + 1 \in 1..MaxReceive
           /\ [alert |-> a, n |-> receives[a] + 1] \in Receipts
           /\ receives' \in [Alerts -> 0..MaxReceive]
           /\ queue' \in [Alerts -> {"unsent", "visible", "inflight", "deleted", "dlq"}]
           /\ \A b \in Alerts : receives[b] <= receives'[b] /\ receives[b] \in Nat
                                /\ receives'[b] \in Nat
                                /\ (queue'[b] = "deleted" => queue[b] = "deleted")
           /\ receives'[a] = receives[a] + 1
  <1>1. TypeOK BY DEF Inv
  <1>2. receives[a] + 1 \in 1..MaxReceive
    BY <1>1 DEF HandOut, TypeOK
  <1>3. [alert |-> a, n |-> receives[a] + 1] \in Receipts
    BY <1>2 DEF Receipts
  <1> QED BY <1>1, <1>2, <1>3 DEF HandOut, TypeOK

LEMMA RowsHandedOut ==
    ASSUME Inv, NEW r \in rows
    PROVE  r.receipt.alert \in Alerts /\ r.receipt.n \in Nat
           /\ r.receipt.n <= receives[r.receipt.alert]
  BY DEF Inv, TypeOK, Receipts, ReportsAccounted

LEMMA HeldHandedOut ==
    ASSUME Inv, NEW i \in Investigators, pc[i] \in Processing
    PROVE  cur[i] \in Receipts /\ cur[i].alert \in Alerts /\ cur[i].n \in Nat
           /\ cur[i].n <= receives[cur[i].alert]
  BY DEF Inv, TypeOK, Receipts, ReceiptsOK

LEMMA ReceiveStep ==
    ASSUME Inv, NEW i \in Investigators, NEW a \in Alerts, Receive(i, a)
    PROVE  Inv'
  <1> DEFINE r0 == [alert |-> a, n |-> receives[a] + 1]
  <1>1. TypeOK /\ PhasesOK /\ ReceiptsOK /\ ReportsAccounted /\ NoLostInvestigation
        /\ LowConfidenceEarned
    BY DEF Inv
  <1>2. /\ pc[i] = "poll" /\ HandOut(a)
        /\ cur' = [cur EXCEPT ![i] = r0] /\ pc' = [pc EXCEPT ![i] = "receive_alert"]
        /\ UNCHANGED <<gone, state, rows, posted, failed, restarts>>
    BY DEF Receive
  <1>3. /\ receives[a] + 1 \in 1..MaxReceive /\ r0 \in Receipts
        /\ receives' \in [Alerts -> 0..MaxReceive]
        /\ queue' \in [Alerts -> {"unsent", "visible", "inflight", "deleted", "dlq"}]
        /\ \A b \in Alerts : receives[b] <= receives'[b] /\ receives[b] \in Nat
                             /\ receives'[b] \in Nat
                             /\ (queue'[b] = "deleted" => queue[b] = "deleted")
        /\ receives'[a] = receives[a] + 1
    BY <1>2, HandOutFacts
  <1>4. r0.alert = a /\ r0.n = receives[a] + 1 /\ r0 # NoReceipt
    BY <1>3 DEF Receipts
  <1> HIDE DEF r0
  <1>5. /\ pc'[i] = "receive_alert" /\ cur'[i] = r0
        /\ \A j \in Investigators \ {i} : pc'[j] = pc[j] /\ cur'[j] = cur[j]
    BY <1>1, <1>2 DEF TypeOK
  <1>6. \A r \in rows : r.receipt # r0
    BY <1>3, <1>4, RowsHandedOut
  <1>7. \A j \in Investigators : pc[j] \in Processing => cur[j] # r0
    BY <1>3, <1>4, HeldHandedOut
  <1>8. TypeOK'
    <2>1. /\ pc' \in [Investigators -> {"poll", "stopped"} \cup Processing]
          /\ cur' \in [Investigators -> Receipts \cup {NoReceipt}]
      BY <1>1, <1>2, <1>3 DEF TypeOK, Processing
    <2>2. \A j \in Investigators : pc'[j] \in Processing <=> cur'[j] # NoReceipt
      BY <1>1, <1>4, <1>5 DEF TypeOK, Processing
    <2> QED BY <1>1, <1>2, <1>3, <2>1, <2>2 DEF TypeOK
  <1>9. PhasesOK'
    <2>1. Phase("receive_alert", state[i], r0)
      BY <1>1, <1>2 DEF PhasesOK, Phase, Idle, Processing, InitialState
    <2> QED BY <1>1, <1>2, <1>5, <2>1 DEF PhasesOK, Phase
  <1>10. ReceiptsOK'
    <2>1. \A j \in Investigators : pc'[j] \in Processing => cur'[j].n <= receives'[cur'[j].alert]
      <3> SUFFICES ASSUME NEW j \in Investigators, pc'[j] \in Processing
                   PROVE  cur'[j].n <= receives'[cur'[j].alert]
        OBVIOUS
      <3>1. CASE j = i
        BY <1>3, <1>4, <1>5, <3>1
      <3>2. CASE j # i
        <4>1. cur'[j] = cur[j] /\ cur[j].alert \in Alerts /\ cur[j].n \in Nat
              /\ cur[j].n <= receives[cur[j].alert]
          BY <1>5, <3>2, HeldHandedOut
        <4> QED BY <1>3, <4>1
      <3> QED BY <3>1, <3>2
    <2>2. \A j, k \in Investigators :
            pc'[j] \in Processing /\ pc'[k] \in Processing /\ cur'[j] = cur'[k] => j = k
      BY <1>1, <1>5, <1>7 DEF ReceiptsOK
    <2>3. \A j \in Investigators, r \in rows' : pc'[j] \in Graph => r.receipt # cur'[j]
      BY <1>1, <1>2, <1>5, <1>6 DEF ReceiptsOK
    <2> QED BY <2>1, <2>2, <2>3 DEF ReceiptsOK
  <1>11. NoLostInvestigation' /\ LowConfidenceEarned'
    BY <1>1, <1>2, <1>3 DEF NoLostInvestigation, LowConfidenceEarned
  <1>12. ReportsAccounted'
    <2>1. \A r \in rows' : r.receipt.alert \notin gone
                           /\ r.receipt.n <= receives'[r.receipt.alert]
      <3> SUFFICES ASSUME NEW r \in rows
                   PROVE  r.receipt.alert \notin gone /\ r.receipt.n <= receives'[r.receipt.alert]
        BY <1>2
      <3>1. r.receipt.alert \in Alerts /\ r.receipt.n \in Nat
            /\ r.receipt.n <= receives[r.receipt.alert]
        BY RowsHandedOut
      <3> QED BY <1>1, <1>3, <3>1 DEF ReportsAccounted
    <2>2. \A j \in Investigators : pc'[j] \in {"post", "delete"} => Report(j)' \in rows'
      BY <1>1, <1>2, <1>5 DEF ReportsAccounted, Report
    <2> QED BY <1>1, <1>2, <2>1, <2>2 DEF ReportsAccounted
  <1> QED BY <1>8, <1>9, <1>10, <1>11, <1>12 DEF Inv

LEMMA ReceiveLostStep ==
    ASSUME Inv, NEW i \in Investigators, NEW a \in Alerts, ReceiveLost(i, a)
    PROVE  Inv'
  <1>1. TypeOK /\ PhasesOK /\ ReceiptsOK /\ ReportsAccounted /\ NoLostInvestigation
        /\ LowConfidenceEarned
    BY DEF Inv
  <1>2. /\ HandOut(a) /\ failed' = failed \cup {[alert |-> a, n |-> receives[a] + 1]}
        /\ UNCHANGED <<gone, pc, cur, state, rows, posted, restarts>>
    BY DEF ReceiveLost
  <1>3. /\ [alert |-> a, n |-> receives[a] + 1] \in Receipts
        /\ receives' \in [Alerts -> 0..MaxReceive]
        /\ queue' \in [Alerts -> {"unsent", "visible", "inflight", "deleted", "dlq"}]
        /\ \A b \in Alerts : receives[b] <= receives'[b] /\ receives[b] \in Nat
                             /\ receives'[b] \in Nat
                             /\ (queue'[b] = "deleted" => queue[b] = "deleted")
    BY <1>2, HandOutFacts
  <1>4. TypeOK'
    BY <1>1, <1>2, <1>3 DEF TypeOK
  <1>5. PhasesOK' /\ LowConfidenceEarned' /\ NoLostInvestigation'
    BY <1>1, <1>2, <1>3 DEF PhasesOK, Phase, LowConfidenceEarned, NoLostInvestigation
  <1>6. \A j \in Investigators : pc'[j] \in Processing => cur'[j].n <= receives'[cur'[j].alert]
    <2> SUFFICES ASSUME NEW j \in Investigators, pc[j] \in Processing
                 PROVE  cur[j].n <= receives'[cur[j].alert]
      BY <1>2
    <2>1. cur[j].alert \in Alerts /\ cur[j].n \in Nat /\ cur[j].n <= receives[cur[j].alert]
      BY HeldHandedOut
    <2> QED BY <1>3, <2>1
  <1>7. ReceiptsOK'
    BY <1>1, <1>2, <1>6 DEF ReceiptsOK
  <1>8. \A r \in rows' : r.receipt.n <= receives'[r.receipt.alert]
    <2> SUFFICES ASSUME NEW r \in rows PROVE r.receipt.n <= receives'[r.receipt.alert]
      BY <1>2
    <2>1. r.receipt.alert \in Alerts /\ r.receipt.n \in Nat
          /\ r.receipt.n <= receives[r.receipt.alert]
      BY RowsHandedOut
    <2> QED BY <1>3, <2>1
  <1>9. ReportsAccounted'
    BY <1>1, <1>2, <1>8 DEF ReportsAccounted, Report
  <1> QED BY <1>4, <1>5, <1>7, <1>9 DEF Inv

(* Only the queue's bookkeeping or a process's idleness changes.           *)
LEMMA QueueStep ==
    ASSUME Inv, UNCHANGED <<gone, receives, pc, cur, state, rows, posted, failed, restarts>>,
           queue' \in [Alerts -> {"unsent", "visible", "inflight", "deleted", "dlq"}],
           \A a \in Alerts : queue'[a] = "deleted" => queue[a] = "deleted"
    PROVE  Inv'
  BY DEF Inv, TypeOK, NoLostInvestigation, LowConfidenceEarned, ReportsAccounted, Report,
         PhasesOK, Phase, ReceiptsOK

LEMMA DeliverStep ==
    ASSUME Inv, NEW i \in Investigators, Deliver(i)
    PROVE  Inv'
  <1>1. TypeOK /\ PhasesOK /\ ReceiptsOK /\ ReportsAccounted /\ NoLostInvestigation
        /\ LowConfidenceEarned
    BY DEF Inv
  <1>2. /\ pc[i] = "deliver" /\ pc' = [pc EXCEPT ![i] = "post"]
        /\ rows' = rows \cup {Report(i)}
        /\ UNCHANGED <<gone, queue, receives, cur, state, posted, failed, restarts>>
    BY DEF Deliver, queueVars
  <1>3. /\ cur[i] \in Receipts /\ state[i] \in States /\ cur[i].alert \notin gone
        /\ Verified(state[i]) /\ cur[i].n <= receives[cur[i].alert]
        /\ \A r \in rows : r.receipt # cur[i]
    BY <1>1, <1>2 DEF TypeOK, PhasesOK, Phase, ReceiptsOK, Processing, Graph
  <1>4. pc'[i] = "post" /\ \A j \in Investigators \ {i} : pc'[j] = pc[j]
    BY <1>1, <1>2 DEF TypeOK
  <1>5. TypeOK'
    <2>1. rows' \subseteq [receipt : Receipts, report : States]
      BY <1>1, <1>2, <1>3 DEF TypeOK, Report
    <2>2. pc' \in [Investigators -> {"poll", "stopped"} \cup Processing]
      BY <1>1, <1>2 DEF TypeOK, Processing
    <2>3. \A j \in Investigators : pc'[j] \in Processing <=> cur'[j] # NoReceipt
      BY <1>1, <1>2, <1>4 DEF TypeOK, Processing
    <2> QED BY <1>1, <1>2, <2>1, <2>2, <2>3 DEF TypeOK
  <1>6. PhasesOK'
    <2>1. Phase("post", state[i], cur[i])
      BY <1>3 DEF Phase, Idle
    <2> QED BY <1>1, <1>2, <1>4, <2>1 DEF PhasesOK, Phase
  <1>7. ReceiptsOK'
    <2>1. \A j \in Investigators, r \in rows' : pc'[j] \in Graph => r.receipt # cur'[j]
      <3> SUFFICES ASSUME NEW j \in Investigators, NEW r \in rows', pc'[j] \in Graph
                   PROVE  r.receipt # cur[j]
        BY <1>2
      <3>1. j # i /\ pc[j] \in Graph /\ pc[j] \in Processing /\ pc[i] \in Processing
        BY <1>2, <1>4 DEF Graph, Processing
      <3> QED BY <1>1, <1>2, <3>1 DEF ReceiptsOK, Report
    <2> QED BY <1>1, <1>2, <1>4, <2>1 DEF ReceiptsOK, Processing
  <1>8. NoLostInvestigation' /\ LowConfidenceEarned'
    BY <1>1, <1>2, <1>3 DEF NoLostInvestigation, LowConfidenceEarned, Verified, Report
  <1>9. ReportsAccounted'
    <2>1. \A j \in Investigators : pc'[j] \in {"post", "delete"} => Report(j)' \in rows'
      BY <1>1, <1>2, <1>4 DEF ReportsAccounted, Report
    <2> QED BY <1>1, <1>2, <1>3, <2>1 DEF ReportsAccounted, Report
  <1> QED BY <1>5, <1>6, <1>7, <1>8, <1>9 DEF Inv

LEMMA PostStep ==
    ASSUME Inv, NEW i \in Investigators, PostToSlack(i)
    PROVE  Inv'
  <1>1. TypeOK /\ PhasesOK /\ ReceiptsOK /\ ReportsAccounted /\ NoLostInvestigation
        /\ LowConfidenceEarned
    BY DEF Inv
  <1>2. /\ pc[i] = "post" /\ pc' = [pc EXCEPT ![i] = "delete"]
        /\ posted' \in {posted, posted \cup {cur[i]}}
        /\ UNCHANGED <<gone, queue, receives, cur, state, rows, failed, restarts>>
    BY DEF PostToSlack, queueVars
  <1>3. cur[i] \in Receipts /\ Report(i) \in rows
    BY <1>1, <1>2 DEF TypeOK, ReportsAccounted, Processing
  <1>4. pc'[i] = "delete" /\ \A j \in Investigators \ {i} : pc'[j] = pc[j]
    BY <1>1, <1>2 DEF TypeOK
  <1>5. TypeOK'
    <2>1. pc' \in [Investigators -> {"poll", "stopped"} \cup Processing]
      BY <1>1, <1>2 DEF TypeOK, Processing
    <2>2. \A j \in Investigators : pc'[j] \in Processing <=> cur'[j] # NoReceipt
      BY <1>1, <1>2, <1>4 DEF TypeOK, Processing
    <2> QED BY <1>1, <1>2, <1>3, <2>1, <2>2 DEF TypeOK
  <1>6. PhasesOK'
    BY <1>1, <1>2, <1>4 DEF PhasesOK, Phase, Idle, Processing
  <1>7. ReceiptsOK'
    BY <1>1, <1>2, <1>4 DEF ReceiptsOK, Processing, Graph
  <1>8. NoLostInvestigation' /\ LowConfidenceEarned'
    BY <1>1, <1>2 DEF NoLostInvestigation, LowConfidenceEarned
  <1>9. ReportsAccounted'
    BY <1>1, <1>2, <1>3, <1>4 DEF ReportsAccounted, Report
  <1> QED BY <1>5, <1>6, <1>7, <1>8, <1>9 DEF Inv

(* The nodes that only hand on.                                            *)
LEMMA NodesStep ==
    ASSUME Inv, NEW i \in Investigators,
           \/ ReceiveAlert(i) \/ GatherContext(i) \/ Hypothesize(i)
           \/ Verify(i) \/ DraftPostmortem(i)
    PROVE  Inv'
  <1>1. TypeOK /\ PhasesOK BY DEF Inv
  <1>2. state[i] \in States /\ Phase(pc[i], state[i], cur[i])
    BY <1>1 DEF TypeOK, PhasesOK
  <1>3. CASE ReceiveAlert(i)
    <2> DEFINE s == [state[i] EXCEPT !.inference_meta =
                        cur[i].alert \notin gone /\ Kept("inference_meta")]
    <2>1. Node(i, "receive_alert", "gather_context") /\ state' = [state EXCEPT ![i] = s]
      BY <1>1, <1>3 DEF ReceiveAlert, TypeOK
    <2>2. pc[i] = "receive_alert"
      BY <2>1 DEF Node
    <2>3. s \in States
      BY <1>2 DEF States
    <2>4. s.verify_loops = 0 /\ s.cost_usd = 0 /\ s.calls = 0
      BY <1>2, <2>2 DEF Phase, States
    <2> HIDE DEF s
    <2>5. Phase("gather_context", s, cur[i])
      BY <2>4 DEF Phase, Idle
    <2> QED BY <2>1, <2>3, <2>5, GraphStep DEF Graph
  <1>4. CASE GatherContext(i)
    <2>1. /\ Node(i, "gather_context", "hypothesize") /\ cur[i].alert \notin gone
          /\ state' = [state EXCEPT ![i] = state[i]]
      BY <1>1, <1>4 DEF GatherContext, TypeOK
    <2>2. pc[i] = "gather_context"
      BY <2>1 DEF Node
    <2>3. Phase("hypothesize", state[i], cur[i])
      BY <1>2, <2>1, <2>2 DEF Phase, Idle
    <2> QED BY <1>2, <2>1, <2>3, GraphStep DEF Graph
  <1>5. CASE Hypothesize(i)
    <2>1. PICK answer \in Confidences :
            state' = [state EXCEPT ![i].top = answer, ![i].cost_usd = @ + 1, ![i].calls = @ + 1,
                                   ![i].llm_response = Kept("llm_response")]
      BY <1>5 DEF Hypothesize
    <2> DEFINE s == [state[i] EXCEPT !.top = answer, !.cost_usd = @ + 1, !.calls = @ + 1,
                                     !.llm_response = Kept("llm_response")]
    <2>2. state' = [state EXCEPT ![i] = s] /\ state'[i] = s
      BY <1>1, <2>1 DEF TypeOK
    <2>3. Node(i, "hypothesize", RouteAfterHypothesize(s))
      BY <1>5, <2>2 DEF Hypothesize
    <2>4. pc[i] = "hypothesize"
      BY <2>3 DEF Node
    <2>5. /\ state[i].cost_usd = state[i].verify_loops /\ state[i].calls = state[i].verify_loops
          /\ state[i].verify_loops \in 0..MaxLoops /\ cur[i].alert \notin gone
      BY <1>2, <2>4 DEF Phase, States, Processing
    <2>6. s \in States
      <3>1. Kept("llm_response") \in BOOLEAN
        BY DEF Kept
      <3>2. state[i].cost_usd + 1 \in 0..MaxLoops + 1 /\ state[i].calls + 1 \in 0..MaxLoops + 2
        BY <1>2, <2>5 DEF States
      <3> QED BY <1>2, <3>1, <3>2 DEF States
    <2>7. /\ s.cost_usd = s.verify_loops + 1 /\ s.calls = s.cost_usd
          /\ s.verify_loops \in 0..MaxLoops
      BY <1>2, <2>5 DEF States
    <2> HIDE DEF s
    <2>8. CASE s.top = "low" /\ s.verify_loops < MaxLoops
      <3>1. RouteAfterHypothesize(s) = "verify"
        BY <2>8 DEF RouteAfterHypothesize
      <3>2. Phase("verify", s, cur[i])
        BY <2>5, <2>7, <2>8 DEF Phase, Idle
      <3>3. Node(i, "hypothesize", "verify")
        BY <2>3, <3>1
      <3> QED BY <2>2, <2>6, <3>2, <3>3, GraphStep DEF Graph
    <2>9. CASE ~(s.top = "low" /\ s.verify_loops < MaxLoops)
      <3>1. RouteAfterHypothesize(s) = "draft_postmortem"
        BY <2>9 DEF RouteAfterHypothesize
      <3>2. Phase("draft_postmortem", s, cur[i])
        BY <2>5, <2>7, <2>9 DEF Phase, Idle
      <3>3. Node(i, "hypothesize", "draft_postmortem")
        BY <2>3, <3>1
      <3> QED BY <2>2, <2>6, <3>2, <3>3, GraphStep DEF Graph
    <2> QED BY <2>8, <2>9
  <1>6. CASE Verify(i)
    <2> DEFINE s == [state[i] EXCEPT !.verify_loops = @ + 1]
    <2>1. Node(i, "verify", "hypothesize") /\ state' = [state EXCEPT ![i] = s]
      BY <1>1, <1>6 DEF Verify, TypeOK
    <2>2. pc[i] = "verify"
      BY <2>1 DEF Node
    <2>3. /\ state[i].verify_loops \in 0..MaxLoops /\ state[i].verify_loops < MaxLoops
          /\ state[i].cost_usd = state[i].verify_loops + 1 /\ state[i].calls = state[i].cost_usd
          /\ cur[i].alert \notin gone
      BY <1>2, <2>2 DEF Phase, States, Processing
    <2>4. s \in States
      BY <1>2, <2>3 DEF States
    <2>5. s.cost_usd = s.verify_loops /\ s.calls = s.verify_loops
      BY <1>2, <2>3 DEF States
    <2> HIDE DEF s
    <2>6. Phase("hypothesize", s, cur[i])
      BY <2>3, <2>5 DEF Phase, Idle
    <2> QED BY <2>1, <2>4, <2>6, GraphStep DEF Graph
  <1>7. CASE DraftPostmortem(i)
    <2> DEFINE s == [state[i] EXCEPT !.calls = IF state[i].llm_response THEN @ ELSE @ + 1]
    <2>1. Node(i, "draft_postmortem", "deliver") /\ state' = [state EXCEPT ![i] = s]
      BY <1>1, <1>7 DEF DraftPostmortem, TypeOK
    <2>2. pc[i] = "draft_postmortem"
      BY <2>1 DEF Node
    <2>3. /\ state[i].verify_loops \in 0..MaxLoops
          /\ state[i].top = "low" => state[i].verify_loops = MaxLoops
          /\ state[i].cost_usd = state[i].verify_loops + 1 /\ state[i].calls = state[i].cost_usd
          /\ cur[i].alert \notin gone
      BY <1>2, <2>2 DEF Phase, States, Processing
    <2>4. s \in States
      BY <1>2, <2>3 DEF States
    <2>5. /\ s.top = state[i].top /\ s.verify_loops = state[i].verify_loops
          /\ s.cost_usd = state[i].cost_usd
          /\ s.calls \in {state[i].calls, state[i].calls + 1}
      BY <1>2 DEF States
    <2> HIDE DEF s
    <2>6. Verified(s)
      BY <2>3, <2>5 DEF Verified
    <2>7. Phase("deliver", s, cur[i])
      BY <2>3, <2>6 DEF Phase, Idle
    <2> QED BY <2>1, <2>4, <2>7, GraphStep DEF Graph
  <1> QED BY <1>3, <1>4, <1>5, <1>6, <1>7

LEMMA ClosingSteps ==
    ASSUME Inv, NEW i \in Investigators,
           Delete(i) \/ Fail(i) \/ DeliverUnconfirmed(i) \/ Crash(i)
    PROVE  Inv'
  <1>1. TypeOK /\ ReportsAccounted BY DEF Inv
  <1>2. pc[i] \in Processing => cur[i] \in Receipts /\ cur[i].alert \in Alerts
    BY <1>1 DEF TypeOK, Receipts
  <1>3. CASE Delete(i)
    <2>1. /\ pc[i] = "delete" /\ Close(i) /\ pc' = [pc EXCEPT ![i] = "poll"]
          /\ UNCHANGED <<gone, receives, rows, posted, failed, restarts>>
          /\ queue' \in {queue, [queue EXCEPT ![cur[i].alert] = "deleted"]}
      BY <1>3 DEF Delete
    <2>2. Report(i) \in rows
      BY <1>1, <2>1 DEF ReportsAccounted
    <2>3. \A a \in Alerts : queue'[a] = "deleted" =>
            queue[a] = "deleted" \/ \E r \in rows : r.receipt.alert = a
      BY <1>1, <2>1, <2>2 DEF TypeOK, Report
    <2>4. queue' \in [Alerts -> {"unsent", "visible", "inflight", "deleted", "dlq"}]
      BY <1>1, <2>1 DEF TypeOK
    <2>5. failed' \subseteq Receipts /\ restarts' \in 0..MaxRestarts /\ pc[i] \in Processing
      BY <1>1, <2>1 DEF TypeOK, Processing
    <2> QED BY <2>1, <2>3, <2>4, <2>5, CloseStep DEF Idle
  <1>4. CASE Fail(i)
    <2>1. /\ pc[i] \in Processing /\ Close(i) /\ pc' = [pc EXCEPT ![i] = "poll"]
          /\ failed' = failed \cup {cur[i]}
          /\ UNCHANGED <<gone, queue, receives, rows, posted, restarts>>
      BY <1>4 DEF Fail, queueVars
    <2>2. failed' \subseteq Receipts /\ restarts' \in 0..MaxRestarts
          /\ queue' \in [Alerts -> {"unsent", "visible", "inflight", "deleted", "dlq"}]
      BY <1>1, <1>2, <2>1 DEF TypeOK
    <2> QED BY <2>1, <2>2, CloseStep DEF Idle
  <1>5. CASE DeliverUnconfirmed(i)
    <2>1. /\ pc[i] = "deliver" /\ Close(i) /\ pc' = [pc EXCEPT ![i] = "poll"]
          /\ rows' = rows \cup {Report(i)}
          /\ failed' = failed \cup {cur[i]}
          /\ UNCHANGED <<gone, queue, receives, posted, restarts>>
      BY <1>5 DEF DeliverUnconfirmed, queueVars
    <2>2. failed' \subseteq Receipts /\ restarts' \in 0..MaxRestarts /\ pc[i] \in Processing
          /\ queue' \in [Alerts -> {"unsent", "visible", "inflight", "deleted", "dlq"}]
      BY <1>1, <1>2, <2>1 DEF TypeOK, Processing
    <2> QED BY <2>1, <2>2, CloseStep DEF Idle
  <1>6. CASE Crash(i)
    <2>1. /\ Close(i) /\ pc' = [pc EXCEPT ![i] = "stopped"]
          /\ restarts < MaxRestarts /\ restarts' = restarts + 1
          /\ failed' \subseteq failed \cup (IF pc[i] \in Processing THEN {cur[i]} ELSE {})
          /\ UNCHANGED <<gone, queue, receives, rows, posted>>
      BY <1>6 DEF Crash, queueVars
    <2>2. failed' \subseteq Receipts /\ restarts' \in 0..MaxRestarts
          /\ queue' \in [Alerts -> {"unsent", "visible", "inflight", "deleted", "dlq"}]
      BY <1>1, <1>2, <2>1 DEF TypeOK
    <2>3. pc[i] \in Processing \cup Idle
      BY <1>1 DEF TypeOK, Idle
    <2> QED BY <2>1, <2>2, <2>3, CloseStep DEF Idle
  <1> QED BY <1>3, <1>4, <1>5, <1>6

(* Stop and Start: an idle process stays idle.                             *)
LEMMA IdleStep ==
    ASSUME Inv, NEW i \in Investigators, Stop(i) \/ Start(i)
    PROVE  Inv'
  <1>1. TypeOK /\ PhasesOK /\ ReceiptsOK /\ ReportsAccounted /\ NoLostInvestigation
        /\ LowConfidenceEarned
    BY DEF Inv
  <1>2. PICK q \in Idle : pc' = [pc EXCEPT ![i] = q]
    BY DEF Stop, Start, Idle
  <1>3. /\ pc[i] \in Idle /\ restarts' \in 0..MaxRestarts
        /\ UNCHANGED <<gone, queue, receives, cur, state, rows, posted, failed>>
    BY <1>1 DEF Stop, Start, Idle, queueVars, TypeOK
  <1>4. pc'[i] = q /\ \A j \in Investigators \ {i} : pc'[j] = pc[j]
    BY <1>1, <1>2 DEF TypeOK
  <1>5. q \notin Processing /\ q \notin Graph /\ pc[i] \notin Processing
    BY <1>3 DEF Idle, Processing, Graph
  <1>6. TypeOK'
    <2>1. pc' \in [Investigators -> {"poll", "stopped"} \cup Processing]
      BY <1>1, <1>2 DEF TypeOK, Idle
    <2>2. \A j \in Investigators : pc'[j] \in Processing <=> cur'[j] # NoReceipt
      BY <1>1, <1>3, <1>4, <1>5 DEF TypeOK
    <2> QED BY <1>1, <1>3, <2>1, <2>2 DEF TypeOK
  <1>7. PhasesOK'
    <2>1. Phase(q, state[i], cur[i])
      BY <1>1, <1>3, <1>5 DEF PhasesOK, Phase, Idle, Processing
    <2> QED BY <1>1, <1>3, <1>4, <2>1 DEF PhasesOK, Phase
  <1>8. ReceiptsOK'
    BY <1>1, <1>3, <1>4, <1>5 DEF ReceiptsOK
  <1>9. NoLostInvestigation' /\ LowConfidenceEarned'
    BY <1>1, <1>3 DEF NoLostInvestigation, LowConfidenceEarned
  <1>10. ReportsAccounted'
    BY <1>1, <1>3, <1>4, <1>5 DEF ReportsAccounted, Report, Processing
  <1> QED BY <1>6, <1>7, <1>8, <1>9, <1>10 DEF Inv

LEMMA InvStep == Inv /\ [Next]_vars => Inv'
  <1> SUFFICES ASSUME Inv, [Next]_vars PROVE Inv'
    OBVIOUS
  <1>1. TypeOK BY DEF Inv
  <1>2. CASE UNCHANGED vars
    BY <1>2 DEF vars, queueVars, Inv, TypeOK, NoLostInvestigation, LowConfidenceEarned,
                ReportsAccounted, Report, PhasesOK, Phase, ReceiptsOK
  <1>3. ASSUME NEW a \in Alerts, Publish(a) \/ VisibilityExpires(a) \/ Redrive(a)
        PROVE  Inv'
    <2>1. /\ queue' \in [Alerts -> {"unsent", "visible", "inflight", "deleted", "dlq"}]
          /\ \A b \in Alerts : queue'[b] = "deleted" => queue[b] = "deleted"
          /\ UNCHANGED <<gone, receives, pc, cur, state, rows, posted, failed, restarts>>
      BY <1>1, <1>3 DEF Publish, VisibilityExpires, Redrive, TypeOK
    <2> QED BY <2>1, QueueStep
  <1>4. ASSUME NEW i \in Investigators, Progress(i)
        PROVE  Inv'
    BY <1>4, ReceiveStep, NodesStep, ClosingSteps, DeliverStep, PostStep, IdleStep
       DEF Progress, AlertMissing
  <1>5. ASSUME NEW i \in Investigators, Disturbance(i)
        PROVE  Inv'
    BY <1>2, <1>5, ReceiveLostStep, ClosingSteps, IdleStep DEF Disturbance, ReceiveNothing
  <1> QED BY <1>2, <1>3, <1>4, <1>5 DEF Next

LEMMA InvAlways == Spec => []Inv
  BY InvInit, InvStep, PTL DEF Spec

(* The state stays well typed, for every number of processes and alerts;   *)
(* a receipt is held exactly while a message is worked on.                 *)
THEOREM InvestigatorTypeCorrect == Spec => []TypeOK
  BY InvAlways, PTL DEF Inv

(* No message leaves the queue without a stored investigation of its       *)
(* alert, whatever fails, crashes or is redelivered.                       *)
THEOREM InvestigationsSafe == Spec => []NoLostInvestigation
  BY InvAlways, PTL DEF Inv

(* A report of low confidence has used every verify loop, and no graph     *)
(* goes round more often.                                                  *)
THEOREM VerificationComplete == Spec => []LowConfidenceEarned
  BY InvAlways, PTL DEF Inv

(* Reports and Slack posts can be traced to one delivery of an existing    *)
(* alert each.                                                             *)
THEOREM ReportsSound == Spec => []ReportsAccounted
  BY InvAlways, PTL DEF Inv

-----------------------------------------------------------------------------
(* Runs end.                                                               *)

(* At most how many steps a process in state s at node p has to go before  *)
(* it polls again.                                                         *)
StepsLeft(p, s) ==
    LET loops == MaxLoops - s.verify_loops IN
    CASE p = "receive_alert" -> 2 * MaxLoops + 7
      [] p = "gather_context" -> 2 * MaxLoops + 6
      [] p = "hypothesize" -> 2 * loops + 5
      [] p = "verify" -> 2 * loops + 4
      [] p = "draft_postmortem" -> 4
      [] p = "deliver" -> 3
      [] p = "post" -> 2
      [] p = "delete" -> 1
      [] OTHER -> 0

StepsBounded ==
    \A i \in Investigators : StepsLeft(pc[i], state[i]) \in 0..2 * MaxLoops + 7
StepsFewer ==
    \A i \in Investigators :
        pc[i] \in Processing =>
            \/ StepsLeft(pc[i], state[i])' < StepsLeft(pc[i], state[i])
            \/ pc'[i] = pc[i] /\ state'[i] = state[i]

LEMMA StepsLeftAt ==
    ASSUME NEW p, NEW s
    PROVE  /\ p = "receive_alert" => StepsLeft(p, s) = 2 * MaxLoops + 7
           /\ p = "gather_context" => StepsLeft(p, s) = 2 * MaxLoops + 6
           /\ p = "hypothesize" => StepsLeft(p, s) = 2 * (MaxLoops - s.verify_loops) + 5
           /\ p = "verify" => StepsLeft(p, s) = 2 * (MaxLoops - s.verify_loops) + 4
           /\ p = "draft_postmortem" => StepsLeft(p, s) = 4
           /\ p = "deliver" => StepsLeft(p, s) = 3
           /\ p = "post" => StepsLeft(p, s) = 2
           /\ p = "delete" => StepsLeft(p, s) = 1
           /\ p \in Idle => StepsLeft(p, s) = 0
  BY DEF StepsLeft, Idle

LEMMA StepsLeftBounded == Inv => StepsBounded
  <1> SUFFICES ASSUME Inv, NEW i \in Investigators
               PROVE  StepsLeft(pc[i], state[i]) \in 0..2 * MaxLoops + 7
    BY DEF StepsBounded
  <1>1. state[i].verify_loops \in 0..MaxLoops /\ pc[i] \in Processing \cup Idle
    BY DEF Inv, TypeOK, States, Idle
  <1> QED BY <1>1, StepsLeftAt DEF Processing

(* Nobody but i moves it on, and whatever it does leaves it fewer steps.   *)
LEMMA StepsLeftStep ==
    ASSUME Inv, [Next]_vars, NEW i \in Investigators, pc[i] \in Processing,
           ~(pc'[i] = pc[i] /\ state'[i] = state[i])
    PROVE  StepsLeft(pc'[i], state'[i]) < StepsLeft(pc[i], state[i])
  <1>1. /\ pc \in [Investigators -> {"poll", "stopped"} \cup Processing]
        /\ state \in [Investigators -> States]
    BY DEF Inv, TypeOK
  <1>2. state[i].verify_loops \in 0..MaxLoops
    BY <1>1 DEF States
  <1>3. Progress(i) \/ Disturbance(i)
    <2>1. ASSUME NEW j \in Investigators, j # i, Progress(j) \/ Disturbance(j)
          PROVE  pc'[i] = pc[i] /\ state'[i] = state[i]
      BY <1>1, <2>1 DEF Progress, Disturbance, Receive, ReceiveAlert, GatherContext, AlertMissing,
         Hypothesize, Verify, DraftPostmortem, Deliver, PostToSlack, Delete, Start, ReceiveLost,
         ReceiveNothing, Fail, DeliverUnconfirmed, Crash, Stop, Node, Close, vars
    <2>2. ASSUME NEW a \in Alerts, Publish(a) \/ VisibilityExpires(a) \/ Redrive(a)
          PROVE  pc'[i] = pc[i] /\ state'[i] = state[i]
      BY <2>2 DEF Publish, VisibilityExpires, Redrive
    <2> QED BY <2>1, <2>2 DEF Next, vars
  <1>4. ASSUME pc'[i] \in Idle
        PROVE  StepsLeft(pc'[i], state'[i]) < StepsLeft(pc[i], state[i])
    <2>1. StepsLeft(pc'[i], state'[i]) = 0
      BY <1>4, StepsLeftAt
    <2>2. StepsLeft(pc[i], state[i]) > 0
      BY <1>2, StepsLeftAt DEF Processing
    <2> QED BY <2>1, <2>2
  <1>5. CASE Delete(i) \/ AlertMissing(i) \/ Fail(i) \/ DeliverUnconfirmed(i) \/ Crash(i)
    <2>1. pc'[i] \in Idle
      BY <1>1, <1>5 DEF Delete, AlertMissing, Fail, DeliverUnconfirmed, Crash, Idle
    <2> QED BY <1>4, <2>1
  <1>6. CASE ReceiveAlert(i)
    <2>1. pc[i] = "receive_alert" /\ pc'[i] = "gather_context"
      BY <1>1, <1>6 DEF ReceiveAlert, Node
    <2> QED BY <2>1, StepsLeftAt
  <1>7. CASE GatherContext(i)
    <2>1. pc[i] = "gather_context" /\ pc'[i] = "hypothesize" /\ state'[i] = state[i]
      BY <1>1, <1>7 DEF GatherContext, Node
    <2> QED BY <1>2, <2>1, StepsLeftAt
  <1>8. CASE Hypothesize(i)
    <2>1. /\ pc[i] = "hypothesize" /\ pc'[i] \in {"verify", "draft_postmortem"}
          /\ state'[i].verify_loops = state[i].verify_loops
      BY <1>1, <1>8 DEF Hypothesize, Node, RouteAfterHypothesize, States
    <2> QED BY <1>2, <2>1, StepsLeftAt
  <1>9. CASE Verify(i)
    <2>1. /\ pc[i] = "verify" /\ pc'[i] = "hypothesize"
          /\ state'[i].verify_loops = state[i].verify_loops + 1
      BY <1>1, <1>9 DEF Verify, Node, States
    <2> QED BY <1>2, <2>1, StepsLeftAt
  <1>10. CASE DraftPostmortem(i)
    <2>1. pc[i] = "draft_postmortem" /\ pc'[i] = "deliver"
      BY <1>1, <1>10 DEF DraftPostmortem, Node
    <2> QED BY <2>1, StepsLeftAt
  <1>11. CASE Deliver(i)
    <2>1. pc[i] = "deliver" /\ pc'[i] = "post"
      BY <1>1, <1>11 DEF Deliver
    <2> QED BY <2>1, StepsLeftAt
  <1>12. CASE PostToSlack(i)
    <2>1. pc[i] = "post" /\ pc'[i] = "delete"
      BY <1>1, <1>12 DEF PostToSlack
    <2> QED BY <2>1, StepsLeftAt
  <1>13. pc[i] \notin Idle
    BY DEF Processing, Idle
  <1>14. ~Start(i) /\ ~Stop(i) /\ ~ReceiveNothing(i)
         /\ \A a \in Alerts : ~Receive(i, a) /\ ~ReceiveLost(i, a)
    BY <1>13 DEF Start, Stop, ReceiveNothing, Receive, ReceiveLost, Idle
  <1> QED BY <1>3, <1>5, <1>6, <1>7, <1>8, <1>9, <1>10, <1>11, <1>12, <1>14
          DEF Progress, Disturbance

(* A message takes a process a bounded number of steps, whatever the model *)
(* answers: no process has more than 2 * MaxLoops + 7 left, and each step  *)
(* it takes, a failure included, leaves it fewer.                          *)
THEOREM RunsEnd == Spec => []StepsBounded /\ [][StepsFewer]_vars
  <1>1. Inv /\ [Next]_vars => StepsFewer
    BY StepsLeftStep DEF StepsFewer
  <1> QED BY <1>1, InvAlways, StepsLeftBounded, PTL DEF Spec

-----------------------------------------------------------------------------
(* The implementation of ReportKept.                                       *)

Fates == [a \in Alerts |-> Fate(queue[a])]
promiseVars == <<gone, Fates, receives, rows, posted>>

LEMMA FateChanges ==
    ASSUME TypeOK, NEW a \in Alerts, NEW where, queue' = [queue EXCEPT ![a] = where]
    PROVE  Fates' = [Fates EXCEPT ![a] = Fate(where)]
  BY DEF Fates, TypeOK

(* What a process holds in hand, as ReportKept sees it.                    *)
LEMMA HeldReceipt ==
    ASSUME Inv, NEW i \in Investigators, pc[i] \in Processing
    PROVE  /\ cur[i].alert \in Alerts /\ cur[i].n \in 1..MaxReceive
           /\ cur[i].n \in 1..receives[cur[i].alert]
           /\ cur[i] = Promise!Receipt(cur[i].alert, cur[i].n)
  <1>1. cur[i] \in Receipts /\ cur[i].n <= receives[cur[i].alert]
    BY HeldHandedOut
  <1>2. receives[cur[i].alert] \in Nat
    BY <1>1 DEF Inv, TypeOK, Receipts
  <1> QED BY <1>1, <1>2 DEF Receipts, Promise!Receipt

LEMMA PromiseStep ==
    ASSUME Inv, [Next]_vars
    PROVE  [Promise!Next]_promiseVars
<1> USE DEF promiseVars
<1>1. TypeOK /\ PhasesOK /\ ReceiptsOK /\ ReportsAccounted
  BY DEF Inv
<1>2. ASSUME UNCHANGED <<gone, queue, receives, rows, posted>> PROVE UNCHANGED promiseVars
  BY <1>2 DEF Fates
<1>3. ASSUME NEW a \in Alerts, Publish(a) PROVE Promise!Next
  <2>1. Fates' = [Fates EXCEPT ![a] = "open"] /\ Fates[a] = "unsent"
    BY <1>1, <1>3, FateChanges DEF Publish, Fate, Fates
  <2>2. Promise!Publish(a)
    BY <1>3, <2>1 DEF Publish, Promise!Publish, Fates
  <2> QED BY <2>2 DEF Promise!Next, Promise!Publish
<1>4. ASSUME NEW a \in Alerts, VisibilityExpires(a) PROVE UNCHANGED promiseVars
  <2>1. Fates' = [Fates EXCEPT ![a] = "open"] /\ Fates[a] = "open"
    BY <1>1, <1>4, FateChanges DEF VisibilityExpires, Fate, Fates
  <2>2. Fates' = Fates
    BY <2>1 DEF Fates
  <2> QED BY <1>4, <2>2 DEF VisibilityExpires
<1>5. ASSUME NEW a \in Alerts, Redrive(a) PROVE Promise!Next
  <2>1. Fates' = [Fates EXCEPT ![a] = "dead"] /\ Fates[a] = "open"
    BY <1>1, <1>5, FateChanges DEF Redrive, Fate, Fates
  <2>2. Promise!PutAside(a)
    BY <1>5, <2>1 DEF Redrive, Promise!PutAside, Fates
  <2> QED BY <2>2 DEF Promise!Next, Promise!PutAside
<1>6. ASSUME NEW a \in Alerts, HandOut(a), UNCHANGED <<gone, rows, posted>>
      PROVE  Promise!Next
  <2>1. Fates' = [Fates EXCEPT ![a] = "open"] /\ Fates[a] = "open"
    BY <1>1, <1>6, FateChanges DEF HandOut, Fate, Fates
  <2>2. Fates' = Fates
    BY <2>1 DEF Fates
  <2>3. Promise!Deliver(a)
    BY <1>6, <2>1, <2>2 DEF HandOut, Promise!Deliver, Fates
  <2> QED BY <2>3 DEF Promise!Next, Promise!Deliver
<1>7. ASSUME NEW i \in Investigators, pc[i] = "deliver", rows' = rows \cup {Report(i)},
             UNCHANGED <<gone, queue, receives, posted>>
      PROVE  Promise!Next
  <2> DEFINE a == cur[i].alert  n == cur[i].n
  <2>1. /\ a \in Alerts /\ n \in 1..MaxReceive /\ n \in 1..receives[a]
        /\ cur[i] = Promise!Receipt(a, n)
    BY <1>7, HeldReceipt DEF Processing
  <2>2. a \notin gone /\ state[i] \in States /\ Verified(state[i])
    BY <1>1, <1>7 DEF TypeOK, PhasesOK, Phase, Processing
  <2>3. \A r \in rows : r.receipt # cur[i]
    BY <1>1, <1>7 DEF ReceiptsOK, Graph
  <2> HIDE DEF a, n
  <2>4. ~Promise!Stored(Promise!Receipt(a, n))
    BY <2>1, <2>3 DEF Promise!Stored
  <2>5. rows' = rows \cup {[receipt |-> Promise!Receipt(a, n), report |-> state[i]]}
    BY <1>7, <2>1 DEF Report
  <2>6. Fates' = Fates
    BY <1>7 DEF Fates
  <2>7. n <= receives[a]
    BY <1>1, <2>1 DEF TypeOK
  <2>8. Promise!Store(a, n)
    BY <1>7, <2>2, <2>4, <2>5, <2>6, <2>7 DEF Promise!Store, Fates
  <2> QED BY <2>1, <2>8 DEF Promise!Next, Promise!Store
<1>8. ASSUME NEW i \in Investigators, PostToSlack(i) PROVE [Promise!Next]_promiseVars
  <2> DEFINE a == cur[i].alert  n == cur[i].n
  <2>1. /\ a \in Alerts /\ n \in 1..MaxReceive /\ cur[i] = Promise!Receipt(a, n)
    BY <1>8, HeldReceipt DEF PostToSlack, Processing
  <2>2. /\ Report(i) \in rows /\ posted' \in {posted, posted \cup {cur[i]}}
        /\ UNCHANGED <<gone, queue, receives, rows>>
    BY <1>1, <1>8 DEF PostToSlack, ReportsAccounted, queueVars
  <2> HIDE DEF a, n
  <2>3. Fates' = Fates
    BY <2>2 DEF Fates
  <2>4. CASE posted' = posted
    BY <2>2, <2>3, <2>4
  <2>5. CASE posted' = posted \cup {cur[i]}
    <3>1. Promise!Stored(Promise!Receipt(a, n))
      BY <2>1, <2>2 DEF Promise!Stored, Report
    <3>2. Promise!Tell(a, n)
      BY <2>1, <2>2, <2>3, <2>5, <3>1 DEF Promise!Tell, Fates
    <3> QED BY <2>1, <3>2 DEF Promise!Next, Promise!Tell
  <2> QED BY <2>2, <2>4, <2>5
<1>9. ASSUME NEW i \in Investigators, Delete(i) PROVE [Promise!Next]_promiseVars
  <2> DEFINE a == cur[i].alert
  <2>1. /\ a \in Alerts /\ cur[i].n \in 1..receives[a]
        /\ cur[i] = Promise!Receipt(a, cur[i].n)
    BY <1>9, HeldReceipt DEF Delete, Processing
  <2>2. /\ Report(i) \in rows /\ UNCHANGED <<gone, receives, rows, posted>>
        /\ \/ queue[a] \in {"visible", "inflight"} /\ queue' = [queue EXCEPT ![a] = "deleted"]
           \/ UNCHANGED queue
    BY <1>1, <1>9 DEF Delete, ReportsAccounted
  <2> HIDE DEF a
  <2>3. CASE UNCHANGED queue
    BY <1>2, <2>2, <2>3
  <2>4. CASE queue[a] \in {"visible", "inflight"} /\ queue' = [queue EXCEPT ![a] = "deleted"]
    <3>1. Fates' = [Fates EXCEPT ![a] = "acknowledged"] /\ Fates[a] = "open"
      BY <1>1, <2>1, <2>4, FateChanges DEF Fate, Fates
    <3>2. Promise!Stored(Promise!Receipt(a, cur[i].n))
      BY <2>1, <2>2 DEF Promise!Stored, Report
    <3>3. Promise!Acknowledge(a)
      BY <2>1, <2>2, <3>1, <3>2 DEF Promise!Acknowledge, Fates
    <3> QED BY <2>1, <3>3 DEF Promise!Next, Promise!Acknowledge
  <2> QED BY <2>2, <2>3, <2>4
<1>10. ASSUME NEW i \in Investigators, Progress(i) PROVE [Promise!Next]_promiseVars
  <2>1. ASSUME \/ ReceiveAlert(i) \/ GatherContext(i) \/ AlertMissing(i) \/ Hypothesize(i)
               \/ Verify(i) \/ DraftPostmortem(i) \/ Start(i)
        PROVE  UNCHANGED <<gone, queue, receives, rows, posted>>
    BY <2>1 DEF ReceiveAlert, GatherContext, AlertMissing, Fail, Hypothesize, Verify,
                DraftPostmortem, Start, Node, queueVars
  <2>2. ASSUME NEW a \in Alerts, Receive(i, a) PROVE Promise!Next
    BY <1>6, <2>2 DEF Receive
  <2>3. ASSUME Deliver(i) PROVE Promise!Next
    BY <1>7, <2>3 DEF Deliver, queueVars
  <2> QED BY <1>2, <1>8, <1>9, <1>10, <2>1, <2>2, <2>3 DEF Progress
<1>11. ASSUME NEW i \in Investigators, Disturbance(i) PROVE [Promise!Next]_promiseVars
  <2>1. ASSUME ReceiveNothing(i) \/ Fail(i) \/ Crash(i) \/ Stop(i)
        PROVE  UNCHANGED <<gone, queue, receives, rows, posted>>
    BY <2>1 DEF ReceiveNothing, Fail, Crash, Stop, vars, queueVars
  <2>2. ASSUME NEW a \in Alerts, ReceiveLost(i, a) PROVE Promise!Next
    BY <1>6, <2>2 DEF ReceiveLost
  <2>3. ASSUME DeliverUnconfirmed(i) PROVE Promise!Next
    BY <1>7, <2>3 DEF DeliverUnconfirmed, queueVars
  <2> QED BY <1>2, <1>11, <2>1, <2>2, <2>3 DEF Disturbance
<1>12. CASE UNCHANGED vars
  BY <1>2, <1>12 DEF vars, queueVars
<1> QED BY <1>3, <1>4, <1>5, <1>10, <1>11, <1>12 DEF Next

(* The investigator implements ReportKept, for any number of processes,    *)
(* alerts and deliveries: reports are kept, one per delivery at most, and  *)
(* an alert is put aside only after its last delivery.                     *)
THEOREM InvestigatorImplementsReportKept == Spec => ImplementsReportKept
<1>1. Init => Promise!Init
  BY DEF Init, Promise!Init, Fate
<1>2. Inv /\ [Next]_vars => [Promise!Next]_promiseVars
  BY PromiseStep
<1> QED
  BY <1>1, <1>2, InvAlways, PTL
  DEF Spec, ImplementsReportKept, Promise!Spec, Promise!vars, promiseVars, Fates

=============================================================================
