----------------------------- MODULE ReportKept -----------------------------
(***************************************************************************)
(* What the investigator promises about published alerts, whatever the     *)
(* number of processes, deliveries, failures and crashes: a report is      *)
(* stored for good, at most once per delivery, with its verification done; *)
(* Slack is told only of stored reports; and an alert leaves the queue     *)
(* with a report of it, or is put aside after its last delivery.           *)
(***************************************************************************)
EXTENDS Naturals

CONSTANTS
    Alerts, MaxDeliveries,
    Reports  \* the states a graph may end in

VARIABLES
    missing,   \* alerts without a row
    fate,      \* of each message: "unsent", "open", "acknowledged" or "dead"
    delivered, \* how often it has been delivered
    reports,   \* the investigations: [receipt, report]
    told       \* receipts whose report was posted

vars == <<missing, fate, delivered, reports, told>>

Receipt(a, n) == [alert |-> a, n |-> n]
Stored(r) == \E s \in reports : s.receipt = r

Init ==
    /\ missing \subseteq Alerts
    /\ fate = [a \in Alerts |-> "unsent"]
    /\ delivered = [a \in Alerts |-> 0]
    /\ reports = {}
    /\ told = {}

Publish(a) ==
    /\ fate[a] = "unsent"
    /\ fate' = [fate EXCEPT ![a] = "open"]
    /\ UNCHANGED <<missing, delivered, reports, told>>

Deliver(a) ==
    /\ fate[a] = "open" /\ delivered[a] < MaxDeliveries
    /\ delivered' = [delivered EXCEPT ![a] = @ + 1]
    /\ UNCHANGED <<missing, fate, reports, told>>

(* A report may still come of a delivery that others have overtaken.       *)
Store(a, n) ==
    /\ a \notin missing
    /\ n <= delivered[a] /\ ~Stored(Receipt(a, n))
    /\ \E s \in Reports : reports' = reports \cup {[receipt |-> Receipt(a, n), report |-> s]}
    /\ UNCHANGED <<missing, fate, delivered, told>>

Tell(a, n) ==
    /\ Stored(Receipt(a, n))
    /\ told' = told \cup {Receipt(a, n)}
    /\ UNCHANGED <<missing, fate, delivered, reports>>

Acknowledge(a) ==
    /\ fate[a] = "open"
    /\ \E n \in 1..delivered[a] : Stored(Receipt(a, n))
    /\ fate' = [fate EXCEPT ![a] = "acknowledged"]
    /\ UNCHANGED <<missing, delivered, reports, told>>

PutAside(a) ==
    /\ fate[a] = "open" /\ delivered[a] = MaxDeliveries
    /\ fate' = [fate EXCEPT ![a] = "dead"]
    /\ UNCHANGED <<missing, delivered, reports, told>>

Next ==
    \E a \in Alerts :
        \/ Publish(a)
        \/ Deliver(a)
        \/ \E n \in 1..MaxDeliveries : Store(a, n) \/ Tell(a, n)
        \/ Acknowledge(a)
        \/ PutAside(a)

Spec == Init /\ [][Next]_vars
=============================================================================
