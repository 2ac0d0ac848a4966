----------------------------- MODULE IngestOnce -----------------------------
(***************************************************************************)
(* What the worker promises about accepted events, whatever the number of  *)
(* processes, deliveries, failures and crashes: per idempotency key one    *)
(* verdict is decided, once, by one of the messages that carry the key;    *)
(* a message is acknowledged only after its key is decided, and otherwise  *)
(* it can only be put aside in the dead-letter queue.                      *)
(***************************************************************************)
CONSTANTS Messages, Keys, KeyOf, Verdicts

VARIABLES
    fate,    \* of each message: "unsent", "open", "acknowledged" or "dead"
    outcome  \* of each key: {}, or the one deciding message and its verdict

Init ==
    /\ fate = [m \in Messages |-> "unsent"]
    /\ outcome = [k \in Keys |-> {}]

Accept(m) ==
    /\ fate[m] = "unsent"
    /\ fate' = [fate EXCEPT ![m] = "open"]
    /\ UNCHANGED outcome

(* The message need not be open any more: a worker may still process one   *)
(* that the queue has meanwhile deleted or put aside.                      *)
Decide(m, v) ==
    /\ fate[m] # "unsent"
    /\ outcome[KeyOf[m]] = {}
    /\ outcome' = [outcome EXCEPT ![KeyOf[m]] = {[by |-> m, verdict |-> v]}]
    /\ UNCHANGED fate

Acknowledge(m) ==
    /\ fate[m] = "open"
    /\ outcome[KeyOf[m]] # {}
    /\ fate' = [fate EXCEPT ![m] = "acknowledged"]
    /\ UNCHANGED outcome

PutAside(m) ==
    /\ fate[m] = "open"
    /\ fate' = [fate EXCEPT ![m] = "dead"]
    /\ UNCHANGED outcome

Next ==
    \E m \in Messages :
        \/ Accept(m)
        \/ \E v \in Verdicts : Decide(m, v)
        \/ Acknowledge(m)
        \/ PutAside(m)

Spec == Init /\ [][Next]_<<fate, outcome>>
=============================================================================
