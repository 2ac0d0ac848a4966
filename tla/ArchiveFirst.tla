---------------------------- MODULE ArchiveFirst ----------------------------
(***************************************************************************)
(* What the ingestion API promises about a call, whatever the number of    *)
(* processes, retries, failures and crashes: a record is archived before a *)
(* message refers to it, 202 is answered only once a message is queued, an *)
(* invalid record leaves nothing, and when a call is over, with an answer  *)
(* or without one, nothing more is done for it.                            *)
(***************************************************************************)
CONSTANTS
    Events, Requests, KeyOf,
    TooLarge, Invalid,  \* requests that are refused: 413, else 422
    Copies  \* what tells the copies of a message apart

VARIABLES
    posted,    \* the calls made so far: [event, req]
    open,      \* those in progress
    archived,  \* calls whose record is in the bucket
    queued,    \* copies of messages: [event, key, copy]
    answers    \* [event, status]

vars == <<posted, open, archived, queued, answers>>

Init == posted = {} /\ open = {} /\ archived = {} /\ queued = {} /\ answers = {}

Post(e, r) ==
    /\ \A p \in posted : p.event # e
    /\ posted' = posted \cup {[event |-> e, req |-> r]}
    /\ open' = open \cup {[event |-> e, req |-> r]}
    /\ UNCHANGED <<archived, queued, answers>>

Archive(c) ==
    /\ c.req \notin TooLarge \cup Invalid
    /\ archived' = archived \cup {c}
    /\ UNCHANGED <<posted, open, queued, answers>>

(* A message that may have been queued before is queued once more.         *)
Enqueue(c) ==
    /\ c \in archived
    /\ \E n \in Copies :
        /\ [event |-> c.event, key |-> KeyOf[c.req], copy |-> n] \notin queued
        /\ queued' = queued \cup {[event |-> c.event, key |-> KeyOf[c.req], copy |-> n]}
    /\ UNCHANGED <<posted, open, archived, answers>>

(* The call is over; an answer may not arrive.                             *)
Close(c, status) ==
    /\ open' = open \ {c}
    /\ answers' \in {answers, answers \cup {[event |-> c.event, status |-> status]}}
    /\ UNCHANGED <<posted, queued>>

Refuse(c) ==
    /\ \/ c.req \in TooLarge /\ Close(c, 413)
       \/ c.req \in Invalid \ TooLarge /\ Close(c, 422)
    /\ UNCHANGED archived

Accept(c) ==
    /\ \E m \in queued : m.event = c.event
    /\ Close(c, 202)
    /\ UNCHANGED archived

(* 500: nobody knows how far the call has come.                            *)
Fail(c) ==
    /\ c.req \notin TooLarge \cup Invalid
    /\ Close(c, 500)
    /\ archived' \in {archived, archived \cup {c}}

Abandon(c) ==
    /\ open' = open \ {c}
    /\ UNCHANGED <<posted, archived, queued, answers>>

Next ==
    \/ \E e \in Events, r \in Requests : Post(e, r)
    \/ \E c \in open : Archive(c) \/ Enqueue(c) \/ Refuse(c) \/ Accept(c) \/ Fail(c) \/ Abandon(c)

Spec == Init /\ [][Next]_vars
=============================================================================
