----------------------------- MODULE IngestApi ------------------------------
(***************************************************************************)
(* The ingestion API (src/apps/api/app): POST /events validates a record,  *)
(* gives it a fresh event_id, archives it to S3, sends the work message    *)
(* and answers 202.  ingest_event blocks its process from the validation   *)
(* to the answer, so a process serves one call at a time and concurrency   *)
(* is between processes.  Calls to AWS may fail with or without effect and *)
(* are retried by the client library, answers may be lost, processes die.  *)
(*                                                                         *)
(* A request is the content of one POST.  A client that got no answer, or  *)
(* an error, posts the same request again; nothing stops it from doing so  *)
(* after a success.                                                        *)
(***************************************************************************)
EXTENDS Integers

CONSTANTS
    Apis,         \* API processes
    Requests,     \* contents of a POST: headers and body
    TooLarge,     \* those whose body is longer than max_payload_bytes
    Invalid,      \* those refused by InferenceRecord
    Keys,         \* texts that may be an idempotency key
    Header,       \* the Idempotency-Key header of a request, or NoHeader
    NoHeader,     \* no header, or an empty one
    Texts,        \* what the code hashes
    Basis,        \* "request_id|model|timestamp" of a request: not unique to it
    Digest,       \* the hexdigest of a text, a key like any header may be
    Events,       \* event ids uuid4 may draw: one for each call
    NoCall,       \* what an idle process serves
    MaxAttempts,  \* max_attempts of the SQS client
    MaxCrashes    \* bound on crashes

Calls == [event : Events, req : Requests]

ASSUME RequestAssumption == TooLarge \subseteq Requests /\ Invalid \subseteq Requests
ASSUME KeyAssumption ==
    /\ Header \in [Requests -> Keys \cup {NoHeader}]
    /\ Basis \in [Requests -> Texts]
    /\ Digest \in [Texts -> Keys]
ASSUME NoCallAssumption == NoCall \notin Calls
ASSUME BoundAssumption == MaxAttempts \in Nat /\ MaxCrashes \in Nat

Statuses == {202, 413, 422, 500}

(* The body is measured before it is validated.                            *)
Refused == TooLarge \cup Invalid
Refusal(r) == IF r \in TooLarge THEN 413 ELSE 422

(* _derive_idempotency_key: the header as it is, else the digest.          *)
DeriveKey(r) == IF Header[r] # NoHeader THEN Header[r] ELSE Digest[Basis[r]]

VARIABLES
    posted,     \* the calls made so far: [event, req]
    step,       \* what each process does next
    call,       \* the call it serves
    tries,      \* attempts of the current send_message
    objects,    \* the raw-events bucket: [event, req]
    messages,   \* the work messages sent: [event, key, copy]
    replies,    \* the answers clients received: [event, status]
    crashes

vars == <<posted, step, call, tries, objects, messages, replies, crashes>>

Init ==
    /\ posted = {}
    /\ step = [a \in Apis |-> "idle"]
    /\ call = [a \in Apis |-> NoCall]
    /\ tries = [a \in Apis |-> 0]
    /\ objects = {}
    /\ messages = {}
    /\ replies = {}
    /\ crashes = 0

(* The call is over and its process free; the client may miss the answer.  *)
Release(a) ==
    /\ step' = [step EXCEPT ![a] = "idle"]
    /\ call' = [call EXCEPT ![a] = NoCall]
    /\ tries' = [tries EXCEPT ![a] = 0]

Answer(a, status) ==
    /\ replies' \in {replies, replies \cup {[event |-> call[a].event, status |-> status]}}
    /\ Release(a)

(* A client posts a request, for the first time or again.                  *)
Post(a, r) ==
    /\ step[a] = "idle"
    /\ \E e \in Events :
        /\ \A p \in posted : p.event # e
        /\ posted' = posted \cup {[event |-> e, req |-> r]}
        /\ call' = [call EXCEPT ![a] = [event |-> e, req |-> r]]
    /\ step' = [step EXCEPT ![a] = "validate"]
    /\ UNCHANGED <<tries, objects, messages, replies, crashes>>

(* Mutant: the raw body is archived before it is validated.                *)
RefuseStored(a) ==
    /\ step[a] = "validate" /\ call[a].req \in Refused
    /\ objects' = objects \cup {call[a]}
    /\ Answer(a, Refusal(call[a].req))
    /\ UNCHANGED <<posted, messages, crashes>>

Refuse(a) ==
    /\ step[a] = "validate" /\ call[a].req \in Refused
    /\ Answer(a, Refusal(call[a].req))
    /\ UNCHANGED <<posted, objects, messages, crashes>>

(* Mutant: the message is sent whether or not the object was written.      *)
StoreOrNot(a) ==
    /\ step[a] = "validate" /\ call[a].req \notin Refused
    /\ objects' \in {objects, objects \cup {call[a]}}
    /\ step' = [step EXCEPT ![a] = "send"]
    /\ UNCHANGED <<posted, call, tries, messages, replies, crashes>>

(* put_object under a key that contains the event_id: retries of the       *)
(* library write the same object.                                          *)
Store(a) ==
    /\ step[a] = "validate" /\ call[a].req \notin Refused
    /\ objects' = objects \cup {call[a]}
    /\ step' = [step EXCEPT ![a] = "send"]
    /\ UNCHANGED <<posted, call, tries, messages, replies, crashes>>

(* put_object raises, with the object written or not: 500.                 *)
StoreFails(a) ==
    /\ step[a] = "validate" /\ call[a].req \notin Refused
    /\ objects' \in {objects, objects \cup {call[a]}}
    /\ Answer(a, 500)
    /\ UNCHANGED <<posted, messages, crashes>>

Message(a) ==
    [event |-> call[a].event, key |-> DeriveKey(call[a].req), copy |-> tries[a] + 1]

(* Mutant: a send that was not confirmed is taken for one that was.        *)
SendAssumed(a) ==
    /\ step[a] = "send" /\ tries[a] < MaxAttempts
    /\ messages' \in {messages, messages \cup {Message(a)}}
    /\ step' = [step EXCEPT ![a] = "answer"]
    /\ UNCHANGED <<posted, call, tries, objects, replies, crashes>>

(* One attempt of send_message that SQS confirms.                          *)
Send(a) ==
    /\ step[a] = "send" /\ tries[a] < MaxAttempts
    /\ messages' = messages \cup {Message(a)}
    /\ step' = [step EXCEPT ![a] = "answer"]
    /\ UNCHANGED <<posted, call, tries, objects, replies, crashes>>

(* One attempt without confirmation: the library tries again, and the      *)
(* queue holds the message twice if the attempt had reached it.            *)
SendUnconfirmed(a) ==
    /\ step[a] = "send" /\ tries[a] < MaxAttempts
    /\ messages' \in {messages, messages \cup {Message(a)}}
    /\ tries' = [tries EXCEPT ![a] = @ + 1]
    /\ UNCHANGED <<posted, step, call, objects, replies, crashes>>

(* Mutant: 500 is answered, but the attempts go on.                        *)
SendFailsGoesOn(a) ==
    /\ step[a] = "send"
    /\ replies' \in {replies, replies \cup {[event |-> call[a].event, status |-> 500]}}
    /\ UNCHANGED <<posted, step, call, tries, objects, messages, crashes>>

(* send_message raises, at once or after its last attempt: 500.            *)
SendFails(a) ==
    /\ step[a] = "send"
    /\ Answer(a, 500)
    /\ UNCHANGED <<posted, objects, messages, crashes>>

Accept(a) ==
    /\ step[a] = "answer"
    /\ Answer(a, 202)
    /\ UNCHANGED <<posted, objects, messages, crashes>>

Crash(a) ==
    /\ step[a] # "idle" /\ crashes < MaxCrashes
    /\ crashes' = crashes + 1
    /\ Release(a)
    /\ UNCHANGED <<posted, objects, messages, replies>>

Next ==
    \E a \in Apis :
        \/ \E r \in Requests : Post(a, r)
        \/ Refuse(a)
        \/ Store(a)
        \/ StoreFails(a)
        \/ Send(a)
        \/ SendUnconfirmed(a)
        \/ SendFails(a)
        \/ Accept(a)
        \/ Crash(a)

Spec == Init /\ [][Next]_vars

-----------------------------------------------------------------------------
(* Properties.                                                             *)

(* Type correctness; only posted records are archived, and a busy process  *)
(* serves a call that was posted.                                          *)
TypeOK ==
    /\ posted \subseteq Calls
    /\ step \in [Apis -> {"idle", "validate", "send", "answer"}]
    /\ call \in [Apis -> Calls \cup {NoCall}]
    /\ tries \in [Apis -> 0..MaxAttempts]
    /\ objects \subseteq posted
    /\ messages \subseteq [event : Events, key : Keys, copy : 1..MaxAttempts]
    /\ replies \subseteq [event : Events, status : Statuses]
    /\ crashes \in 0..MaxCrashes
    /\ \A a \in Apis : step[a] = "idle" \/ call[a] \in posted

(* Every message in the queue, copies included, names an object that is in *)
(* the bucket, and its idempotency key is the one of the record the worker *)
(* will load: the payload is persisted before it is enqueued.              *)
MessageLoadable ==
    \A m \in messages :
        \E o \in objects : o.event = m.event /\ m.key = DeriveKey(o.req)

(* A client that got 202 for a call can rely on it: the message is queued. *)
AcceptedQueued ==
    \A r \in replies : r.status = 202 => \E m \in messages : m.event = r.event

(* A request refused as too large or invalid leaves nothing behind, and    *)
(* whoever gets an answer gets one answer.                                 *)
RefusedLeavesNothing ==
    /\ \A o \in objects : o.req \notin Refused
    /\ \A r \in replies : r.status \in {413, 422} =>
        /\ \A o \in objects : o.event # r.event
        /\ \A m \in messages : m.event # r.event
    /\ \A r, s \in replies : r.event = s.event => r = s

(* Whatever the processes do, what becomes of a call is what ArchiveFirst  *)
(* allows: in particular, nothing is stored, sent or answered for a call   *)
(* after its answer, or after the process that served it died.             *)
Promise == INSTANCE ArchiveFirst WITH
    KeyOf <- [r \in Requests |-> DeriveKey(r)], Copies <- 1..MaxAttempts,
    open <- {call[a] : a \in {b \in Apis : step[b] # "idle"}},
    archived <- objects, queued <- messages, answers <- replies
ImplementsArchiveFirst == Promise!Spec

=============================================================================
