-------------------------- MODULE IngestApiProofs ---------------------------
(***************************************************************************)
(* The safety of the ingestion API for any number of processes, calls,     *)
(* retries and crashes.  Sound is inductive: it adds to the properties     *)
(* what each process has already done for the call it serves.              *)
(***************************************************************************)
EXTENDS IngestApi, TLAPS

Busy(a) == step[a] # "idle"

(* Every call has its own event id and at most one process serves it.      *)
OwnEvents ==
    /\ \A p, q \in posted : p.event = q.event => p = q
    /\ \A a \in Apis : step[a] = "idle" <=> call[a] = NoCall
    /\ \A a, b \in Apis : Busy(a) /\ Busy(b) /\ call[a].event = call[b].event => a = b

(* How far each process has come.                                          *)
Progressed ==
    \A a \in Apis :
        /\ Busy(a) => \A r \in replies : r.event # call[a].event
        /\ step[a] = "validate" =>
               /\ call[a] \notin objects
               /\ \A m \in messages : m.event # call[a].event
        /\ step[a] \in {"send", "answer"} => call[a] \in objects
        /\ step[a] = "answer" => \E m \in messages : m.event = call[a].event

Sound ==
    /\ OwnEvents
    /\ Progressed
    /\ \A r \in replies : \E p \in posted : p.event = r.event
    /\ MessageLoadable
    /\ AcceptedQueued
    /\ RefusedLeavesNothing

LEMMA Released ==
    ASSUME TypeOK, NEW a \in Apis, Release(a)
    PROVE  /\ step' \in [Apis -> {"idle", "validate", "send", "answer"}]
           /\ call' \in [Apis -> Calls \cup {NoCall}]
           /\ tries' \in [Apis -> 0..MaxAttempts]
           /\ step'[a] = "idle" /\ call'[a] = NoCall
           /\ \A b \in Apis : b # a => step'[b] = step[b] /\ call'[b] = call[b]
BY BoundAssumption DEF TypeOK, Release

LEMMA MessageTyped ==
    ASSUME TypeOK, NEW a \in Apis, Busy(a), tries[a] < MaxAttempts
    PROVE  /\ Message(a) \in [event : Events, key : Keys, copy : 1..MaxAttempts]
           /\ Message(a).event = call[a].event
           /\ Message(a).key = DeriveKey(call[a].req)
<1>1. call[a] \in Calls
  BY DEF TypeOK, Busy
<1>2. call[a].event \in Events /\ call[a].req \in Requests
  BY <1>1 DEF Calls
<1>3. tries[a] + 1 \in 1..MaxAttempts
  BY BoundAssumption DEF TypeOK
<1>4. DeriveKey(call[a].req) \in Keys
  BY <1>2, KeyAssumption DEF DeriveKey
<1> QED BY <1>2, <1>3, <1>4 DEF Message

(* Type correctness.                                                       *)
THEOREM IngestApiTypeCorrect == Spec => []TypeOK
<1>1. Init => TypeOK
  BY BoundAssumption DEF Init, TypeOK
<1>2. TypeOK /\ [Next]_vars => TypeOK'
  <2> SUFFICES ASSUME TypeOK, [Next]_vars PROVE TypeOK'
    OBVIOUS
  <2>0. ASSUME NEW a \in Apis, Busy(a) PROVE call[a] \in posted /\ call[a].event \in Events
    BY <2>0 DEF TypeOK, Busy, Calls
  <2>1. ASSUME NEW a \in Apis, NEW r \in Requests, Post(a, r) PROVE TypeOK'
    <3>1. PICK e \in Events :
            /\ posted' = posted \cup {[event |-> e, req |-> r]}
            /\ call' = [call EXCEPT ![a] = [event |-> e, req |-> r]]
      BY <2>1 DEF Post
    <3>2. [event |-> e, req |-> r] \in Calls
      BY DEF Calls
    <3> QED BY <2>1, <3>1, <3>2 DEF Post, TypeOK
  <2>2. ASSUME NEW a \in Apis, NEW status \in Statuses, Busy(a), Answer(a, status),
               posted' = posted, objects' \subseteq objects \cup {call[a]},
               messages' = messages, crashes' = crashes
        PROVE  TypeOK'
    <3>1. [event |-> call[a].event, status |-> status] \in [event : Events, status : Statuses]
      BY <2>0, <2>2
    <3>2. replies' \subseteq [event : Events, status : Statuses]
      BY <2>2, <3>1 DEF Answer, TypeOK
    <3>3. Release(a)
      BY <2>2 DEF Answer
    <3> QED BY <2>0, <2>2, <3>2, <3>3, Released DEF TypeOK, Busy
  <2>3. ASSUME NEW a \in Apis, Refuse(a) PROVE TypeOK'
    BY <2>2, <2>3 DEF Refuse, Refusal, Busy, Statuses
  <2>4. ASSUME NEW a \in Apis, StoreFails(a) PROVE TypeOK'
    BY <2>2, <2>4 DEF StoreFails, Busy, Statuses
  <2>5. ASSUME NEW a \in Apis, SendFails(a) PROVE TypeOK'
    BY <2>2, <2>5 DEF SendFails, Busy, Statuses
  <2>6. ASSUME NEW a \in Apis, Accept(a) PROVE TypeOK'
    BY <2>2, <2>6 DEF Accept, Busy, Statuses
  <2>7. ASSUME NEW a \in Apis, Store(a) PROVE TypeOK'
    BY <2>0, <2>7 DEF Store, TypeOK, Busy
  <2>8. ASSUME NEW a \in Apis, Send(a) PROVE TypeOK'
    <3>1. Busy(a) /\ tries[a] < MaxAttempts
      BY <2>8 DEF Send, Busy
    <3> QED BY <2>8, <3>1, MessageTyped DEF Send, TypeOK
  <2>9. ASSUME NEW a \in Apis, SendUnconfirmed(a) PROVE TypeOK'
    <3>1. Busy(a) /\ tries[a] < MaxAttempts
      BY <2>9 DEF SendUnconfirmed, Busy
    <3>2. messages' \subseteq [event : Events, key : Keys, copy : 1..MaxAttempts]
      BY <2>9, <3>1, MessageTyped DEF SendUnconfirmed, TypeOK
    <3>3. tries' \in [Apis -> 0..MaxAttempts]
      BY <2>9, <3>1, BoundAssumption DEF SendUnconfirmed, TypeOK
    <3> QED BY <2>9, <3>2, <3>3 DEF SendUnconfirmed, TypeOK
  <2>10. ASSUME NEW a \in Apis, Crash(a) PROVE TypeOK'
    <3>1. crashes' \in 0..MaxCrashes
      BY <2>10, BoundAssumption DEF Crash, TypeOK
    <3> QED BY <2>10, <3>1, Released DEF Crash, TypeOK
  <2>11. CASE UNCHANGED vars
    BY <2>11 DEF vars, TypeOK
  <2> QED BY <2>1, <2>3, <2>4, <2>5, <2>6, <2>7, <2>8, <2>9, <2>10, <2>11 DEF Next
<1> QED BY <1>1, <1>2, PTL DEF Spec

-----------------------------------------------------------------------------

LEMMA SoundInit == Init => Sound
BY DEF Init, Sound, OwnEvents, Progressed, MessageLoadable, AcceptedQueued,
       RefusedLeavesNothing, Busy

(* The end of a call: nothing new is stored or sent, except that a failed  *)
(* put_object may have written the object; the answer, if the client gets  *)
(* it, says what is true of the call.                                      *)
LEMMA CallEnds ==
    ASSUME TypeOK, Sound, NEW a \in Apis, Busy(a), Release(a),
           UNCHANGED <<posted, messages>>,
           objects' \in {objects, objects \cup {call[a]}},
           objects' = objects \/ call[a].req \notin Refused,
           NEW status,
           replies' \in {replies, replies \cup {[event |-> call[a].event, status |-> status]}},
           replies' = replies \/
               /\ status = 202 => step[a] = "answer"
               /\ status \in {413, 422} => step[a] = "validate" /\ objects' = objects
    PROVE  Sound'
<1>1. call[a] \in posted
  BY DEF TypeOK, Busy
<1>2. \A r \in replies' : r \in replies \/ (r.event = call[a].event /\ r.status = status)
  OBVIOUS
<1>3. /\ step'[a] = "idle" /\ call'[a] = NoCall
      /\ \A b \in Apis : b # a => step'[b] = step[b] /\ call'[b] = call[b]
  BY Released
<1>4. \A b \in Apis : Busy(b)' => b # a /\ Busy(b) /\ call'[b] = call[b] /\ step'[b] = step[b]
  BY <1>3 DEF Busy
<1>5. \A b \in Apis : b # a /\ Busy(b) => call[b].event # call[a].event
  BY DEF Sound, OwnEvents
<1>6. OwnEvents'
  BY <1>3, <1>4 DEF Sound, OwnEvents, Busy
<1>7. Progressed'
  <2>1. ASSUME NEW b \in Apis, Busy(b)' PROVE \A r \in replies' : r.event # call'[b].event
    BY <1>2, <1>4, <1>5, <2>1 DEF Sound, Progressed
  <2>2. ASSUME NEW b \in Apis, step'[b] = "validate"
        PROVE call'[b] \notin objects' /\ \A m \in messages' : m.event # call'[b].event
    <3>1. b # a /\ Busy(b) /\ call'[b] = call[b] /\ step[b] = "validate"
      BY <1>4, <2>2 DEF Busy
    <3> QED BY <1>5, <3>1 DEF Sound, Progressed
  <2>3. ASSUME NEW b \in Apis, step'[b] \in {"send", "answer"} PROVE call'[b] \in objects'
    BY <1>4, <2>3 DEF Sound, Progressed, Busy
  <2>4. ASSUME NEW b \in Apis, step'[b] = "answer"
        PROVE \E m \in messages' : m.event = call'[b].event
    BY <1>4, <2>4 DEF Sound, Progressed, Busy
  <2> QED BY <2>1, <2>2, <2>3, <2>4 DEF Progressed
<1>8. \A r \in replies' : \E p \in posted' : p.event = r.event
  BY <1>1, <1>2 DEF Sound
<1>9. MessageLoadable'
  BY DEF Sound, MessageLoadable
<1>10. AcceptedQueued'
  BY <1>2 DEF Sound, AcceptedQueued, Progressed
<1>11. RefusedLeavesNothing'
  <2>1. \A o \in objects' : o.req \notin Refused
    BY DEF Sound, RefusedLeavesNothing
  <2>2. \A r \in replies : r.event # call[a].event
    BY DEF Sound, Progressed
  <2>3. ASSUME NEW r \in replies', r.status \in {413, 422}
        PROVE  /\ \A o \in objects' : o.event # r.event
               /\ \A m \in messages' : m.event # r.event
    <3>1. CASE r \in replies
      BY <2>2, <2>3, <3>1 DEF Sound, RefusedLeavesNothing
    <3>2. CASE r \notin replies
      <4>1. r.event = call[a].event /\ step[a] = "validate" /\ objects' = objects
        BY <1>2, <2>3, <3>2
      <4>2. call[a] \notin objects /\ \A m \in messages : m.event # call[a].event
        BY <4>1 DEF Sound, Progressed
      <4>3. \A o \in objects : o.event # call[a].event
        BY <1>1, <4>2 DEF Sound, OwnEvents, TypeOK
      <4> QED BY <4>1, <4>2, <4>3
    <3> QED BY <3>1, <3>2
  <2>4. \A r, s \in replies' : r.event = s.event => r = s
    BY <2>2 DEF Sound, RefusedLeavesNothing
  <2> QED BY <2>1, <2>3, <2>4 DEF RefusedLeavesNothing
<1> QED BY <1>6, <1>7, <1>8, <1>9, <1>10, <1>11 DEF Sound

(* A message of the call a process serves is one its worker can load.      *)
LEMMA MessageSent ==
    ASSUME TypeOK, Sound, NEW a \in Apis, step[a] = "send", tries[a] < MaxAttempts,
           messages' \in {messages, messages \cup {Message(a)}},
           UNCHANGED <<posted, call, objects, replies>>,
           \/ step' = step
           \/ Message(a) \in messages' /\ step' = [step EXCEPT ![a] = "answer"]
    PROVE  Sound'
<1>1. Busy(a) /\ call[a] \in objects
  BY DEF Busy, Sound, Progressed
<1>2. Message(a).event = call[a].event /\ Message(a).key = DeriveKey(call[a].req)
  BY <1>1, MessageTyped
<1>3. \A b \in Apis : step'[b] = step[b] \/ (b = a /\ step'[b] = "answer" /\ Message(a) \in messages')
  BY DEF TypeOK
<1>4. \A b \in Apis : Busy(b)' <=> Busy(b)
  BY <1>1, <1>3 DEF Busy
<1>5. OwnEvents'
  BY <1>4 DEF Sound, OwnEvents, Busy
<1>6. \A m \in messages' : m \in messages \/ m = Message(a)
  OBVIOUS
<1>7. \A b \in Apis : b # a /\ Busy(b) => call[b].event # call[a].event
  BY <1>1 DEF Sound, OwnEvents
<1>8. Progressed'
  <2>1. ASSUME NEW b \in Apis, step'[b] = "validate"
        PROVE call'[b] \notin objects' /\ \A m \in messages' : m.event # call'[b].event
    <3>1. b # a /\ Busy(b) /\ step[b] = "validate"
      BY <1>3, <2>1 DEF Busy
    <3> QED BY <1>2, <1>6, <1>7, <3>1 DEF Sound, Progressed
  <2>2. ASSUME NEW b \in Apis, step'[b] \in {"send", "answer"} PROVE call'[b] \in objects'
    BY <1>1, <1>3, <2>2 DEF Sound, Progressed
  <2>3. ASSUME NEW b \in Apis, step'[b] = "answer"
        PROVE \E m \in messages' : m.event = call'[b].event
    BY <1>2, <1>3, <2>3 DEF Sound, Progressed
  <2>4. \A b \in Apis : Busy(b)' => \A r \in replies' : r.event # call'[b].event
    BY <1>4 DEF Sound, Progressed
  <2> QED BY <2>1, <2>2, <2>3, <2>4 DEF Progressed
<1>9. MessageLoadable'
  BY <1>1, <1>2, <1>6 DEF Sound, MessageLoadable
<1>10. AcceptedQueued'
  BY DEF Sound, AcceptedQueued
<1>11. RefusedLeavesNothing'
  BY <1>1, <1>2, <1>6 DEF Sound, RefusedLeavesNothing
<1> QED BY <1>5, <1>8, <1>9, <1>10, <1>11 DEF Sound

LEMMA SoundStep == TypeOK /\ Sound /\ [Next]_vars => Sound'
<1> SUFFICES ASSUME TypeOK, Sound, [Next]_vars PROVE Sound'
  OBVIOUS
<1>1. ASSUME NEW a \in Apis, NEW r \in Requests, Post(a, r) PROVE Sound'
  <2>1. PICK e \in Events :
          /\ \A p \in posted : p.event # e
          /\ posted' = posted \cup {[event |-> e, req |-> r]}
          /\ call' = [call EXCEPT ![a] = [event |-> e, req |-> r]]
    BY <1>1 DEF Post
  <2> DEFINE c == [event |-> e, req |-> r]
  <2>2. c \in Calls /\ c.event = e
    BY DEF Calls
  <2>3. /\ step'[a] = "validate" /\ call'[a] = c
        /\ \A b \in Apis : b # a => step'[b] = step[b] /\ call'[b] = call[b]
        /\ UNCHANGED <<objects, messages, replies>>
        /\ posted' = posted \cup {c}
    BY <1>1, <2>1 DEF Post, TypeOK
  <2> HIDE DEF c
  <2>4. \A b \in Apis : Busy(b) => call[b] \in posted /\ call[b].event # e
    BY <2>1 DEF TypeOK, Busy
  <2>5. OwnEvents'
    <3>1. \A p, q \in posted' : p.event = q.event => p = q
      BY <2>1, <2>2, <2>3 DEF Sound, OwnEvents
    <3>2. \A b \in Apis : step'[b] = "idle" <=> call'[b] = NoCall
      BY <2>2, <2>3, NoCallAssumption DEF Sound, OwnEvents
    <3>3. \A b, d \in Apis : Busy(b)' /\ Busy(d)' /\ call'[b].event = call'[d].event => b = d
      BY <2>2, <2>3, <2>4 DEF Sound, OwnEvents, Busy
    <3> QED BY <3>1, <3>2, <3>3 DEF OwnEvents
  <2>6. /\ \A x \in replies : x.event # e
        /\ \A o \in objects : o.event # e
        /\ \A m \in messages : m.event # e
    BY <2>1 DEF Sound, MessageLoadable, TypeOK
  <2>7. Progressed'
    BY <2>2, <2>3, <2>6 DEF Sound, Progressed, Busy
  <2> QED BY <2>3, <2>5, <2>7 DEF Sound, MessageLoadable, AcceptedQueued, RefusedLeavesNothing
<1>2. ASSUME NEW a \in Apis, Refuse(a) PROVE Sound'
  BY <1>2, CallEnds DEF Refuse, Refusal, Answer, Busy
<1>3. ASSUME NEW a \in Apis, StoreFails(a) PROVE Sound'
  BY <1>3, CallEnds DEF StoreFails, Answer, Busy
<1>4. ASSUME NEW a \in Apis, SendFails(a) PROVE Sound'
  BY <1>4, CallEnds DEF SendFails, Answer, Busy
<1>5. ASSUME NEW a \in Apis, Accept(a) PROVE Sound'
  BY <1>5, CallEnds DEF Accept, Answer, Busy
<1>6. ASSUME NEW a \in Apis, Crash(a) PROVE Sound'
  BY <1>6, CallEnds DEF Crash, Busy
<1>7. ASSUME NEW a \in Apis, Store(a) PROVE Sound'
  <2>1. /\ step'[a] = "send" /\ \A b \in Apis : b # a => step'[b] = step[b]
        /\ UNCHANGED <<posted, call, messages, replies>>
        /\ objects' = objects \cup {call[a]}
        /\ step[a] = "validate" /\ call[a].req \notin Refused
    BY <1>7 DEF Store, TypeOK
  <2>2. OwnEvents'
    BY <2>1 DEF Sound, OwnEvents, Busy
  <2>3. \A b \in Apis : b # a /\ Busy(b) => call[b] # call[a]
    BY <2>1 DEF Sound, OwnEvents, Busy
  <2>4. Progressed'
    BY <2>1, <2>3 DEF Sound, Progressed, Busy
  <2>5. MessageLoadable' /\ AcceptedQueued'
    BY <2>1 DEF Sound, MessageLoadable, AcceptedQueued
  <2>6. RefusedLeavesNothing'
    BY <2>1 DEF Sound, RefusedLeavesNothing, Progressed, Busy
  <2> QED BY <2>1, <2>2, <2>4, <2>5, <2>6 DEF Sound
<1>8. ASSUME NEW a \in Apis, Send(a) PROVE Sound'
  BY <1>8, MessageSent DEF Send
<1>9. ASSUME NEW a \in Apis, SendUnconfirmed(a) PROVE Sound'
  BY <1>9, MessageSent DEF SendUnconfirmed
<1>10. CASE UNCHANGED vars
  BY <1>10 DEF vars, Sound, OwnEvents, Progressed, MessageLoadable, AcceptedQueued,
               RefusedLeavesNothing, Busy
<1> QED BY <1>1, <1>2, <1>3, <1>4, <1>5, <1>6, <1>7, <1>8, <1>9, <1>10 DEF Next

LEMMA SoundAlways == Spec => []Sound
  BY IngestApiTypeCorrect, SoundInit, SoundStep, PTL DEF Spec

(* No message is queued before its object is in the bucket: what           *)
(* ingest_event promises the worker.                                       *)
THEOREM IngestSafe == Spec => []MessageLoadable
<1>1. Sound => MessageLoadable
  BY DEF Sound
<1> QED BY <1>1, SoundAlways, PTL

(* A 202 is never given for an event that is not queued.                   *)
THEOREM AcceptedIsQueued == Spec => []AcceptedQueued
<1>1. Sound => AcceptedQueued
  BY DEF Sound
<1> QED BY <1>1, SoundAlways, PTL

(* A call that is refused leaves no object and no message.                 *)
THEOREM RefusedLeavesNoTrace == Spec => []RefusedLeavesNothing
<1>1. Sound => RefusedLeavesNothing
  BY DEF Sound
<1> QED BY <1>1, SoundAlways, PTL

-----------------------------------------------------------------------------
(* The implementation of ArchiveFirst.                                     *)

(* The calls in progress.                                                  *)
Open == {call[a] : a \in {b \in Apis : step[b] # "idle"}}

promiseVars == <<posted, Open, objects, messages, replies>>

LEMMA OpenIs ==
    ASSUME NEW a \in Apis, Busy(a)
    PROVE  call[a] \in Open
BY DEF Open, Busy

(* When a process is released, its call is closed and no other.            *)
LEMMA ReleasedOpen ==
    ASSUME TypeOK, Sound, NEW a \in Apis, Busy(a), Release(a)
    PROVE  Open' = Open \ {call[a]}
<1>1. /\ step'[a] = "idle"
      /\ \A b \in Apis : b # a => step'[b] = step[b] /\ call'[b] = call[b]
  BY Released
<1>2. \A b \in Apis : b # a /\ Busy(b) => call[b] # call[a]
  BY DEF Sound, OwnEvents
<1>3. ASSUME NEW c PROVE c \in Open' <=> c \in Open \ {call[a]}
  <2>1. c \in Open' <=> \E b \in Apis : b # a /\ step[b] # "idle" /\ c = call[b]
    BY <1>1 DEF Open
  <2>2. c \in Open <=> \E b \in Apis : step[b] # "idle" /\ c = call[b]
    BY DEF Open
  <2> QED BY <1>2, <2>1, <2>2 DEF Busy
<1> QED BY <1>3

(* A process that stays busy with its call keeps it open.                  *)
LEMMA StillOpen ==
    ASSUME TypeOK, NEW a \in Apis, Busy(a), call' = call, NEW s, s # "idle",
           step' = step \/ step' = [step EXCEPT ![a] = s]
    PROVE  Open' = Open
<1>1. \A b \in Apis : step'[b] # "idle" <=> step[b] # "idle"
  BY DEF TypeOK, Busy
<1> QED BY <1>1 DEF Open

LEMMA PromiseStep ==
    ASSUME TypeOK, Sound, [Next]_vars
    PROVE  [Promise!Next]_promiseVars
<1> USE DEF promiseVars
<1>1. ASSUME NEW a \in Apis, NEW r \in Requests, Post(a, r) PROVE Promise!Next
  <2>1. PICK e \in Events :
          /\ \A p \in posted : p.event # e
          /\ posted' = posted \cup {[event |-> e, req |-> r]}
          /\ call' = [call EXCEPT ![a] = [event |-> e, req |-> r]]
    BY <1>1 DEF Post
  <2> DEFINE c == [event |-> e, req |-> r]
  <2>2. /\ step[a] = "idle" /\ step'[a] = "validate" /\ call'[a] = c
        /\ \A b \in Apis : b # a => step'[b] = step[b] /\ call'[b] = call[b]
        /\ UNCHANGED <<objects, messages, replies>>
    BY <1>1, <2>1 DEF Post, TypeOK
  <2> HIDE DEF c
  <2>3. ASSUME NEW d PROVE d \in Open' <=> d \in Open \cup {c}
    <3>1. d \in Open' <=> \E b \in Apis : step'[b] # "idle" /\ d = call'[b]
      BY DEF Open
    <3>2. d \in Open <=> \E b \in Apis : step[b] # "idle" /\ d = call[b]
      BY DEF Open
    <3> QED BY <2>2, <3>1, <3>2
  <2>4. Open' = Open \cup {c}
    BY <2>3
  <2>5. Promise!Post(e, r)
    BY <2>1, <2>2, <2>4 DEF Promise!Post, Open, c
  <2> QED BY <2>5 DEF Promise!Next
<1>2. ASSUME NEW a \in Apis, NEW status, Busy(a), Answer(a, status),
             UNCHANGED <<posted, messages>>
      PROVE  Promise!Close(call[a], status)
  <2>1. Open' = Open \ {call[a]}
    BY <1>2, ReleasedOpen DEF Answer
  <2>2. replies' \in {replies, replies \cup {[event |-> call[a].event, status |-> status]}}
    BY <1>2 DEF Answer
  <2> QED BY <1>2, <2>1, <2>2 DEF Promise!Close, Open
<1>3. ASSUME NEW a \in Apis, Busy(a),
              Promise!Refuse(call[a]) \/ Promise!Accept(call[a]) \/ Promise!Fail(call[a])
       PROVE  Promise!Next
  <2>1. PICK c \in Open : c = call[a]
    BY <1>3, OpenIs
  <2>2. CASE Promise!Refuse(call[a])
    <3>1. Promise!Refuse(c)
      BY <2>1, <2>2 DEF Promise!Refuse, Promise!Close
    <3> QED BY <3>1 DEF Promise!Next, Open
  <2>3. CASE Promise!Accept(call[a])
    <3>1. Promise!Accept(c)
      BY <2>1, <2>3 DEF Promise!Accept, Promise!Close
    <3> QED BY <3>1 DEF Promise!Next, Open
  <2>4. CASE Promise!Fail(call[a])
    <3>1. Promise!Fail(c)
      BY <2>1, <2>4 DEF Promise!Fail, Promise!Close
    <3> QED BY <3>1 DEF Promise!Next, Open
  <2> QED BY <1>3, <2>2, <2>3, <2>4
<1>4. ASSUME NEW a \in Apis, Refuse(a) PROVE Promise!Next
  <2>1. /\ Busy(a) /\ call[a].req \in Refused /\ UNCHANGED objects
        /\ Answer(a, Refusal(call[a].req)) /\ UNCHANGED <<posted, messages>>
    BY <1>4 DEF Refuse, Busy
  <2>2. CASE call[a].req \in TooLarge
    <3>1. Answer(a, 413)
      BY <2>1, <2>2 DEF Refusal
    <3>2. Promise!Close(call[a], 413)
      BY <1>2, <2>1, <3>1
    <3> QED BY <1>3, <2>1, <2>2, <3>2 DEF Promise!Refuse
  <2>3. CASE call[a].req \in Invalid \ TooLarge
    <3>1. Answer(a, 422)
      BY <2>1, <2>3 DEF Refusal
    <3>2. Promise!Close(call[a], 422)
      BY <1>2, <2>1, <3>1
    <3> QED BY <1>3, <2>1, <2>3, <3>2 DEF Promise!Refuse
  <2> QED BY <2>1, <2>2, <2>3 DEF Refused
<1>5. ASSUME NEW a \in Apis, StoreFails(a) PROVE Promise!Next
  <2>1. Busy(a) /\ Promise!Close(call[a], 500)
    BY <1>2, <1>5 DEF StoreFails, Busy
  <2>2. Promise!Fail(call[a])
    BY <1>5, <2>1 DEF StoreFails, Refused, Promise!Fail
  <2> QED BY <1>3, <2>1, <2>2
<1>6. ASSUME NEW a \in Apis, SendFails(a) PROVE Promise!Next
  <2>1. call[a] \in objects
    BY <1>6 DEF SendFails, Sound, Progressed
  <2>2. call[a].req \notin Refused
    BY <2>1 DEF Sound, RefusedLeavesNothing
  <2>3. Busy(a) /\ Promise!Close(call[a], 500)
    BY <1>2, <1>6 DEF SendFails, Busy
  <2>4. Promise!Fail(call[a])
    BY <1>6, <2>2, <2>3 DEF SendFails, Refused, Promise!Fail
  <2> QED BY <1>3, <2>3, <2>4
<1>7. ASSUME NEW a \in Apis, Accept(a) PROVE Promise!Next
  <2>1. \E m \in messages : m.event = call[a].event
    BY <1>7 DEF Accept, Sound, Progressed
  <2>2. Busy(a) /\ Promise!Close(call[a], 202)
    BY <1>2, <1>7 DEF Accept, Busy
  <2>3. Promise!Accept(call[a])
    BY <1>7, <2>1, <2>2 DEF Accept, Promise!Accept
  <2> QED BY <1>3, <2>2, <2>3
<1>8. ASSUME NEW a \in Apis, Crash(a) PROVE Promise!Next
  <2>1. Busy(a) /\ Promise!Abandon(call[a])
    BY <1>8, ReleasedOpen DEF Crash, Busy, Promise!Abandon, Open
  <2> QED BY <2>1, OpenIs DEF Promise!Next, Promise!Abandon, Open
<1>9. ASSUME NEW a \in Apis, Store(a) PROVE Promise!Next
  <2>1. Busy(a) /\ Open' = Open
    BY <1>9, StillOpen DEF Store, Busy
  <2>2. Promise!Archive(call[a])
    BY <1>9, <2>1 DEF Store, Refused, Promise!Archive, Open
  <2> QED BY <2>1, <2>2, OpenIs DEF Promise!Next, Open
<1>10. ASSUME NEW a \in Apis, step[a] = "send", tries[a] < MaxAttempts, Open' = Open,
             messages' \in {messages, messages \cup {Message(a)}},
             UNCHANGED <<posted, objects, replies>>
      PROVE  [Promise!Next]_promiseVars
  <2> DEFINE c == call[a]  n == tries[a] + 1
  <2>1. Busy(a) /\ c \in objects /\ c \in Calls
    BY <1>10 DEF Busy, Sound, Progressed, TypeOK
  <2>2. n \in 1..MaxAttempts
    BY <1>10, BoundAssumption DEF TypeOK
  <2>3. Message(a) = [event |-> c.event, key |-> [r \in Requests |-> DeriveKey(r)][c.req],
                      copy |-> n]
    BY <2>1 DEF Message, Calls
  <2>4. CASE messages' = messages
    BY <1>10, <2>4
  <2>5. CASE messages' # messages
    <3>1. Message(a) \notin messages /\ messages' = messages \cup {Message(a)}
      BY <1>10, <2>5
    <3> HIDE DEF n
    <3>2. Promise!Enqueue(c)
      BY <1>10, <2>1, <2>2, <2>3, <3>1 DEF Promise!Enqueue, Open
    <3> QED BY <2>1, <3>2, OpenIs DEF Promise!Next, Open
  <2> QED BY <2>4, <2>5
<1>11. ASSUME NEW a \in Apis, Send(a) \/ SendUnconfirmed(a) PROVE [Promise!Next]_promiseVars
  <2>1. Open' = Open
    BY <1>11, StillOpen DEF Send, SendUnconfirmed, Busy
  <2> QED BY <1>10, <1>11, <2>1 DEF Send, SendUnconfirmed
<1>12. CASE UNCHANGED vars
  BY <1>12 DEF vars, Open
<1> QED BY <1>1, <1>4, <1>5, <1>6, <1>7, <1>8, <1>9, <1>11, <1>12 DEF Next

(* The API implements ArchiveFirst, for any number of processes, retries   *)
(* and crashes: for a call that is over nothing more is stored, sent or    *)
(* answered.                                                               *)
THEOREM IngestImplementsArchiveFirst == Spec => ImplementsArchiveFirst
<1>1. Init => Promise!Init
  BY DEF Init, Promise!Init
<1>2. TypeOK /\ Sound /\ [Next]_vars => [Promise!Next]_promiseVars
  BY PromiseStep
<1> QED
  BY <1>1, <1>2, IngestApiTypeCorrect, SoundAlways, PTL
  DEF Spec, ImplementsArchiveFirst, Promise!Spec, Promise!vars, promiseVars, Open

=============================================================================
