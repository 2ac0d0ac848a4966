------------------------------ MODULE Feedback ------------------------------
(***************************************************************************)
(* The feedback service (src/apps/investigator/investigator/feedback.py):  *)
(* a reviewer submits a verdict on an investigation; the service writes    *)
(* three columns of its row, commits, and stages a negative verdict as a   *)
(* file for the evaluation dataset.  The endpoints are plain functions     *)
(* that FastAPI runs in a thread pool, so submissions interleave at every  *)
(* database and file operation.  The server is a daemon thread of the      *)
(* investigator: it ends with the process, whatever it is doing, and       *)
(* the files are on the disk of the container.                             *)
(***************************************************************************)
EXTENDS Naturals

CONSTANTS
    Investigations,  \* rows of the table, in the order of their insertion or later
    Submissions,     \* POSTs of feedback: one thread each
    Payloads,        \* the bodies they may have
    Texts,           \* what a text column may hold
    None,            \* NULL
    NoFile, Empty, Torn,  \* a staged file that is absent, truncated, or not JSON
    MaxRestarts      \* bound on restarts of the investigator

Row == [correct : BOOLEAN \cup {None}, cause : Texts \cup {None}, notes : Texts \cup {None}]

ASSUME PayloadAssumption == Payloads \subseteq [correct : BOOLEAN, cause : Texts \cup {None},
                                                notes : Texts \cup {None}]
ASSUME NullAssumption == None \notin BOOLEAN \cup Texts
ASSUME FileAssumption == {NoFile, Empty, Torn} \cap Submissions = {} /\ NoFile \notin {Empty, Torn}
ASSUME RestartAssumption == MaxRestarts \in Nat

Unlabelled == [correct |-> None, cause |-> None, notes |-> None]

VARIABLES
    stored,     \* investigations inserted so far
    feedback,   \* the feedback columns of each row
    version,    \* history: how many submissions were committed to it
    staged,     \* its file: absent, broken, or the submission it tells of
    pc,         \* what the thread of each submission does next, or how it ended
    about,      \* the investigation it is about
    payload,    \* its body
    seen,       \* the row it loaded
    base,       \* history: the version it loaded
    at,         \* history: the version it made
    logged,     \* submissions whose staging failed, as the log has it
    lost,       \* history: submissions whose file went with its container
    restarts

requests == <<about, payload, seen, base>>
vars == <<stored, feedback, version, staged, pc, requests, at, logged, lost, restarts>>

Init ==
    /\ stored = {}
    /\ feedback = [i \in Investigations |-> Unlabelled]
    /\ version = [i \in Investigations |-> 0]
    /\ staged = [i \in Investigations |-> NoFile]
    /\ pc = [s \in Submissions |-> "new"]
    /\ about \in [Submissions -> Investigations]
    /\ payload \in [Submissions -> Payloads]
    /\ seen = [s \in Submissions |-> Unlabelled]
    /\ base = [s \in Submissions |-> 0]
    /\ at = [s \in Submissions |-> 0]
    /\ logged = {}
    /\ lost = {}
    /\ restarts = 0

Negative(s) == ~payload[s].correct

(* deliver, the last node of the graph, inserts the row.                   *)
Insert(i) ==
    /\ i \notin stored
    /\ stored' = stored \cup {i}
    /\ UNCHANGED <<feedback, version, staged, pc, requests, at, logged, lost, restarts>>

(* 404.                                                                    *)
LoadMissing(s) ==
    /\ pc[s] = "new" /\ about[s] \notin stored
    /\ pc' = [pc EXCEPT ![s] = "missing"]
    /\ UNCHANGED <<stored, feedback, version, staged, requests, at, logged, lost, restarts>>

(* The SELECT.                                                             *)
Load(s) ==
    /\ pc[s] = "new" /\ about[s] \in stored
    /\ seen' = [seen EXCEPT ![s] = feedback[about[s]]]
    /\ base' = [base EXCEPT ![s] = version[about[s]]]
    /\ pc' = [pc EXCEPT ![s] = "loaded"]
    /\ UNCHANGED <<stored, feedback, version, staged, about, payload, at, logged, lost, restarts>>

(* Mutant: a field that is not given is left alone.                        *)
ColumnGiven(new, old, current) == IF new # None THEN new ELSE current

(* The UPDATE sets the columns whose new value is not the loaded one;      *)
(* the others keep what another transaction may have put there since.      *)
Column(new, old, current) == IF new # old THEN new ELSE current

Merged(s) ==
    LET new == payload[s]  old == seen[s]  current == feedback[about[s]] IN
    [correct |-> Column(new.correct, old.correct, current.correct),
     cause |-> Column(new.cause, old.cause, current.cause),
     notes |-> Column(new.notes, old.notes, current.notes)]

CommitAs(s, next) ==
    /\ pc[s] = "loaded"
    /\ feedback' = [feedback EXCEPT ![about[s]] = Merged(s)]
    /\ version' = [version EXCEPT ![about[s]] = @ + 1]
    /\ at' = [at EXCEPT ![s] = version[about[s]] + 1]
    /\ pc' = [pc EXCEPT ![s] = next]
    /\ UNCHANGED <<stored, staged, requests, logged, lost, restarts>>

(* Mutant: a negative verdict without a root cause is not staged.          *)
CommitStagingCauses(s) ==
    CommitAs(s, IF Negative(s) /\ payload[s].cause # None THEN "staging" ELSE "recorded")

Commit(s) == CommitAs(s, IF Negative(s) THEN "staging" ELSE "recorded")

(* 500: the SELECT or the commit raised, in the latter case perhaps with   *)
(* the row written all the same.                                           *)
Fail(s) ==
    \/ /\ pc[s] \in {"new", "loaded"}
       /\ pc' = [pc EXCEPT ![s] = "error"]
       /\ UNCHANGED <<stored, feedback, version, staged, requests, at, logged, lost, restarts>>
    \/ CommitAs(s, "error")

(* Mutant: the file is opened before the commit.                           *)
OpenEarly(s) ==
    /\ pc[s] \in {"loaded", "staging"} /\ Negative(s)
    /\ staged' = [staged EXCEPT ![about[s]] = Empty]
    /\ pc' = [pc EXCEPT ![s] = "writing"]
    /\ UNCHANGED <<stored, feedback, version, requests, at, logged, lost, restarts>>

(* makedirs, and open(..., "w"), which truncates the file that is there.   *)
Open(s) ==
    /\ pc[s] = "staging"
    /\ staged' = [staged EXCEPT ![about[s]] = Empty]
    /\ pc' = [pc EXCEPT ![s] = "writing"]
    /\ UNCHANGED <<stored, feedback, version, requests, at, logged, lost, restarts>>

(* Each writer has its own offset in the file, so that the text of one may *)
(* end up over or between the text of another.                             *)
Undisturbed(s) ==
    /\ staged[about[s]] = Empty
    /\ \A t \in Submissions : pc[t] = "writing" /\ about[t] = about[s] => t = s

Write(s) ==
    /\ pc[s] = "writing"
    /\ \E text \in IF Undisturbed(s) THEN {s} ELSE {s, Torn} :
        staged' = [staged EXCEPT ![about[s]] = text]
    /\ pc' = [pc EXCEPT ![s] = "recorded"]
    /\ UNCHANGED <<stored, feedback, version, requests, at, logged, lost, restarts>>

(* The exception is caught and logged; the answer is the same.             *)
StagingFails(s) ==
    /\ \/ pc[s] = "staging" /\ UNCHANGED staged
       \/ /\ pc[s] = "writing"
          /\ \E text \in {staged[about[s]], Torn} :
                staged' = [staged EXCEPT ![about[s]] = text]
    /\ logged' = logged \cup {s}
    /\ pc' = [pc EXCEPT ![s] = "recorded"]
    /\ UNCHANGED <<stored, feedback, version, requests, at, lost, restarts>>

InFlight(s) == pc[s] \in {"loaded", "staging", "writing"}

(* The process ends and another one starts, in the same container or in a  *)
(* new one; the threads of the pool and, in the latter case, the files are *)
(* gone.                                                                   *)
Restart ==
    /\ restarts < MaxRestarts
    /\ restarts' = restarts + 1
    /\ pc' = [s \in Submissions |-> IF InFlight(s) THEN "cut" ELSE pc[s]]
    /\ \/ UNCHANGED <<staged, lost>>
       \/ /\ staged' = [i \in Investigations |-> NoFile]
          /\ lost' = lost \cup {s \in Submissions : pc[s] \in {"writing", "recorded"}}
    /\ UNCHANGED <<stored, feedback, version, requests, at, logged>>

Handle(s) ==
    \/ LoadMissing(s)
    \/ Load(s)
    \/ Commit(s)
    \/ Fail(s)
    \/ Open(s)
    \/ Write(s)
    \/ StagingFails(s)

-----------------------------------------------------------------------------
(* Properties.                                                             *)

Committed(s) == at[s] > 0

TypeOK ==
    /\ stored \subseteq Investigations
    /\ feedback \in [Investigations -> Row]
    /\ version \in [Investigations -> Nat]
    /\ staged \in [Investigations -> Submissions \cup {NoFile, Empty, Torn}]
    /\ pc \in [Submissions -> {"new", "loaded", "staging", "writing",
                               "recorded", "missing", "error", "cut"}]
    /\ about \in [Submissions -> Investigations]
    /\ payload \in [Submissions -> Payloads]
    /\ seen \in [Submissions -> Row]
    /\ base \in [Submissions -> Nat]
    /\ at \in [Submissions -> Nat]
    /\ logged \subseteq Submissions
    /\ lost \subseteq Submissions
    /\ restarts \in 0..MaxRestarts

(* A verdict that was loaded, changed and committed with no other commit   *)
(* in between replaces the earlier one in every column, until the next     *)
(* commit: submit_feedback assigns all three.  Overlapping submissions are *)
(* excepted, because they may end in a row that nobody submitted.          *)
SerialIsExact ==
    \A s \in Submissions :
        Committed(s) /\ at[s] = version[about[s]] /\ base[s] + 1 = at[s] =>
            feedback[about[s]] = payload[s]

(* A file that is whole tells of a negative verdict on its investigation   *)
(* that is committed, whatever failed or overlapped on the way.            *)
StagedIsCommitted ==
    \A i \in Investigations :
        staged[i] \in Submissions =>
            /\ about[staged[i]] = i
            /\ Negative(staged[i])
            /\ Committed(staged[i])

(* A negative verdict that was answered as recorded is in the file, unless *)
(* the log has the failure, the container was replaced after it was        *)
(* written, or another verdict has gone to the same file.                  *)
NegativeAccounted ==
    \A s \in Submissions :
        pc[s] = "recorded" /\ Negative(s) /\ s \notin logged \cup lost =>
            \/ staged[about[s]] = s
            \/ \E t \in Submissions \ {s} :
                  /\ about[t] = about[s] /\ Negative(t) /\ Committed(t)
                  /\ pc[t] \in {"writing", "recorded", "cut"}

=============================================================================
