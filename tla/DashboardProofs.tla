--------------------------- MODULE DashboardProofs --------------------------
(***************************************************************************)
(* The safety of the feedback service and of the dashboard on top of it,   *)
(* for any number of investigations, submissions and restarts.             *)
(***************************************************************************)
EXTENDS Dashboard, FiniteSetTheorems, SequenceTheorems, TLAPS

-----------------------------------------------------------------------------
(* The feedback service.                                                   *)

LEMMA MergedTyped ==
    ASSUME TypeOK, NEW s \in Submissions
    PROVE  Merged(s) \in Row
<1>1. payload[s] \in [correct : BOOLEAN, cause : Texts \cup {None}, notes : Texts \cup {None}]
  BY PayloadAssumption DEF TypeOK
<1>2. feedback[about[s]] \in Row
  BY DEF TypeOK
<1> QED BY <1>1, <1>2 DEF Merged, Column, Row

(* A thread goes from one pc to another.                                   *)
LEMMA CommitTyped ==
    ASSUME TypeOK, NEW s \in Submissions, NEW next \in {"staging", "recorded", "error"},
           CommitAs(s, next)
    PROVE  TypeOK'
<1>1. Merged(s) \in Row
  BY MergedTyped
<1>2. feedback' \in [Investigations -> Row] /\ version' \in [Investigations -> Nat]
  BY <1>1 DEF CommitAs, TypeOK
<1>3. at' \in [Submissions -> Nat]
  BY DEF CommitAs, TypeOK
<1> QED BY <1>2, <1>3 DEF CommitAs, TypeOK, requests

LEMMA ServeTyped ==
    ASSUME TypeOK, Serve
    PROVE  TypeOK'
<1>1. ASSUME NEW i \in Investigations, Insert(i) PROVE TypeOK'
  BY <1>1 DEF Insert, TypeOK, requests
<1>2. ASSUME NEW s \in Submissions, Handle(s) PROVE TypeOK'
  <2>1. CASE LoadMissing(s)
    BY <2>1 DEF LoadMissing, TypeOK, requests
  <2>2. CASE Load(s)
    BY <2>2 DEF Load, TypeOK
  <2>3. CASE Commit(s)
    BY <2>3, CommitTyped DEF Commit
  <2>4. CASE Fail(s)
    <3>1. CASE CommitAs(s, "error")
      BY <3>1, CommitTyped
    <3>2. CASE ~CommitAs(s, "error")
      BY <2>4, <3>2 DEF Fail, TypeOK, requests
    <3> QED BY <3>1, <3>2
  <2>5. CASE Open(s)
    BY <2>5 DEF Open, TypeOK, requests
  <2>6. CASE Write(s)
    BY <2>6 DEF Write, TypeOK, requests
  <2>7. CASE StagingFails(s)
    BY <2>7 DEF StagingFails, TypeOK, requests
  <2> QED BY <1>2, <2>1, <2>2, <2>3, <2>4, <2>5, <2>6, <2>7 DEF Handle
<1>3. CASE Restart
  <2>1. pc' \in [Submissions -> {"new", "loaded", "staging", "writing",
                                 "recorded", "missing", "error", "cut"}]
    BY <1>3 DEF Restart, TypeOK
  <2>2. staged' \in [Investigations -> Submissions \cup {NoFile, Empty, Torn}]
    BY <1>3 DEF Restart, TypeOK
  <2>3. restarts' \in 0..MaxRestarts
    BY <1>3, RestartAssumption DEF Restart, TypeOK
  <2> QED BY <1>3, <2>1, <2>2, <2>3 DEF Restart, TypeOK, requests
<1> QED BY <1>1, <1>2, <1>3 DEF Serve

(* Every step of the service is one of these.                              *)
LEMMA ServeCases ==
    ASSUME Serve
    PROVE  \/ \E i \in Investigations : Insert(i)
           \/ \E s \in Submissions :
                \/ LoadMissing(s) \/ Load(s)
                \/ \E next \in {"staging", "recorded", "error"} :
                        CommitAs(s, next) /\ (next = "staging" => Negative(s))
                                          /\ (next = "recorded" => ~Negative(s))
                \/ Fail(s) /\ ~CommitAs(s, "error")
                \/ Open(s) \/ Write(s) \/ StagingFails(s)
           \/ Restart
BY DEF Serve, Handle, Commit, Fail

(* Nothing is committed under a version that a row has not reached.        *)
VersionsOrdered ==
    \A s \in Submissions :
        /\ at[s] <= version[about[s]] /\ base[s] <= version[about[s]]
        /\ pc[s] \in {"new", "missing", "loaded"} => at[s] = 0

(* What a thread has loaded is the row, unless somebody committed since.   *)
LoadedCurrent ==
    \A s \in Submissions :
        pc[s] = "loaded" /\ base[s] = version[about[s]] => seen[s] = feedback[about[s]]

Serial == VersionsOrdered /\ LoadedCurrent /\ SerialIsExact

LEMMA CommitSerial ==
    ASSUME TypeOK, Serial, NEW s \in Submissions,
           NEW next \in {"staging", "recorded", "error"}, CommitAs(s, next)
    PROVE  Serial'
<1> DEFINE i == about[s]
<1>1. i \in Investigations /\ version[i] \in Nat /\ feedback[i] \in Row
  BY DEF TypeOK
<1>2. /\ version' = [version EXCEPT ![i] = version[i] + 1] /\ at' = [at EXCEPT ![s] = version[i] + 1]
      /\ feedback' = [feedback EXCEPT ![i] = Merged(s)] /\ pc' = [pc EXCEPT ![s] = next]
      /\ UNCHANGED requests
  BY DEF CommitAs
<1>3. VersionsOrdered'
  BY <1>1, <1>2 DEF Serial, VersionsOrdered, TypeOK, requests
<1>4. LoadedCurrent'
  <2> SUFFICES ASSUME NEW t \in Submissions, pc'[t] = "loaded", base[t] = version'[about[t]]
               PROVE  seen[t] = feedback'[about[t]]
    BY <1>2 DEF LoadedCurrent, requests
  <2>1. t # s /\ pc[t] = "loaded"
    BY <1>2 DEF TypeOK
  <2>2. about[t] # i
    BY <1>1, <1>2, <2>1 DEF Serial, VersionsOrdered, TypeOK
  <2> QED BY <1>1, <1>2, <2>1, <2>2 DEF Serial, LoadedCurrent, TypeOK
<1>5. SerialIsExact'
  <2> SUFFICES ASSUME NEW t \in Submissions, at'[t] > 0, at'[t] = version'[about[t]],
                      base[t] + 1 = at'[t]
               PROVE  feedback'[about[t]] = payload[t]
    BY <1>2 DEF SerialIsExact, Committed, requests
  <2>1. CASE t = s
    <3>1. seen[s] = feedback[i]
      <4>1. base[s] + 1 = version[i] + 1
        BY <1>1, <1>2, <2>1 DEF TypeOK
      <4>2. base[s] = version[i] /\ pc[s] = "loaded"
        BY <1>1, <4>1 DEF TypeOK, CommitAs
      <4> QED BY <4>2 DEF Serial, LoadedCurrent
    <3>2. payload[s] \in [correct : BOOLEAN, cause : Texts \cup {None}, notes : Texts \cup {None}]
      BY PayloadAssumption DEF TypeOK
    <3>3. Merged(s) = payload[s]
      BY <1>1, <3>1, <3>2 DEF Merged, Column, Row
    <3> QED BY <1>1, <1>2, <2>1, <3>3 DEF TypeOK
  <2>2. CASE t # s
    <3>1. at'[t] = at[t] /\ about[t] # i
      BY <1>1, <1>2, <2>2 DEF Serial, VersionsOrdered, TypeOK
    <3> QED BY <1>1, <1>2, <2>2, <3>1 DEF Serial, SerialIsExact, Committed, TypeOK
  <2> QED BY <2>1, <2>2
<1> QED BY <1>3, <1>4, <1>5 DEF Serial

LEMMA ServeSerial ==
    ASSUME TypeOK, Serial, Serve
    PROVE  Serial'
<1>0. ASSUME UNCHANGED <<feedback, version, at, requests>>,
             \A s \in Submissions : /\ pc'[s] = "loaded" => pc[s] = "loaded"
                                    /\ pc'[s] \in {"new", "missing"} => pc[s] = "new" \/ pc'[s] = pc[s]
      PROVE  Serial'
  BY <1>0 DEF Serial, VersionsOrdered, LoadedCurrent, SerialIsExact, Committed, requests
<1>1. ASSUME NEW i \in Investigations, Insert(i) PROVE Serial'
  BY <1>0, <1>1 DEF Insert, requests
<1>2. ASSUME NEW s \in Submissions, LoadMissing(s) PROVE Serial'
  BY <1>0, <1>2 DEF LoadMissing, TypeOK
<1>3. ASSUME NEW s \in Submissions, Load(s) PROVE Serial'
  BY <1>3 DEF Load, Serial, VersionsOrdered, LoadedCurrent, SerialIsExact, Committed, TypeOK
<1>4. ASSUME NEW s \in Submissions, NEW next \in {"staging", "recorded", "error"}, CommitAs(s, next)
      PROVE  Serial'
  BY <1>4, CommitSerial
<1>5. ASSUME NEW s \in Submissions, Fail(s), ~CommitAs(s, "error") PROVE Serial'
  BY <1>0, <1>5 DEF Fail, TypeOK
<1>6. ASSUME NEW s \in Submissions, Open(s) PROVE Serial'
  BY <1>0, <1>6 DEF Open, TypeOK
<1>7. ASSUME NEW s \in Submissions, Write(s) PROVE Serial'
  BY <1>0, <1>7 DEF Write, TypeOK
<1>8. ASSUME NEW s \in Submissions, StagingFails(s) PROVE Serial'
  BY <1>0, <1>8 DEF StagingFails, TypeOK
<1>9. CASE Restart
  BY <1>0, <1>9 DEF Restart, TypeOK
<1> QED BY <1>1, <1>2, <1>3, <1>4, <1>5, <1>6, <1>7, <1>8, <1>9, ServeCases

(* Verdicts that have got to the file of their investigation.              *)
Reached(t) == Negative(t) /\ Committed(t) /\ pc[t] \in {"writing", "recorded", "cut"}

Overtaken(s) == \E t \in Submissions \ {s} : about[t] = about[s] /\ Reached(t)

StagesCommitted ==
    \A s \in Submissions :
        /\ pc[s] \in {"staging", "writing", "recorded"} => Committed(s)
        /\ pc[s] \in {"staging", "writing"} => Negative(s)

(* A file one has truncated stays empty, unless another one has come to it.*)
WritersKnown ==
    \A s \in Submissions : pc[s] = "writing" => staged[about[s]] = Empty \/ Overtaken(s)

Staging == StagesCommitted /\ WritersKnown /\ StagedIsCommitted /\ NegativeAccounted

(* A verdict that has got to the file stays one that has.                  *)
LEMMA ReachedStays ==
    ASSUME TypeOK, Serve, NEW t \in Submissions, Reached(t)
    PROVE  Reached(t)' /\ about'[t] = about[t]
<1>0. UNCHANGED <<about, payload>>
  BY ServeCases DEF Insert, LoadMissing, Load, CommitAs, Fail, Open, Write, StagingFails, Restart, requests
<1>1. at'[t] = at[t]
  BY ServeCases DEF Reached, Insert, LoadMissing, Load, CommitAs, Fail, Open, Write, StagingFails,
     Restart, requests, TypeOK
<1>2. pc'[t] \in {"writing", "recorded", "cut"}
  <2>1. ASSUME NEW s \in Submissions,
               \/ LoadMissing(s) \/ Load(s) \/ Open(s) \/ Write(s) \/ StagingFails(s)
               \/ Fail(s) /\ ~CommitAs(s, "error")
        PROVE  pc'[t] \in {"writing", "recorded", "cut"}
    BY <2>1 DEF Reached, LoadMissing, Load, Fail, Open, Write, StagingFails, TypeOK
  <2>2. ASSUME NEW s \in Submissions, NEW next \in {"staging", "recorded", "error"}, CommitAs(s, next)
        PROVE  pc'[t] \in {"writing", "recorded", "cut"}
    BY <2>2 DEF Reached, CommitAs, TypeOK
  <2>3. CASE Restart
    BY <2>3 DEF Reached, Restart, InFlight, TypeOK
  <2>4. CASE \E i \in Investigations : Insert(i)
    BY <2>4 DEF Reached, Insert
  <2> QED BY <2>1, <2>2, <2>3, <2>4, ServeCases
<1> QED BY <1>0, <1>1, <1>2 DEF Reached, Negative, Committed

LEMMA OvertakenStays ==
    ASSUME TypeOK, Serve, NEW s \in Submissions, Overtaken(s)
    PROVE  Overtaken(s)'
<1>1. PICK t \in Submissions \ {s} : about[t] = about[s] /\ Reached(t)
  BY DEF Overtaken
<1>2. UNCHANGED about
  BY ServeCases DEF Insert, LoadMissing, Load, CommitAs, Fail, Open, Write, StagingFails, Restart, requests
<1>3. Reached(t)' /\ about'[t] = about'[s]
  BY <1>1, <1>2, ReachedStays
<1> QED BY <1>1, <1>3 DEF Overtaken

(* A step that leaves the files alone and puts no negative verdict among   *)
(* those answered as recorded.                                             *)
QuietStep ==
    /\ UNCHANGED <<staged, about, payload, logged, lost>>
    /\ \A s \in Submissions :
        /\ Committed(s) => at'[s] > 0
        /\ pc'[s] = "writing" => pc[s] = "writing"
        /\ pc'[s] = "staging" => pc[s] = "staging" \/ (Negative(s) /\ at'[s] > 0)
        /\ pc'[s] = "recorded" => pc[s] = "recorded" \/ (~Negative(s) /\ at'[s] > 0)

LEMMA StagingFrame ==
    ASSUME TypeOK, Staging, Serve, QuietStep
    PROVE  Staging'
<1>1. StagesCommitted'
  BY DEF QuietStep, Staging, StagesCommitted, Committed, Negative
<1>2. WritersKnown'
  <2> SUFFICES ASSUME NEW s \in Submissions, pc'[s] = "writing", staged'[about'[s]] # Empty
               PROVE  Overtaken(s)'
    BY DEF WritersKnown
  <2> QED BY OvertakenStays DEF QuietStep, Staging, WritersKnown
<1>3. StagedIsCommitted'
  BY DEF QuietStep, Staging, StagedIsCommitted, Committed, Negative
<1>4. NegativeAccounted'
  <2> SUFFICES ASSUME NEW s \in Submissions, pc'[s] = "recorded", Negative(s), s \notin logged \cup lost,
                      staged[about[s]] # s
               PROVE  Overtaken(s)'
    BY DEF QuietStep, NegativeAccounted, Overtaken, Reached, Negative
  <2>1. pc[s] = "recorded"
    BY DEF QuietStep
  <2>2. Overtaken(s)
    BY <2>1 DEF Staging, NegativeAccounted, Overtaken, Reached
  <2> QED BY <2>2, OvertakenStays
<1> QED BY <1>1, <1>2, <1>3, <1>4 DEF Staging

(* A step of a thread on its file: whoever else has to do with the file is *)
(* overtaken by it.                                                        *)
LEMMA FileStep ==
    ASSUME TypeOK, Staging, Serve, NEW s \in Submissions, NEW next \in {"writing", "recorded"},
           NEW text \in Submissions \cup {NoFile, Empty, Torn},
           pc[s] \in {"staging", "writing"},
           pc' = [pc EXCEPT ![s] = next],
           staged' = [staged EXCEPT ![about[s]] = text],
           UNCHANGED <<about, payload, at, lost>>, logged \subseteq logged',
           text \in Submissions => text = s \/ text = staged[about[s]],
           next = "writing" => text = Empty,
           next = "recorded" => text = s \/ s \in logged' \/ Overtaken(s)
    PROVE  Staging'
<1>1. Negative(s) /\ Committed(s) /\ Reached(s)'
  BY DEF Staging, StagesCommitted, Reached, Negative, Committed, TypeOK
<1>2. ASSUME NEW t \in Submissions, t # s, about[t] = about[s] PROVE Overtaken(t)'
  BY <1>1, <1>2 DEF Overtaken
<1>3. ASSUME NEW t \in Submissions, t # s PROVE pc'[t] = pc[t]
  BY <1>3 DEF TypeOK
<1>4. pc'[s] = next /\ staged'[about[s]] = text
  BY DEF TypeOK
<1>5. ASSUME NEW i \in Investigations, i # about[s] PROVE staged'[i] = staged[i]
  BY <1>5 DEF TypeOK
<1>6. StagesCommitted'
  BY <1>1, <1>3 DEF Staging, StagesCommitted, Committed, Negative
<1>7. WritersKnown'
  <2> SUFFICES ASSUME NEW t \in Submissions, pc'[t] = "writing" PROVE staged'[about[t]] = Empty \/ Overtaken(t)'
    BY DEF WritersKnown
  <2>1. CASE t = s
    BY <1>4, <2>1
  <2>2. CASE t # s /\ about[t] = about[s]
    BY <1>2, <2>2
  <2>3. CASE t # s /\ about[t] # about[s]
    BY <1>3, <1>5, <2>3, OvertakenStays DEF Staging, WritersKnown, TypeOK
  <2> QED BY <2>1, <2>2, <2>3
<1>8. StagedIsCommitted'
  <2> SUFFICES ASSUME NEW i \in Investigations, staged'[i] \in Submissions
               PROVE  about[staged'[i]] = i /\ Negative(staged'[i]) /\ Committed(staged'[i])
    BY DEF StagedIsCommitted, Negative, Committed
  <2>1. CASE staged'[i] = staged[i]
    BY <2>1 DEF Staging, StagedIsCommitted
  <2>2. CASE staged'[i] # staged[i]
    BY <1>1, <1>4, <1>5, <2>2
  <2> QED BY <2>1, <2>2
<1>9. NegativeAccounted'
  <2> SUFFICES ASSUME NEW t \in Submissions, pc'[t] = "recorded", Negative(t), t \notin logged' \cup lost
               PROVE  staged'[about[t]] = t \/ Overtaken(t)'
    BY DEF NegativeAccounted, Overtaken, Reached, Negative, Committed
  <2>1. CASE t = s
    BY <1>4, <2>1, OvertakenStays
  <2>2. CASE t # s /\ about[t] = about[s]
    BY <1>2, <2>2
  <2>3. CASE t # s /\ about[t] # about[s]
    <3>1. pc[t] = "recorded" /\ staged'[about[t]] = staged[about[t]] /\ t \notin logged \cup lost
      BY <1>3, <1>5, <2>3 DEF TypeOK
    <3>2. staged[about[t]] = t \/ Overtaken(t)
      BY <3>1 DEF Staging, NegativeAccounted, Overtaken, Reached
    <3> QED BY <3>1, <3>2, OvertakenStays
  <2> QED BY <2>1, <2>2, <2>3
<1> QED BY <1>6, <1>7, <1>8, <1>9 DEF Staging

LEMMA ServeStaging ==
    ASSUME TypeOK, Staging, Serve
    PROVE  Staging'
<1>1. ASSUME NEW i \in Investigations, Insert(i) PROVE Staging'
  <2>1. QuietStep
    BY <1>1 DEF QuietStep, Insert, requests, Committed
  <2> QED BY <2>1, StagingFrame
<1>2. ASSUME NEW s \in Submissions, LoadMissing(s) PROVE Staging'
  <2>1. QuietStep
    BY <1>2 DEF QuietStep, LoadMissing, requests, Committed, TypeOK
  <2> QED BY <2>1, StagingFrame
<1>3. ASSUME NEW s \in Submissions, Load(s) PROVE Staging'
  <2>1. QuietStep
    BY <1>3 DEF QuietStep, Load, Committed, TypeOK
  <2> QED BY <2>1, StagingFrame
<1>4. ASSUME NEW s \in Submissions, NEW next \in {"staging", "recorded", "error"}, CommitAs(s, next),
             next = "staging" => Negative(s), next = "recorded" => ~Negative(s)
      PROVE  Staging'
  <2>1. /\ at' = [at EXCEPT ![s] = version[about[s]] + 1] /\ pc' = [pc EXCEPT ![s] = next]
        /\ UNCHANGED <<staged, about, payload, logged, lost>>
    BY <1>4 DEF CommitAs, requests
  <2>2. version[about[s]] \in Nat
    BY DEF TypeOK
  <2>3. \A t \in Submissions : at'[t] = IF t = s THEN version[about[s]] + 1 ELSE at[t]
    BY <2>1 DEF TypeOK
  <2>4. \A t \in Submissions : pc'[t] = IF t = s THEN next ELSE pc[t]
    BY <2>1 DEF TypeOK
  <2>5. QuietStep
    BY <1>4, <2>1, <2>2, <2>3, <2>4 DEF QuietStep, Committed
  <2> QED BY <2>5, StagingFrame
<1>5. ASSUME NEW s \in Submissions, Fail(s), ~CommitAs(s, "error") PROVE Staging'
  <2>1. QuietStep
    BY <1>5 DEF QuietStep, Fail, requests, Committed, TypeOK
  <2> QED BY <2>1, StagingFrame
<1>6. ASSUME NEW s \in Submissions, Open(s) PROVE Staging'
  BY <1>6, FileStep, FileAssumption DEF Open, requests
<1>7. ASSUME NEW s \in Submissions, Write(s) PROVE Staging'
  <2>1. PICK text \in IF Undisturbed(s) THEN {s} ELSE {s, Torn} :
           staged' = [staged EXCEPT ![about[s]] = text]
    BY <1>7 DEF Write
  <2>2. text = s \/ Overtaken(s)
    <3> SUFFICES ASSUME text # s PROVE Overtaken(s)
      OBVIOUS
    <3>1. ~Undisturbed(s) /\ pc[s] = "writing"
      BY <1>7, <2>1 DEF Write
    <3>2. CASE staged[about[s]] # Empty
      BY <3>1, <3>2 DEF Staging, WritersKnown
    <3>3. CASE staged[about[s]] = Empty
      <4>1. PICK t \in Submissions : pc[t] = "writing" /\ about[t] = about[s] /\ t # s
        BY <3>1, <3>3 DEF Undisturbed
      <4> QED BY <4>1 DEF Staging, StagesCommitted, Overtaken, Reached
    <3> QED BY <3>2, <3>3
  <2>3. text \in Submissions \cup {NoFile, Empty, Torn} /\ (text \in Submissions => text = s)
    BY <2>1, FileAssumption
  <2> QED BY <1>7, <2>1, <2>2, <2>3, FileStep DEF Write, requests
<1>8. ASSUME NEW s \in Submissions, StagingFails(s) PROVE Staging'
  <2>0. staged[about[s]] \in Submissions \cup {NoFile, Empty, Torn}
    BY DEF TypeOK
  <2>1. PICK text \in {staged[about[s]], Torn} : staged' = [staged EXCEPT ![about[s]] = text]
    BY <1>8 DEF StagingFails, TypeOK
  <2>2. /\ text \in Submissions \cup {NoFile, Empty, Torn}
        /\ text \in Submissions => text = staged[about[s]]
    BY <2>0, <2>1, FileAssumption
  <2> QED BY <1>8, <2>1, <2>2, FileStep DEF StagingFails, requests
<1>9. CASE Restart
  <2>0. /\ \A s \in Submissions : pc'[s] = IF InFlight(s) THEN "cut" ELSE pc[s]
        /\ UNCHANGED <<about, payload, at, logged>>
    BY <1>9 DEF Restart, requests
  <2>1. CASE UNCHANGED <<staged, lost>>
    <3>1. QuietStep
      BY <2>0, <2>1 DEF QuietStep, InFlight, Committed
    <3> QED BY <3>1, StagingFrame
  <2>2. CASE /\ staged' = [i \in Investigations |-> NoFile]
             /\ lost' = lost \cup {s \in Submissions : pc[s] \in {"writing", "recorded"}}
    <3>1. \A s \in Submissions : /\ pc'[s] \notin {"staging", "writing"}
                                 /\ pc'[s] = "recorded" => pc[s] = "recorded" /\ s \in lost'
      BY <2>0, <2>2 DEF InFlight
    <3>2. \A i \in Investigations : staged'[i] \notin Submissions
      BY <2>2, FileAssumption
    <3> QED BY <2>0, <3>1, <3>2 DEF Staging, StagesCommitted, WritersKnown, StagedIsCommitted,
           NegativeAccounted, Committed
  <2> QED BY <1>9, <2>1, <2>2 DEF Restart
<1> QED BY <1>1, <1>2, <1>3, <1>4, <1>5, <1>6, <1>7, <1>8, <1>9, ServeCases

-----------------------------------------------------------------------------
(* The dashboard.                                                          *)

PagesTyped ==
    /\ client \in [Submissions -> {"waiting", "told", "cleared", "interrupted", "gave up"}]
    /\ cache \in [Investigations -> Entry \cup {NoEntry}]
    /\ fill \in [Investigations -> Entry \cup {NoEntry}]
    /\ overview \in Seq(Nat) /\ Len(overview) <= 3

(* What may be found in the caches, those that are still being filled      *)
(* included, after the page of a submission has cleared them.              *)
FreshEnough(entry, s) == entry = NoEntry \/ entry.version >= at[s]

ClearedFresh ==
    \A s \in Submissions :
        /\ client[s] \in {"told", "cleared"} => pc[s] = "recorded"
        /\ client[s] = "cleared" =>
            /\ FreshEnough(cache[about[s]], s) /\ FreshEnough(fill[about[s]], s)

Inductive == TypeOK /\ PagesTyped /\ Serial /\ Staging /\ ClearedFresh

LEMMA InitInductive == DashboardInit => Inductive
<1> SUFFICES ASSUME DashboardInit PROVE Inductive
  OBVIOUS
<1>0. Init
  BY DEF DashboardInit
<1>1. Unlabelled \in Row
  BY DEF Unlabelled, Row
<1>2. TypeOK
  BY <1>0, <1>1, RestartAssumption DEF Init, TypeOK
<1>3. PagesTyped
  BY DEF DashboardInit, PagesTyped
<1>4. Serial
  BY <1>0, <1>2 DEF Init, Serial, VersionsOrdered, LoadedCurrent, SerialIsExact, Committed, TypeOK
<1>5. Staging
  BY <1>0, FileAssumption DEF Init, Staging, StagesCommitted, WritersKnown, StagedIsCommitted, NegativeAccounted
<1>6. ClearedFresh
  BY DEF DashboardInit, ClearedFresh
<1> QED BY <1>2, <1>3, <1>4, <1>5, <1>6 DEF Inductive

LEMMA ServicePreserved ==
    ASSUME TypeOK, Serial, Staging, UNCHANGED service
    PROVE  TypeOK' /\ Serial' /\ Staging'
<1>1. UNCHANGED <<stored, feedback, version, staged, pc, about, payload, seen, base, at, logged, lost, restarts>>
  BY DEF service, vars, requests
<1>2. TypeOK'
  BY <1>1 DEF TypeOK
<1>3. Serial'
  BY <1>1 DEF Serial, VersionsOrdered, LoadedCurrent, SerialIsExact, Committed
<1>4. Staging'
  BY <1>1 DEF Staging, StagesCommitted, WritersKnown, Overtaken, Reached, StagedIsCommitted,
     NegativeAccounted, Committed, Negative
<1> QED BY <1>2, <1>3, <1>4

(* Once answered as recorded, a submission commits nothing more.           *)
LEMMA RecordedStays ==
    ASSUME TypeOK, Serve, NEW s \in Submissions, pc[s] = "recorded"
    PROVE  pc'[s] = "recorded" /\ at'[s] = at[s] /\ about'[s] = about[s]
<1>1. CASE \E i \in Investigations : Insert(i)
  BY <1>1 DEF Insert, requests
<1>2. ASSUME NEW t \in Submissions,
             \/ LoadMissing(t) \/ Load(t) \/ Open(t) \/ Write(t) \/ StagingFails(t)
             \/ Fail(t) /\ ~CommitAs(t, "error")
      PROVE  pc'[s] = "recorded" /\ at'[s] = at[s] /\ about'[s] = about[s]
  BY <1>2 DEF LoadMissing, Load, Open, Write, StagingFails, Fail, TypeOK, requests
<1>3. ASSUME NEW t \in Submissions, NEW next \in {"staging", "recorded", "error"}, CommitAs(t, next)
      PROVE  pc'[s] = "recorded" /\ at'[s] = at[s] /\ about'[s] = about[s]
  BY <1>3 DEF CommitAs, TypeOK, requests
<1>4. CASE Restart
  BY <1>4 DEF Restart, InFlight, TypeOK, requests
<1> QED BY <1>1, <1>2, <1>3, <1>4, ServeCases

LEMMA PagesPreserved ==
    ASSUME TypeOK, PagesTyped, UNCHANGED pages
    PROVE  PagesTyped'
BY DEF PagesTyped, pages

LEMMA ServeCleared ==
    ASSUME TypeOK, ClearedFresh, Serve
    PROVE  ClearedFresh'
<1>1. UNCHANGED <<client, cache, fill>>
  BY DEF Serve, pages
<1> QED BY <1>1, RecordedStays DEF ClearedFresh, FreshEnough

LEMMA BrowseInductive ==
    ASSUME Inductive, Browse
    PROVE  Inductive'
<1>0. TypeOK /\ PagesTyped /\ Serial /\ Staging /\ ClearedFresh
  BY DEF Inductive
<1>1. TypeOK' /\ Serial' /\ Staging' /\ UNCHANGED service
  <2>1. UNCHANGED service
    BY DEF Browse, Query, Fill, Expire, Refresh, Told, Clear, Interrupt, GiveUp, AskNext, AskAgain
  <2> QED BY <1>0, <2>1, ServicePreserved
<1>2. UNCHANGED <<feedback, version, pc, about, at, stored>>
  BY <1>1 DEF service, vars, requests
<1>3. ASSUME NEW i \in Investigations, Query(i) PROVE PagesTyped' /\ ClearedFresh'
  <2> DEFINE entry == [row |-> feedback[i], version |-> version[i]]
  <2>1. entry \in Entry
    BY <1>0 DEF TypeOK, Entry
  <2>2. fill' = [fill EXCEPT ![i] = entry] /\ UNCHANGED <<client, cache, overview>>
    BY <1>0, <1>3 DEF Query
  <2>3. PagesTyped'
    BY <1>0, <2>1, <2>2 DEF PagesTyped
  <2>4. \A s \in Submissions : about[s] = i => FreshEnough(entry, s)
    BY <1>0 DEF FreshEnough, Serial, VersionsOrdered, TypeOK
  <2>5. \A s \in Submissions : fill'[about[s]] = IF about[s] = i THEN entry ELSE fill[about[s]]
    BY <1>0, <2>2 DEF PagesTyped, TypeOK
  <2> QED BY <1>0, <1>2, <2>2, <2>3, <2>4, <2>5 DEF ClearedFresh, FreshEnough
<1>4. ASSUME NEW i \in Investigations, Fill(i) PROVE PagesTyped' /\ ClearedFresh'
  <2>1. /\ \A j \in Investigations : cache'[j] \in {cache[j], fill[j]} /\ fill'[j] \in {fill[j], NoEntry}
        /\ UNCHANGED <<client, overview>>
    BY <1>0, <1>4 DEF Fill, PagesTyped
  <2>2. PagesTyped'
    BY <1>0, <1>4 DEF Fill, PagesTyped
  <2>3. ASSUME NEW s \in Submissions, client[s] = "cleared"
        PROVE  /\ pc[s] = "recorded"
               /\ FreshEnough(cache'[about[s]], s) /\ FreshEnough(fill'[about[s]], s)
    <3>1. FreshEnough(cache[about[s]], s) /\ FreshEnough(fill[about[s]], s) /\ pc[s] = "recorded"
      BY <1>0, <2>3 DEF ClearedFresh
    <3>2. about[s] \in Investigations
      BY <1>0 DEF TypeOK
    <3> QED BY <2>1, <3>1, <3>2 DEF FreshEnough
  <2> QED BY <1>0, <1>2, <2>1, <2>2, <2>3 DEF ClearedFresh, FreshEnough
<1>5. ASSUME NEW i \in Investigations, Expire(i) PROVE PagesTyped' /\ ClearedFresh'
  <2>1. /\ \A j \in Investigations : cache'[j] \in {cache[j], NoEntry}
        /\ UNCHANGED <<client, fill, overview>>
    BY <1>0, <1>5 DEF Expire, PagesTyped
  <2>2. PagesTyped'
    BY <1>0, <1>5 DEF Expire, PagesTyped
  <2> QED BY <1>0, <1>2, <2>1, <2>2 DEF ClearedFresh, FreshEnough, TypeOK
<1>6. ASSUME Refresh PROVE PagesTyped' /\ ClearedFresh'
  BY <1>0, <1>2, <1>6 DEF Refresh, ClearAll, PagesTyped, ClearedFresh, FreshEnough, TypeOK
<1>7. ASSUME NEW s \in Submissions, Clear(s) PROVE PagesTyped' /\ ClearedFresh'
  BY <1>0, <1>2, <1>7 DEF Clear, ClearAll, PagesTyped, ClearedFresh, FreshEnough, TypeOK
<1>8. ASSUME NEW s \in Submissions, Told(s) \/ Interrupt(s) \/ GiveUp(s)
      PROVE  PagesTyped' /\ ClearedFresh'
  BY <1>0, <1>2, <1>8 DEF Told, Interrupt, GiveUp, PagesTyped, ClearedFresh, FreshEnough
<1>9. ASSUME AskNext PROVE PagesTyped' /\ ClearedFresh'
  <2>1. Found(QueryOrder[Len(overview) + 1]) \in Nat
    <3>1. IsFiniteSet(stored) /\ IsFiniteSet(stored \ Labelled)
      BY <1>0, InvestigationAssumption, FS_Subset, FS_Difference DEF TypeOK
    <3>2. Cardinality(stored) \in Nat /\ Cardinality(stored \ Labelled) \in Nat
      BY <3>1, FS_CardinalityType
    <3> QED BY <3>2 DEF Found
  <2>2. PagesTyped'
    <3> DEFINE answer == Found(QueryOrder[Len(overview) + 1])
    <3>1. /\ overview \in Seq(Nat) /\ Len(overview) < 3 /\ overview' = Append(overview, answer)
          /\ UNCHANGED <<client, cache, fill>>
      BY <1>0, <1>9 DEF AskNext, PagesTyped
    <3> HIDE DEF answer
    <3>2. overview' \in Seq(Nat) /\ Len(overview') <= 3
      <4>1. answer \in Nat
        BY <2>1 DEF answer
      <4> QED BY <3>1, <4>1
    <3> QED BY <1>0, <3>1, <3>2 DEF PagesTyped
  <2> QED BY <1>0, <1>2, <1>9, <2>2 DEF AskNext, ClearedFresh, FreshEnough
<1>10. ASSUME AskAgain PROVE PagesTyped' /\ ClearedFresh'
  <2>1. overview' = << >> /\ UNCHANGED <<client, cache, fill>>
    BY <1>10 DEF AskAgain
  <2>2. << >> \in Seq(Nat) /\ Len(<< >>) = 0
    BY EmptySeq
  <2>3. PagesTyped'
    <3>1. overview' \in Seq(Nat) /\ Len(overview') = 0
      BY <2>1, <2>2, Zenon
    <3>2. Len(overview') <= 3
      BY <3>1
    <3>3. /\ client' \in [Submissions -> {"waiting", "told", "cleared", "interrupted", "gave up"}]
          /\ cache' \in [Investigations -> Entry \cup {NoEntry}]
          /\ fill' \in [Investigations -> Entry \cup {NoEntry}]
      BY <1>0, <2>1 DEF PagesTyped
    <3> QED BY <3>1, <3>2, <3>3 DEF PagesTyped
  <2>4. ClearedFresh'
    BY <1>0, <1>2, <2>1 DEF ClearedFresh, FreshEnough
  <2> QED BY <2>3, <2>4
<1>11. PagesTyped' /\ ClearedFresh'
  <2>1. CASE \E i \in Investigations : Query(i) \/ Fill(i) \/ Expire(i)
    BY <2>1, <1>3, <1>4, <1>5
  <2>2. CASE \E s \in Submissions : Told(s) \/ Clear(s) \/ Interrupt(s) \/ GiveUp(s)
    BY <2>2, <1>7, <1>8
  <2> QED BY <2>1, <2>2, <1>6, <1>9, <1>10 DEF Browse
<1> QED BY <1>1, <1>11 DEF Inductive

LEMMA InductiveHolds == DashboardSpec => []Inductive
<1>1. Inductive /\ [DashboardNext]_allVars => Inductive'
  <2> SUFFICES ASSUME Inductive, [DashboardNext]_allVars PROVE Inductive'
    OBVIOUS
  <2>1. CASE Serve
    <3>1. UNCHANGED pages
      BY <2>1 DEF Serve
    <3> QED BY <2>1, <3>1, ServeTyped, ServeSerial, ServeStaging, ServeCleared, PagesPreserved DEF Inductive
  <2>2. CASE Browse
    BY <2>2, BrowseInductive
  <2>3. CASE UNCHANGED allVars
    <3>1. UNCHANGED service /\ UNCHANGED pages
      BY <2>3 DEF allVars
    <3>2. ClearedFresh'
      BY <3>1 DEF service, vars, requests, pages, Inductive, ClearedFresh, FreshEnough
    <3> QED BY <3>1, <3>2, ServicePreserved, PagesPreserved DEF Inductive
  <2> QED BY <2>1, <2>2, <2>3 DEF DashboardNext
<1> QED BY InitInductive, <1>1, PTL DEF DashboardSpec

(* A verdict that did not overlap another is in its row whole, however     *)
(* many there are and whatever fails or is restarted.                      *)
THEOREM FeedbackExact == DashboardSpec => []SerialIsExact
<1>1. Inductive => SerialIsExact
  BY DEF Inductive, Serial
<1> QED BY <1>1, InductiveHolds, PTL

(* A staged file that is whole tells of a committed negative verdict on    *)
(* its investigation, whoever wrote to it before or at the same time.      *)
THEOREM StagingHonest == DashboardSpec => []StagedIsCommitted
<1>1. Inductive => StagedIsCommitted
  BY DEF Inductive, Staging
<1> QED BY <1>1, InductiveHolds, PTL

(* A negative verdict that was answered as recorded is in its file, unless *)
(* that is superseded, logged as failed, or gone with its container.       *)
THEOREM StagingAccounted == DashboardSpec => []NegativeAccounted
<1>1. Inductive => NegativeAccounted
  BY DEF Inductive, Staging
<1> QED BY <1>1, InductiveHolds, PTL

(* Once the page of a submission has cleared the caches, nobody is served  *)
(* an older row from them, however many sessions fill them.                *)
THEOREM ClearedShown == DashboardSpec => []ClearedIsShown
<1>1. Inductive => ClearedIsShown
  BY DEF Inductive, ClearedFresh, ClearedIsShown, FreshEnough
<1> QED BY <1>1, InductiveHolds, PTL

-----------------------------------------------------------------------------
(* The overview.                                                           *)

(* A verdict, once given, is not taken back to none.                       *)
SeenLabelled ==
    \A s \in Submissions :
        seen[s].correct # None => feedback[about[s]].correct # None

LEMMA ServeLabelled ==
    ASSUME TypeOK, SeenLabelled, Serve
    PROVE  SeenLabelled' /\ stored \subseteq stored' /\ Labelled \subseteq Labelled'
<1>1. CASE \E i \in Investigations : Insert(i)
  BY <1>1 DEF Insert, SeenLabelled, Labelled, requests
<1>2. ASSUME NEW s \in Submissions, Load(s)
      PROVE  SeenLabelled' /\ stored \subseteq stored' /\ Labelled \subseteq Labelled'
  BY <1>2 DEF Load, SeenLabelled, Labelled, TypeOK
<1>3. ASSUME NEW s \in Submissions,
             \/ LoadMissing(s) \/ Open(s) \/ Write(s) \/ StagingFails(s)
             \/ Fail(s) /\ ~CommitAs(s, "error")
      PROVE  SeenLabelled' /\ stored \subseteq stored' /\ Labelled \subseteq Labelled'
  BY <1>3 DEF LoadMissing, Open, Write, StagingFails, Fail, SeenLabelled, Labelled, requests
<1>4. ASSUME NEW s \in Submissions, NEW next \in {"staging", "recorded", "error"}, CommitAs(s, next)
      PROVE  SeenLabelled' /\ stored \subseteq stored' /\ Labelled \subseteq Labelled'
  <2>1. payload[s].correct # None
    BY PayloadAssumption, NullAssumption DEF TypeOK
  <2>2. Merged(s).correct # None
    BY <2>1 DEF Merged, Column, SeenLabelled
  <2>3. /\ feedback' = [feedback EXCEPT ![about[s]] = Merged(s)]
        /\ UNCHANGED <<stored, about, seen>>
    BY <1>4 DEF CommitAs, requests
  <2>4. \A i \in Investigations :
            feedback[i].correct # None => feedback'[i].correct # None
    BY <2>2, <2>3 DEF TypeOK
  <2> QED BY <2>3, <2>4 DEF SeenLabelled, Labelled, TypeOK
<1>5. CASE Restart
  BY <1>5 DEF Restart, SeenLabelled, Labelled, requests
<1> QED BY <1>1, <1>2, <1>3, <1>4, <1>5, ServeCases

(* The answers so far, against what is stored now.                         *)
OverviewSoFar ==
    /\ Len(overview) >= 1 => overview[1] <= Cardinality(stored)
    /\ Len(overview) >= 2 => overview[1] <= overview[2]
    /\ Len(overview) >= 3 => overview[1] <= overview[3] + Cardinality(Labelled)

LEMMA Counts ==
    ASSUME TypeOK
    PROVE  /\ Cardinality(stored) \in Nat /\ Cardinality(Labelled) \in Nat
           /\ Cardinality(stored \ Labelled) \in Nat
           /\ Cardinality(stored) = Cardinality(stored \ Labelled) + Cardinality(Labelled)
<1>1. IsFiniteSet(stored) /\ Labelled \subseteq stored
  BY InvestigationAssumption, FS_Subset DEF TypeOK, Labelled
<1>2. IsFiniteSet(Labelled) /\ IsFiniteSet(stored \ Labelled)
  BY <1>1, FS_Subset, FS_Difference
<1>3. stored \cap Labelled = Labelled
  BY <1>1
<1>4. Cardinality(stored \ Labelled) = Cardinality(stored) - Cardinality(Labelled)
  BY <1>1, <1>3, FS_Difference
<1>5. /\ Cardinality(stored) \in Nat /\ Cardinality(Labelled) \in Nat
      /\ Cardinality(stored \ Labelled) \in Nat
  BY <1>1, <1>2, FS_CardinalityType
<1> QED BY <1>4, <1>5

LEMMA ServeOverview ==
    ASSUME TypeOK, TypeOK', PagesTyped, SeenLabelled, OverviewSoFar, Serve
    PROVE  OverviewSoFar'
<1>1. stored \subseteq stored' /\ Labelled \subseteq Labelled' /\ UNCHANGED overview
  BY ServeLabelled DEF Serve, pages
<1>2. IsFiniteSet(stored') /\ IsFiniteSet(Labelled')
  <2>1. IsFiniteSet(stored') /\ Labelled' \subseteq stored'
    BY InvestigationAssumption, FS_Subset DEF TypeOK, Labelled
  <2> QED BY <2>1, FS_Subset
<1>3. /\ Cardinality(stored) <= Cardinality(stored')
      /\ Cardinality(Labelled) <= Cardinality(Labelled')
  BY <1>1, <1>2, FS_Subset
<1>4. /\ Cardinality(stored) \in Nat /\ Cardinality(stored') \in Nat
      /\ Cardinality(Labelled) \in Nat /\ Cardinality(Labelled') \in Nat
  BY <1>2, Counts, FS_CardinalityType
<1>5. Len(overview) \in Nat
  BY LenProperties DEF PagesTyped
<1>6. \A n \in 1..Len(overview) : overview[n] \in Nat
  BY ElementOfSeq DEF PagesTyped
<1> QED BY <1>1, <1>3, <1>4, <1>5, <1>6 DEF OverviewSoFar

LEMMA AskOverview ==
    ASSUME TypeOK, PagesTyped, OverviewSoFar, AskNext
    PROVE  OverviewSoFar'
<1> DEFINE answer == Found(QueryOrder[Len(overview) + 1])
<1>1. /\ overview \in Seq(Nat) /\ Len(overview) < 3 /\ overview' = Append(overview, answer)
      /\ UNCHANGED <<stored, feedback>>
  BY DEF AskNext, PagesTyped, service, vars
<1>2. Labelled' = Labelled
  BY <1>1 DEF Labelled
<1>3a. answer \in Nat
  BY Counts DEF Found
<1>3b. \A n \in 1..Len(overview) : overview[n] \in Nat /\ overview'[n] = overview[n]
  BY <1>1, <1>3a, ElementOfSeq, AppendProperties
<1>3c. Len(overview') = Len(overview) + 1 /\ overview'[Len(overview) + 1] = answer
  BY <1>1, <1>3a, AppendProperties
<1>3. CASE Len(overview) = 0
  <2>1. answer = Cardinality(stored)
    BY <1>3 DEF Found, QueryOrder
  <2> HIDE DEF answer
  <2>2. Len(overview') = 1 /\ overview'[1] = answer
    BY <1>3, <1>3c
  <2> QED BY <1>1, <2>1, <2>2, Counts DEF OverviewSoFar
<1>4. CASE Len(overview) = 1
  <2>1. answer = Cardinality(stored)
    BY <1>4 DEF Found, QueryOrder
  <2> HIDE DEF answer
  <2>2. Len(overview') = 2 /\ overview'[1] = overview[1] /\ overview'[2] = answer
    BY <1>4, <1>3b, <1>3c
  <2> QED BY <1>1, <1>4, <1>3b, <2>1, <2>2 DEF OverviewSoFar
<1>5. CASE Len(overview) = 2
  <2>1. answer = Cardinality(stored \ Labelled)
    BY <1>5 DEF Found, QueryOrder
  <2> HIDE DEF answer
  <2>2. /\ Len(overview') = 3 /\ overview'[3] = answer
        /\ overview'[1] = overview[1] /\ overview'[2] = overview[2]
    BY <1>5, <1>3b, <1>3c
  <2> QED BY <1>1, <1>2, <1>5, <1>3b, <2>1, <2>2, Counts DEF OverviewSoFar
<1>6. Len(overview) \in Nat
  BY <1>1, LenProperties
<1>7. Len(overview) \in {0, 1, 2}
  <2>1. Len(overview) < 3
    BY DEF AskNext
  <2>2. \A n \in Nat : n < 3 => n \in {0, 1, 2}
    OBVIOUS
  <2> QED BY <1>6, <2>1, <2>2, Zenon
<1> QED BY <1>3, <1>4, <1>5, <1>7

LEMMA OverviewHolds == DashboardSpec => [](SeenLabelled /\ OverviewSoFar)
<1>1. DashboardInit => SeenLabelled /\ OverviewSoFar
  BY DEF DashboardInit, Init, SeenLabelled, Unlabelled, OverviewSoFar
<1>2. Inductive /\ Inductive' /\ SeenLabelled /\ OverviewSoFar /\ [DashboardNext]_allVars
        => (SeenLabelled /\ OverviewSoFar)'
  <2> SUFFICES ASSUME Inductive, Inductive', SeenLabelled, OverviewSoFar, [DashboardNext]_allVars
               PROVE  (SeenLabelled /\ OverviewSoFar)'
    OBVIOUS
  <2>1. CASE Serve
    BY <2>1, ServeLabelled, ServeOverview DEF Inductive
  <2>2. ASSUME UNCHANGED <<seen, feedback, about, stored, overview>>
        PROVE  (SeenLabelled /\ OverviewSoFar)'
    BY <2>2 DEF SeenLabelled, OverviewSoFar, Labelled
  <2>3. CASE Browse
    <3>1. UNCHANGED service
      BY <2>3 DEF Browse, Query, Fill, Expire, Refresh, Told, Clear, Interrupt, GiveUp, AskNext, AskAgain
    <3>2. UNCHANGED <<seen, feedback, about, stored>>
      BY <3>1 DEF service, vars, requests
    <3>3. SeenLabelled'
      BY <3>2 DEF SeenLabelled
    <3>4. CASE AskNext
      BY <3>3, <3>4, AskOverview DEF Inductive
    <3>5. CASE AskAgain
      BY <3>3, <3>5 DEF AskAgain, OverviewSoFar
    <3>6. CASE ~AskNext /\ ~AskAgain
      BY <2>2, <2>3, <3>2, <3>6 DEF Browse, Query, Fill, Expire, Refresh, Told, Clear, Interrupt, GiveUp
    <3> QED BY <3>4, <3>5, <3>6
  <2>4. CASE UNCHANGED allVars
    BY <2>2, <2>4 DEF allVars, service, vars, requests, pages
  <2> QED BY <2>1, <2>3, <2>4 DEF DashboardNext
<1> QED BY <1>1, <1>2, InductiveHolds, PTL DEF DashboardSpec

(* No overview shows a mean over no rows, or more verdicts than were given.*)
THEOREM OverviewSound == DashboardSpec => []OverviewConsistent
<1>1. Inductive /\ OverviewSoFar => OverviewConsistent
  <2> SUFFICES ASSUME Inductive, OverviewSoFar, Len(overview) = 3
               PROVE  /\ Answered("total") > 0 => Answered("average") > 0
                      /\ Answered("total") <= Answered("pending") + Cardinality(Labelled)
    BY DEF OverviewConsistent
  <2>1. /\ (CHOOSE n \in 1..3 : QueryOrder[n] = "total") = 1
        /\ (CHOOSE n \in 1..3 : QueryOrder[n] = "average") = 2
        /\ (CHOOSE n \in 1..3 : QueryOrder[n] = "pending") = 3
    BY DEF QueryOrder
  <2>2. /\ overview[1] \in Nat /\ overview[2] \in Nat /\ overview[3] \in Nat
        /\ Cardinality(Labelled) \in Nat
    <3>1. overview \in Seq(Nat) /\ Cardinality(Labelled) \in Nat
      BY Counts DEF Inductive, PagesTyped
    <3>2. \A n \in 1..3 : overview[n] \in Nat
      BY <3>1, ElementOfSeq
    <3> QED BY <3>1, <3>2
  <2>3. /\ overview[1] <= overview[2]
        /\ overview[1] <= overview[3] + Cardinality(Labelled)
    BY DEF OverviewSoFar
  <2>4. /\ Answered("total") = overview[1]
        /\ Answered("average") = overview[2]
        /\ Answered("pending") = overview[3]
    BY <2>1 DEF Answered
  <2> QED BY <2>2, <2>3, <2>4
<1> QED BY <1>1, InductiveHolds, OverviewHolds, PTL

=============================================================================
