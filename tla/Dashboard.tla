------------------------------ MODULE Dashboard -----------------------------
(***************************************************************************)
(* The dashboard (src/apps/dashboard) on top of the feedback service and   *)
(* the tables: pages that read through caches with a time to live, the     *)
(* form that posts feedback and then clears the caches, and the overview,  *)
(* whose queries each see what is committed when they run (those on        *)
(* investigations; the others count alerts in the same way).  One process  *)
(* serves all browser sessions; the caches are common to them.             *)
(*                                                                         *)
(* st.cache_data is not in the repository: a miss runs the function under  *)
(* a lock of its own and stores what it returns; clear() replaces the      *)
(* caches, so that a result computed for an old one is never seen.         *)
(***************************************************************************)
EXTENDS Feedback, FiniteSets, Sequences

CONSTANT NoEntry  \* what the cache holds of an investigation nobody looked at

ASSUME InvestigationAssumption == IsFiniteSet(Investigations)

Entry == [row : Row, version : Nat]

ASSUME EntryAssumption == NoEntry \notin Entry

VARIABLES
    client,     \* the page of each submission: waiting, told that it is saved,
                \* with the caches cleared, interrupted before that, or given up
    cache,      \* what get_investigation would answer from its cache
    fill,       \* what a query found that its caller has not stored yet
    overview    \* answers to the queries of the overview that is being built

service == vars
pages == <<client, cache, fill, overview>>
allVars == <<service, pages>>

DashboardInit ==
    /\ Init
    /\ client = [s \in Submissions |-> "waiting"]
    /\ cache = [i \in Investigations |-> NoEntry]
    /\ fill = [i \in Investigations |-> NoEntry]
    /\ overview = << >>

(* The service, the worker and the investigator work whatever the          *)
(* dashboard does.                                                         *)
Serve ==
    /\ \/ \E i \in Investigations : Insert(i)
       \/ \E s \in Submissions : Handle(s)
       \/ Restart
    /\ UNCHANGED pages

(* A miss: the query runs.                                                 *)
Query(i) ==
    /\ i \in stored /\ cache[i] = NoEntry /\ fill[i] = NoEntry
    /\ fill' = [fill EXCEPT ![i] = [row |-> feedback[i], version |-> version[i]]]
    /\ UNCHANGED <<service, client, cache, overview>>

(* Its result is stored, or it raised and nothing is.                      *)
Fill(i) ==
    /\ fill[i] # NoEntry
    /\ cache' \in {cache, [cache EXCEPT ![i] = fill[i]]}
    /\ fill' = [fill EXCEPT ![i] = NoEntry]
    /\ UNCHANGED <<service, client, overview>>

(* Mutant: without a ttl.                                                  *)
ExpireNever(i) == FALSE /\ UNCHANGED allVars

(* The ttl of an entry has run out.                                        *)
Expire(i) ==
    /\ cache[i] # NoEntry
    /\ cache' = [cache EXCEPT ![i] = NoEntry]
    /\ UNCHANGED <<service, client, fill, overview>>

ClearAll ==
    /\ cache' = [i \in Investigations |-> NoEntry]
    /\ fill' = [i \in Investigations |-> NoEntry]

(* The Refresh button of any page.                                         *)
Refresh ==
    /\ ClearAll
    /\ UNCHANGED <<service, client, overview>>

(* post_feedback returns, and the page says that feedback is saved.        *)
Told(s) ==
    /\ client[s] = "waiting" /\ pc[s] = "recorded"
    /\ client' = [client EXCEPT ![s] = "told"]
    /\ UNCHANGED <<service, cache, fill, overview>>

(* Mutant: the entries are dropped, and a query that is under way is left  *)
(* to store what it has found.                                             *)
ClearEntries(s) ==
    /\ client[s] = "told"
    /\ client' = [client EXCEPT ![s] = "cleared"]
    /\ cache' = [i \in Investigations |-> NoEntry]
    /\ UNCHANGED <<service, fill, overview>>

(* Only then does it clear the caches.                                     *)
Clear(s) ==
    /\ client[s] = "told"
    /\ client' = [client EXCEPT ![s] = "cleared"]
    /\ ClearAll
    /\ UNCHANGED <<service, overview>>

(* A click or an error stops the page after it has said so: the caches     *)
(* stay as they are.                                                       *)
Interrupt(s) ==
    /\ client[s] = "told"
    /\ client' = [client EXCEPT ![s] = "interrupted"]
    /\ UNCHANGED <<service, cache, fill, overview>>

(* Five seconds pass without an answer, or a click interrupts the page     *)
(* before it can tell of one: the user hears nothing of what is recorded,  *)
(* and the caches stay as they are.                                        *)
GiveUp(s) ==
    /\ client[s] = "waiting" /\ (InFlight(s) \/ pc[s] = "recorded")
    /\ client' = [client EXCEPT ![s] = "gave up"]
    /\ UNCHANGED <<service, cache, fill, overview>>

Labelled == {i \in stored : feedback[i].correct # None}

(* Mutant: what is pending is counted first.                               *)
QueryOrderSwapped == <<"pending", "total", "average">>

(* The order of these queries in overview_metrics.                         *)
QueryOrder == <<"total", "average", "pending">>

(* What a query finds if it runs now: the number of rows it counts, or     *)
(* takes the average over.                                                 *)
Found(query) ==
    IF query = "pending" THEN Cardinality(stored \ Labelled) ELSE Cardinality(stored)

AskNext ==
    /\ Len(overview) < 3
    /\ overview' = Append(overview, Found(QueryOrder[Len(overview) + 1]))
    /\ UNCHANGED <<service, client, cache, fill>>

(* A page is rendered anew, or a query raised.                             *)
AskAgain ==
    /\ overview # << >>
    /\ overview' = << >>
    /\ UNCHANGED <<service, client, cache, fill>>

Browse ==
    \/ \E i \in Investigations : Query(i) \/ Fill(i) \/ Expire(i)
    \/ Refresh
    \/ \E s \in Submissions : Told(s) \/ Clear(s) \/ Interrupt(s) \/ GiveUp(s)
    \/ AskNext
    \/ AskAgain

DashboardNext ==
    \/ Serve
    \/ Browse

DashboardSpec == DashboardInit /\ [][DashboardNext]_allVars

(* The clock runs on: entries expire, and a query comes to an end.         *)
FairDashboardSpec ==
    /\ DashboardSpec
    /\ \A i \in Investigations : WF_allVars(Fill(i)) /\ WF_allVars(Expire(i))

-----------------------------------------------------------------------------
(* Properties.                                                             *)

DashboardTypeOK ==
    /\ TypeOK
    /\ client \in [Submissions -> {"waiting", "told", "cleared", "interrupted", "gave up"}]
    /\ cache \in [Investigations -> Entry \cup {NoEntry}]
    /\ fill \in [Investigations -> Entry \cup {NoEntry}]
    /\ overview \in Seq(Nat) /\ Len(overview) <= 3

(* Once the page of a submission has cleared the caches, no session is     *)
(* served an older row: neither an old entry nor the result of a query     *)
(* that ran before the commit outlasts the clearing.  Between the message  *)
(* that feedback is saved and the clearing, and after an interruption      *)
(* there, an older row may still be served, until it expires.              *)
ClearedIsShown ==
    \A s \in Submissions :
        client[s] = "cleared" =>
            LET i == about[s] IN cache[i] = NoEntry \/ cache[i].version >= at[s]

Answered(query) == overview[CHOOSE n \in 1..3 : QueryOrder[n] = query]

(* The answers of one overview agree as far as their order makes them,     *)
(* though rows are inserted and labelled between the queries: an average   *)
(* is shown of at least one row, and no more verdicts appear to be given   *)
(* than are.                                                               *)
OverviewConsistent ==
    Len(overview) = 3 =>
        /\ Answered("total") > 0 => Answered("average") > 0
        /\ Answered("total") <= Answered("pending") + Cardinality(Labelled)

(* The caches come to show what is stored, even when the page that stored  *)
(* it gave up, or was interrupted, before it could clear them.             *)
EventuallyShown ==
    \A i \in Investigations :
        <>[](cache[i] # NoEntry => cache[i].row = feedback[i])

=============================================================================
