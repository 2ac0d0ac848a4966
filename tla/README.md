# PGSCP: TLA+ models and proofs

PGSCP takes in records of LLM calls, evaluates rules on them, alerts partners and lets an
agent investigate the critical alerts. This directory holds TLA+ models of the parts of that
pipeline where interleaving, failure and redelivery decide whether it is correct, the TLC
configurations that check them on small instances, and TLAPS proofs that hold for every
instance. `PROJECT.json` is the index: components, runs, the lines each definition
translates, the hazards, the findings and the theorems.

    client --POST /events--> API --put--> S3
                              \--send--> work queue --> worker --> Postgres
                                                        |  \--> Slack, PagerDuty
                                            investigations queue --> investigator --> Postgres
                                                                          |  \--> Slack
                                                   dashboard, feedback service

How to run: `tlc -config MCWorkerDedupe.cfg MCWorker` for a model, `tlapm WorkerProofs.tla`
for a proof.

## Inventory

| Component | State it keeps | Operations | Interacts with |
|---|---|---|---|
| Ingestion API (`apps/api/app`) | none of its own; one call in progress per process | `POST /events`: validate, archive, enqueue, answer | client; S3 (put), work queue (send) |
| Work queue, investigations queue (`infra/modules/sqs`) | messages, visibility, receive counts, DLQ | receive, delete, visibility expiry, redrive | API, worker, investigator |
| Worker loop (`apps/worker/worker/main.py`, `dedupe.py`, `db.py`) | current batch and transaction; tables `inference_records`, `alerts`, `alert_events`, `partner_delivery_attempts` | poll, claim key, evaluate, deliver, commit, publish, delete, stop | queues, S3 (get), Postgres, partner client, rule engine |
| Rule engine (`rules.py`) | none; reads the history in `inference_records` | `load_context`, seven rules | called in the worker's transaction |
| Partner client (`partner_client.py`) | circuit breaker per partner, shared by the process | `send` with retries | HTTP to Slack and PagerDuty (locally `local/mock-partner`) |
| Investigator (`apps/investigator/investigator/main.py`, `graph.py`, `nodes.py`, `state.py`) | state of one graph run; table `investigations` | poll, six graph nodes, delete, stop | investigations queue, Postgres, S3, CloudWatch, ECS, LLM, Slack |
| LLM backends (`llm.py`), tools (`tools/`) | memoized backend, settings cached at import | `get_backend`, `invoke`, queries | called by the nodes |
| Feedback service (`feedback.py`) | feedback columns of `investigations`; staged files on the container's disk | get, submit | dashboard, Postgres, local disk; a daemon thread of the investigator, one more thread per submission |
| Eval harness (`eval/`) | the state of one case, the scores of one run | run cases, score, aggregate | nodes, LLM backend |
| Dashboard (`apps/dashboard`) | caches with a time to live, common to all sessions | read queries, feedback form, Refresh | Postgres, feedback service |
| Infrastructure, local compose, CI | declarative | - | - |

What is hard, and what makes each part correct:

* **API.** S3 and SQS are written one after the other without a transaction; every AWS call
  may fail with or without effect; the client library repeats sends; clients repeat posts.
  Correct means: no message whose object is missing, no 202 without a message, no trace of a
  refused call.
* **Worker.** Several deliveries of one message, several messages of one key, several workers;
  partner calls inside the database transaction; publication after the commit; deletion last.
  Correct means: no event is lost, each key is decided once, alerts, delivery attempts and
  investigations agree, nothing is retried for ever.
* **Rule engine.** The history a record is judged against depends on the order in which other
  transactions commit and is cut to 50 rows. Correct means: what is reported can be justified
  from the whole committed history.
* **Partner client.** A retry loop around a breaker shared by all sends: the count must survive
  sends and successes, one partner's outage must not touch another, an open breaker must close
  again, and what `send` returns must be true.
* **Investigator.** A graph run is longer than the visibility timeout, LangGraph drops what the
  state does not declare, a report is stored before the message is deleted. Correct means: no
  alert loses its investigation, verification is bounded and not cut short, reports are
  traceable.
* **Feedback.** Concurrent submissions write columns of one row; the staged file comes after the
  commit, on a path common to all verdicts on an investigation, and lives on the container's disk.
  Correct means: a verdict that did not overlap another is stored whole, a staged file tells of a
  committed negative verdict, and such a verdict disappears only in ways the log or the
  restart explains.
* **Dashboard.** Cached reads race with submissions; the numbers of one overview come from separate
  queries. Correct means: after a page has cleared the caches nobody is served an older row, a
  submission whose page gave up or was interrupted is shown in the end, the numbers of an overview
  do not contradict each other.
* **Eval harness.** One process runs several datasets with backends that are memoized; a
  model may answer anything. Correct means: a summary covers every case once, its
  scores are those of the answers, and it names the backend that gave them.

The `hazards` of `PROJECT.json` list these at their lines, each with the properties that cover
it or the reason why none does yet.

## Modules

| Module | Models | State, and what it stands for |
|---|---|---|
| `IngestApi` | the API and its clients | `posted` calls, `step`/`call`/`tries` of each process, `objects` in S3, `messages` sent (with copies), `replies` received |
| `Worker` | worker processes, work queue, database | `queue`, `receives` (SQS); `pc`, `batch`, `cur`, `verdict`, `pending`, `rows`, `outbox` (locals and open transaction of each worker); `records`, `alerts`, `attempts` (committed tables); `pages`, `investigations` (what left the system); `failed`, `unpublished` (the error log) and `orphaned` (receipts that a killed worker held, of which nothing is logged), all three history |
| `ArchiveFirst` | what the API promises | `posted` and `open` calls, `archived` records, `queued` messages, `answers` |
| `IngestOnce` | what the worker promises | `fate` of each message, `outcome` of each key |
| `ReportKept` | what the investigator promises | `fate` of each alert's message, times it was `delivered`, `reports` by delivery, what Slack was `told` |
| `RuleEngine` | `load_context`, the rules, the transaction around them | `open` record and `loaded` context of each worker; `verdicts`: committed records with their findings and, as history, the rows they could know of |
| `PartnerClient` | `send`, the breakers, the partners' health | `breaker`, `fails`, `elapsed` (pybreaker); `send` (the locals of one call); `health`; `burst`, `blemished` (history) |
| `Investigator` | investigator processes, their queue, the graph | `queue`, `receives`; `pc` (graph node), `cur`, `state` (the declared part of `InvestigationState`); `rows`, `posted`, `failed` |
| `Feedback` | the feedback service: threads, transactions on the feedback columns, staging, restarts | `feedback` (columns of each row), `staged` (its file); `pc`, `payload`, `seen` (locals of each submission); `logged`; `version`, `base`, `at`, `lost` (history) |
| `Dashboard` | the dashboard's form, caches and overview, composed with `Feedback` | `client` (the page of each submission: waiting, told that feedback is saved, caches cleared, interrupted in between, given up), `cache` and `fill` (`st.cache_data` of `get_investigation`), `overview` (answers so far) |
| `Eval` | the runner, the two nodes it drives, the choice of the backend, scoring | `env`, `settings`, `backend` (what selects the model); `dataset`, `line`, `state`, `scores`, `summary` (locals of `run`) |
| `WorkerProofs`, `RuleEngineProofs`, `PartnerClientProofs`, `InvestigatorProofs`, `IngestApiProofs`, `DashboardProofs`, `EvalProofs` | - | the theorems |
| `LeastElements` | - | theorems on finite sets that stand in for induction over data |
| `MCWorker`, `MCRuleEngine`, `MCPartnerClient`, `MCInvestigator`, `MCIngestApi`, `MCDashboard`, `MCEval` | - | instances for TLC |

Each action is one operation of the code with all it changes; the comment above it says which.
A definition whose comment begins with "Mutant:" is a plausible bug in the definition
after it. It is not part of the specification: `PROJECT.json` pairs it with a property that no
longer holds once it replaces the original.

Abstractions that are used throughout:

* A delivery of a message is a *receipt*, the message with its receive count. All that a worker
  writes carries its receipt, as the code's fresh `alert.id` and `partner_request_id` do.
* A transaction is a set of locals that becomes visible in one step (`Commit`) or not at all. The
  unique constraint on the key makes an INSERT wait for another open transaction
  (`ClaimFirst` and `ClaimDuplicate` are both disabled) and then succeed or fail.
* `Worker` lets `evaluate_all` return any of `Verdicts`, a new one on each delivery, because the
  rows it reads keep changing. It assumes of them only that a rule fires at most once;
  `RuleEngineProofs` proves that of the rules (`OneFindingPerRule`).
* A lost answer is an operation that takes effect and then fails (`CommitUnconfirmed`,
  `ReceiveLost`, `DeliverUnconfirmed`, `SendUnconfirmed`, `StoreFails`, an unpublished alert
  that arrived all the same).
* Worker and API model any number of processes. Terraform runs one task of each, but a rolling
  deployment overlaps two, and the queue settings are made for more.
* `ingest_event` is `async` but makes blocking calls and awaits only the body, so that one process
  serves one call at a time. `IngestApi` interleaves processes, not calls of one process.
* pybreaker, LangGraph, boto3's retries, Streamlit's cache and the container runtime are not in the
  repository; they are modelled from how it constructs and calls them. Of the cache it matters that
  `clear()` replaces it: a query that was running stores its result where nobody looks any more.
* An UPDATE of the ORM writes the columns that differ from the loaded row, and no others
  (`Column` of `Feedback`); the database runs in its default isolation, READ COMMITTED.
* A staged file is absent, truncated, not JSON, or the text of one submission; writers that overlap
  may leave any of the last two.
* An idempotency key is the header as the client wrote it, or the digest of a text made of the
  record's `request_id|model|timestamp` (`DeriveKey`). The text and its digest are arbitrary functions
  (`Basis`, `Digest`): nothing says that different records have different keys. An id that contains
  `|`, or a header equal to another record's digest, makes two records share one, and the worker
  then decides only the first of them. `NoDuplicateAlerts` and `IngestOnce` speak of keys, not of records.
* Costs are multiples of a unit, accuracies fractions. The code compares binary floats, whose rounding can
  tell only where a cost is exactly twice the mean (three costs of 0.1 and one of 0.2: the ratio comes
  out just below 2). There `CostAnomaly` takes either outcome (`roundsUp`), and `CostAgainstHistory` demands
  a finding only where the ratio is above 2.

`Dashboard` EXTENDS `Feedback` and runs its actions in `Serve`, with the dashboard's state unchanged;
the dashboard's own actions leave the service alone and meet it only in what they read: the committed
row and the state of the request.

The API, the worker and the investigator each have an abstract specification, which has no processes,
only what their steps, retries and crashes may make of a call or a message. They implement it
under the mapping at the end of their modules:

* `IngestApi` implements `ArchiveFirst`: the open calls are those a process serves. A call is refused,
  accepted, failed or abandoned once, and after that nothing is stored, sent or answered for it.
* `Worker` implements `IngestOnce`: the fate of a message is read off the queue, the outcome of a key
  off its committed record and alerts.
* `Investigator` implements `ReportKept`: reports are the committed rows. None is ever replaced or
  removed, a delivery yields at most one, and only the last delivery may be followed by the DLQ.

An invariant sees one state; these see steps, so that an answer after which the sending goes on, or an
insert that replaces an earlier report, is told from a correct one.

## Runs

| Run | What it asks | Instance |
|---|---|---|
| `ingest` | are queued messages loadable and answers true; does `IngestApi` implement `ArchiveFirst` | 2 processes, 3 calls, 2 valid requests (with and without header), an invalid and a too large one, 3 send attempts, a crash |
| `dedupe` | is an event processed once and never lost, do delivery attempts match the alerts; does `Worker` implement `IngestOnce` | 2 workers, 2 messages with one key, 2 deliveries each, a finding of either severity, both partners, a crash or stop |
| `settled` | does every message leave the queue, a bad one to the DLQ; is a good one recorded, and what becomes of its investigation | 2 workers that take up to 2 messages at once, a good one with two findings and a bad one, a crash or stop, fairness |
| `pages_dedup` (violated) | can a partner recognise a repeated page | 1 worker, 1 message, no restart |
| `pages_recorded` (violated) | is every page on record as a delivery attempt | the same |
| `rules` | do the rules agree with definitions over the whole history | 2 workers, 4 of 9 records, windows of 2 rows |
| `breaker` | are outages bounded, partners isolated, results honest; do breakers close again | 2 partners, the code's 3 attempts and fail_max 5, 2 health changes, a restart |
| `investigator` | are investigations neither lost, cut short nor mixed up, and is every alert settled and, unless all deliveries fail, investigated; does `Investigator` implement `ReportKept` | 2 processes, an alert that exists or not, 2 deliveries, 2 verify loops, a crash or stop, fairness |
| `deltas_merged` (violated) | does a node's result reach the later nodes | 1 process, 1 alert |
| `dashboard` | do rows, staged files, caches (once cleared) and the overview agree with what was submitted; is a row shown in the end | 2 submissions, positive or negative, on 1 investigation, a restart in the same or a new container, fairness |
| `eval` | does a summary cover its dataset, and are scores those of the answers | 2 runs, 3 datasets, every backend, answers of up to 2 hypotheses that tie or are refused |
| `eval_backend` (violated) | does a summary name the backend whose answers it is about | the same |

**Bounds.** Receive counts are 2 where the deployed queue has 5: two deliveries already give every
pair of a first and a repeated one, and reaching the limit is as interesting at 2. Two processes
and two messages give every race for one key. Restarts are bounded because each adds only
another loss of all locals. The rule engine's windows are 2 rows instead of 20 and 50, so that
four records fill them, overflow them and have ties at their edge; its thresholds are scaled to match.
Two submissions are enough for a lost update, a torn file and a late writer; the two payloads
differ in the verdict and the notes and leave the cause empty, so that a commit writes
two columns, one or none. The theorem `FeedbackExact` is for any payloads. Two runs are the fewest
in which a memoized backend can be stale.
Where a bound is a guard it has a name (`MaxReceive`, `MaxRestarts`, `MaxChanges`, `MaxRecords`,
`MaxCrashes`, `MaxRuns`; `Events` for calls, `Submissions` for posts). `rules`, `ingest`, `eval` and `eval_backend`
do not check deadlock: they really stop when their bound is used up. Symmetry is used for processes
and event ids, in runs without liveness only.

Each run asks several questions of one state space where the answers need the same interleavings.
The worker is checked in two instances because the product of its dimensions is too large for one:
`dedupe` has both partners, either severity and batches of one; `settled` has two findings in one event,
batches of two and fairness, but one partner. `dedupe` has a view without `failed`, `orphaned` and
`unpublished`: no action reads these histories, and no property of that run does.

**Fairness.** A process that can go on does (`WF` of `Progress`: the loop polls for ever and every
call has a timeout), visibility timeouts expire and redrive happens (`WF`, SQS does both).
Nothing forces an arrival, an exception, a crash or a stop. `EventuallyRecorded` and
`EventuallyInvestigated` hence allow for a message all of whose deliveries failed.
For the breaker, `SF` of `Begin` says that alerts for each partner keep coming: the trial that closes
a breaker is made by a send, so without further alerts nothing closes it, and nothing needs it.
For the dashboard, `WF` of `Fill` and `Expire` says that a query ends, with or without a result, and
that time passes; nobody need ever look, click or submit, and no request need be answered.

## What the checks show

They hold: every module has all the properties of the runs above that are not marked as
violated. Four runs show disagreements between the code and what the repository says of it:

1. `partner_client.py:8` promises an idempotency key by which partners can deduplicate. The key
   is a fresh uuid of every `send`: a redelivered message pages again under another key
   (`pages_dedup`).
2. `docs/architecture/overview.md:32` says that delivery attempts are recorded. The rows are part of
   the transaction that claims the key, so that a rollback after a send erases them
   (`pages_recorded`).
3. `nodes.py` says that LangGraph merges what nodes return. Two keys the nodes rely on are not
   declared in `InvestigationState` and are dropped: the report lacks the metadata, and the model is
   called again at unaccounted cost (`deltas_merged`).
4. `eval/dataset/README.md` says that the real numbers come from running with `--backend bedrock`. `run`
   sets the environment variable after the settings were read and cached, so that the
   backend of the old settings answers and the summary is labelled with the requested one
   (`eval_backend`).

Noted while modelling, without a run of their own:

* `pages/1_Alerts.py:133` of the dashboard says that investigations are keyed by alert. A redelivered
  message stores a second one (`ReportsAccounted` bounds them by the number of deliveries).
* A record whose timestamp has no UTC offset passes validation, and then makes
  `MissingHeartbeat` raise at every delivery that finds an earlier record of its model committed, so that
  it ends in the dead-letter queue (`Raises` of `RuleEngine`).
* `docs/decisions/0002-sqs-over-kafka.md:41` says that the rule engine does not assume ordering. It
  does not fail on any order, but what it reports depends on it: verdicts that did not know of each
  other may report one silence twice. `HeartbeatExact` says of which rows a verdict knows.
* The comment at `rules.py:109` says ">2x" where the code tests `>=`: at exactly 2 it fires, unless rounding
  puts the ratio below.
* An exception of the HTTP client other than the two that `_do_request` catches escapes `send`
  and fails the whole message (phase `raised` of `PartnerClient`, `Fail` of `Worker`).
* `docs/defense-notes.md:39` speaks of five retries; `send` makes three attempts.
* `investigator/main.py:7-9` calls a lost publication recoverable by a backfill through the feedback
  endpoint; that endpoint has no such operation. What is known of such an alert is the log, if the send
  failed (`unpublished`) or the commit's reply was lost (`failed`), and nothing at all if the worker was
  killed between the commit and the publication (`orphaned`): the redelivery is dropped as a duplicate, and the loss is silent.
  `InvestigationsAccounted` lists these ways, and there is no other.
* The page says "Feedback saved" (`2_Investigations.py:243`) before it clears the caches (line 248). In
  between, and for good if it is interrupted there, other sessions are served the old row until it
  expires. `ClearedIsShown` begins with the clearing, `EventuallyShown` covers the rest.
* Two submissions that overlap may leave a row that neither reviewer submitted, because each writes
  only the columns it changes. `SerialIsExact` excepts them and says so.
* The dashboard tells a reviewer of a negative verdict that it was staged for the dataset; the
  service answers the same when staging failed, and only its log knows (`NegativeAccounted`).
* An answer of the model of which the schema refuses every hypothesis and the verdict makes
  `draft_postmortem` raise, which ends the whole run of the harness without a summary (`Raise`).
* An answer of the model without JSON, or with neither hypotheses nor a verdict, is reported as
  "undetermined" (`ReportLabel`): a case that expected this label would count it as correct. No case of
  the dataset does.
* In the compiled graph the second call of the model (3.) may answer otherwise than the first: the
  hypotheses of a report and its verdict then come from two answers.
* The README of the dataset describes an option `--include-regressions`, a GitHub Action and a common
  format with the staged files; none of them is in the repository.

## Proofs

All constants are arbitrary, under the assumptions their modules name. Every safety property of a
passing run, the three refinements included, is proved; the theorems that state one are listed in
`PROJECT.json`. The type invariant of a module is part of its inductive invariant.

* **`WorkerProofs`.** `TypeCorrect`. `ClaimsConsistent` is what makes the rest inductive: an open
  transaction holds its key alone and nothing is committed under it, so that a commit never meets
  another record, and a worker about to delete has a record behind it. From it follow
  `DedupeSafe` (a key alerts once), `NothingLost` (a deleted message is recorded),
  `RecordedStaysFinal` (an action property: a recorded key is decided for good) and, with what the
  open transaction's locals say of the pages, `AuditSound`. `NoInvestigationForgotten` follows the
  alerts of a commit through the publication loop, to the queue, the log, or a worker that was killed.
  `DeliveriesAlwaysAccounted` does the same for deliveries.
  `WorkerImplementsIngestOnce`: initial states map to initial states, a commit to `Decide`, a
  deletion to `Acknowledge`, everything else to a step of a message's fate or to a stutter; it
  needs that whoever holds a receipt holds one of a message that was sent.
* **`PartnerClientProofs`.** `BreakerSafe`, `PartnersIsolated` and `ResultsTrue`, from one invariant:
  the type invariant and the three properties, strengthened by `SendConsistent` (until a
  request ends, nothing has succeeded; while one is out, its breaker is not open). `SendsEnd`: the
  steps a send has left are bounded, and each retry leaves fewer.
* **`InvestigatorProofs`.** `InvestigatorTypeCorrect`, `InvestigationsSafe`, `VerificationComplete`,
  `ReportsSound`, from one invariant that says how loops, calls and cost are related at each graph
  node (`Phase`) and that a receipt is in one process's hands and has no row before its
  delivery (`ReceiptsOK`). `InvestigatorImplementsReportKept`: a commit maps to `Store`, which
  `ReceiptsOK` allows, a deletion to `Acknowledge`, because whoever deletes has stored a report.
  `RunsEnd`: the steps a run has left are bounded and become fewer with each of its steps.
* **`RuleEngineProofs`.** `RuleEngineTypeCorrect`; `HeartbeatSound` and `DriftSound`,
  for which `Faithful` is the strengthening: whatever the limit cuts
  off, a context contains, for each earlier row, one at least as recent. `StuckSound` needs
  `Selected`, that a context is exactly a newest part of the history, and an oldest record of the
  streak, which a finite set has (`LeastElements`). `OneFindingPerRule`. `CostSound`: a cost
  of at least twice the mean of a finite set is at least twice some member of it, and a cost of at
  least twice every member, and more than twice one, is more than twice the mean; both are bounds
  on a sum over the set.
* **`IngestApiProofs`.** `IngestApiTypeCorrect`, `IngestSafe`, `AcceptedIsQueued`,
  `RefusedLeavesNoTrace`, from `Sound`: a process has archived the object
  before it sends, has a message before it accepts, and nobody was answered for a call still in
  progress. `IngestImplementsArchiveFirst`: the processes' calls are distinct, so that releasing one
  closes one call and no other.
* **`DashboardProofs`.** Of `Feedback` and `Dashboard` together: `FeedbackExact`, `StagingHonest`,
  `StagingAccounted`, `ClearedShown`, `OverviewSound`. The strengthening relates versions: what a
  thread loaded is the row of its version if no commit came between, a cached entry and a running query
  are no newer than the row, and the answers of a half-built overview bound what
  the later ones can be, because rows and verdicts only grow.
* **`EvalProofs`.** `EvalComplete`: the scores are of the lines read so far that are not
  skipped, in order. `P95Bounds`: the index taken for the 95th percentile exists for any number of
  cases and is within half a case of nineteen twentieths of them. `EvalHonest`: after any number of
  insertions the ranking has the hypotheses of the answer in order, ties as the model gave them.

Sums over sets and the ranking of hypotheses are folds, and the library's induction rules take an
operator as a parameter, which the provers cannot instantiate. The proofs reason by least
counterexample instead: if a claim about a finite set failed, it would fail for a smallest
subset, whose parts satisfy it (`SmallestSubset`), or for a smallest key (`LeastKey`).
`LeastElements` proves both from the well-foundedness of proper subsets.

Only model-checked: liveness (`EventuallySettled`, `EventuallyRecorded`, `PoisonDeadLettered`,
`BreakerRecovers`, `EventuallyInvestigated`, `EventuallyShown`), which is out of the prover's reach. Of what
it rests on, `RunsEnd` and `SendsEnd` are proved: the graph's loop and the retry loop end by themselves,
so that fairness need only carry them on.

## Not modelled

* `judge.py` of the harness (the runner never calls it), the rendering of its report, costs, latencies
  (of them only the index of the percentile, by theorem) and the efficiency of tool calls, which
  the seeds of each rule fix whatever the model answers.
* The dashboard's lists, the alert page and the overview's queries on alerts: reads of the same shape as
  those modelled, of rows that are never changed. Its wording and layout.
* The tools: `gather_context` is one step that collects evidence or raises. Which queries it makes is
  told by the rule of the alert alone, and each returns data no property tells apart.
* Signing and payload formats, logging, the health endpoints, prompts and prices: no property depends
  on them. What is refused of a call is whether its body is too large (`TooLarge`, 413) or its record invalid (`Invalid`, 422).
* Terraform, Docker Compose and the workflow: declarative. What they set (visibility, receive counts,
  single tasks) is a bound or an action of the modules.
* Indexes and column widths of the database.

## Plan

The order was: what loses or repeats work first. `Worker` with `IngestOnce`, `PartnerClient`,
`Investigator`, `RuleEngine`, `IngestApi`, then `Feedback` with `Dashboard`, and `Eval`, each with its proofs.

What would be next:

1. `Pipeline`: `IngestApi` composed with `IngestOnce`, in place of the whole worker, and with the
   investigations queue: an accepted request is decided once however often it is posted, and
   from 202 to a record or a DLQ entry, under fairness. Each half is checked against the interface
   (`messages` of one, `Messages` and `KeyOf` of the other), the composition is not.
   With the interfaces proved (`ArchiveFirst`, `IngestOnce`, `ReportKept`) the composition can be made of
   the abstract specifications alone.
2. Abstract specifications of the feedback service (a register with serial writes) and of a breaker, with
   their refinements.
3. `judge.py`, once something calls it.
