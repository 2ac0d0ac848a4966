-------------------------------- MODULE Eval --------------------------------
(***************************************************************************)
(* The evaluation harness (src/apps/investigator/eval) with the language   *)
(* model backends it drives (investigator/llm.py).  A process imports the  *)
(* investigator, which reads its settings once, and then runs datasets:    *)
(* of each case, the model's answer is ranked (hypothesize), reported      *)
(* (draft_postmortem) and scored, and the scores become a summary.         *)
(* A confidence above MaxConfidence stands for any that is refused.  Left  *)
(* out are costs and latencies, and the efficiency of tool calls, which    *)
(* the seeds fix.                                                          *)
(***************************************************************************)
EXTENDS Naturals, SequencesExt

CONSTANTS
    Labels,         \* root cause labels
    EvidenceIds,
    Datasets,       \* sequences of cases and lines to skip
    Script,         \* the hypothesis that the scripted backend has for each rule
    Answers,        \* what a model may answer, parsed
    Undetermined,   \* the label of a report on nothing: a case may expect it
    NoLabel, Skip, NoBackend, NoSummary,
    MaxConfidence,
    MaxRuns         \* bound on runs in one process

ASSUME LimitAssumption == MaxConfidence \in Nat /\ MaxRuns \in Nat
ASSUME LabelAssumption == NoLabel \notin Labels \cup {Undetermined}

Case == [rule : DOMAIN Script, label : Labels \cup {NoLabel}, evidence : SUBSET EvidenceIds]
Hypothesis == [label : Labels, confidence : Nat, evidence : SUBSET EvidenceIds]

ASSUME DatasetAssumption == Skip \notin Case /\ Datasets \subseteq Seq(Case \cup {Skip})

Answer == [hypotheses : Seq(Hypothesis), label : Labels \cup {NoLabel}, confidence : Nat,
           evidence : SUBSET EvidenceIds]

ASSUME AnswerAssumption ==
    /\ Answers \subseteq Answer
    /\ \A rule \in DOMAIN Script : Script[rule] \in Hypothesis
    /\ IsFiniteSet(EvidenceIds)

VARIABLES
    env,        \* PGSCP_LLM_BACKEND
    settings,   \* llm_backend as get_settings has cached it
    backend,    \* the memoized _BACKEND
    runs, pc, dataset,
    line,       \* the line that is read next
    state,      \* of the case in hand: its ranked hypotheses and llm_response
    scores, summary

process == <<env, settings, runs, dataset>>
vars == <<process, backend, pc, line, state, scores, summary>>

-----------------------------------------------------------------------------
(* Backends.                                                               *)

Backends == {"scripted", "bedrock", "openai"}

(* Nothing in the answer, or no JSON in it: what its readers take of {}.   *)
Unparsed == [hypotheses |-> << >>, label |-> NoLabel, confidence |-> 0, evidence |-> {}]

Scripted(rule) == [hypotheses |-> <<Script[rule]>>, label |-> Script[rule].label,
                   confidence |-> Script[rule].confidence, evidence |-> EvidenceIds]

(* The other two ask a model.                                              *)
Invoke(b, case) ==
    [answer : IF b = "scripted" THEN {Scripted(case.rule)} ELSE Answers \cup {Unparsed},
     backend : {b}]

GetBackend == IF backend # NoBackend THEN backend ELSE settings

-----------------------------------------------------------------------------
(* Nodes.                                                                  *)

(* A verdict without hypotheses is taken as one.                           *)
Raw(a) ==
    IF a.hypotheses = << >> /\ a.label # NoLabel
    THEN <<[label |-> a.label, confidence |-> a.confidence, evidence |-> a.evidence]>>
    ELSE a.hypotheses

Accepted(h) == h.confidence <= MaxConfidence

(* Mutant: of two that are equally confident the later one comes first.    *)
InsertEqualFirst(ranked, h) ==
    LET above == {k \in DOMAIN ranked : ranked[k].confidence > h.confidence}
    IN  IF Accepted(h) THEN InsertAt(ranked, Cardinality(above) + 1, h) ELSE ranked

(* One that the schema accepts goes behind all those of its confidence.    *)
Insert(ranked, h) ==
    LET above == {k \in DOMAIN ranked : ranked[k].confidence >= h.confidence}
    IN  IF Accepted(h) THEN InsertAt(ranked, Cardinality(above) + 1, h) ELSE ranked

(* Those that the schema accepts, by falling confidence; sort is stable.   *)
Ranked(a) == FoldLeft(Insert, << >>, Raw(a))

(* Without a hypothesis the verdict itself must pass the schema.           *)
Draftable(s) == s.ranked # << >> \/ Accepted(s.response.answer)

ReportLabel(s) ==
    CASE s.ranked # << >> -> s.ranked[1].label
      [] s.ranked = << >> /\ s.response.answer.label = NoLabel -> Undetermined
      [] OTHER -> s.response.answer.label

Cited(s) == UNION {s.ranked[k].evidence : k \in DOMAIN s.ranked}

(* score_case; a precision is a fraction.                                  *)
Precision(expected, cited) ==
    CASE expected = {} -> <<1, 1>>
      [] expected # {} /\ cited = {} -> <<0, 1>>
      [] OTHER -> <<Cardinality(expected \cap cited), Cardinality(cited)>>

ScoreCase(case, s) ==
    [line |-> line,
     root_cause_correct |-> case.label # NoLabel /\ case.label = ReportLabel(s),
     evidence_precision |-> Precision(case.evidence, Cited(s)),
     response |-> s.response]

-----------------------------------------------------------------------------

(* The modules are imported before main: their loggers are bound to the    *)
(* settings, so that these are read and cached.                            *)
Init ==
    /\ env \in Backends
    /\ settings = env
    /\ backend = NoBackend
    /\ runs = 0
    /\ pc = "ended"
    /\ dataset = << >>
    /\ line = 1
    /\ state = << >>
    /\ scores = << >>
    /\ summary = NoSummary

(* run, without a backend to use or with one.                              *)
Run ==
    /\ pc = "ended" /\ runs < MaxRuns
    /\ runs' = runs + 1
    /\ \/ UNCHANGED <<env, backend>>
       \/ env' \in Backends /\ backend' = NoBackend
    /\ dataset' \in Datasets
    /\ pc' = "case"
    /\ line' = 1 /\ scores' = << >> /\ summary' = NoSummary
    /\ UNCHANGED <<settings, state>>

More == line <= Len(dataset)

SkipLine ==
    /\ pc = "case" /\ More /\ dataset[line] = Skip
    /\ line' = line + 1
    /\ UNCHANGED <<process, backend, pc, state, scores, summary>>

Hypothesize ==
    /\ pc = "case" /\ More /\ dataset[line] # Skip
    /\ \E response \in Invoke(GetBackend, dataset[line]) :
        state' = [ranked |-> Ranked(response.answer), response |-> response]
    /\ backend' = GetBackend
    /\ pc' = "draft"
    /\ UNCHANGED <<process, line, scores, summary>>

(* state.update(delta) keeps llm_response: the model is not asked again.   *)
Draft ==
    /\ pc = "draft" /\ Draftable(state)
    /\ scores' = Append(scores, ScoreCase(dataset[line], state))
    /\ line' = line + 1
    /\ pc' = "case"
    /\ UNCHANGED <<process, backend, state, summary>>

(* Mutant: the case that failed is passed over.                            *)
RaiseAndGoOn ==
    /\ pc = "draft" \/ (pc = "case" /\ More /\ dataset[line] # Skip)
    /\ backend' \in {backend, GetBackend}
    /\ line' = line + 1
    /\ pc' = "case"
    /\ UNCHANGED <<process, state, scores, summary>>

(* A line that cannot be read, a backend without its package, a model that *)
(* fails or a report that is refused ends the run.                         *)
Raise ==
    /\ pc = "draft" \/ (pc = "case" /\ More /\ dataset[line] # Skip)
    /\ backend' \in {backend, GetBackend}
    /\ pc' = "ended"
    /\ UNCHANGED <<process, line, state, scores, summary>>

Correct(k) == scores[k].root_cause_correct

Aggregate ==
    /\ pc = "case" /\ ~More
    /\ summary' = [n |-> Len(scores), correct |-> Cardinality({k \in DOMAIN scores : Correct(k)}),
                   backend |-> env, scores |-> scores]
    /\ pc' = "ended"
    /\ UNCHANGED <<process, backend, line, state, scores>>

Next == Run \/ SkipLine \/ Hypothesize \/ Draft \/ Raise \/ Aggregate

Spec == Init /\ [][Next]_vars

(* The index of the 95th percentile among n sorted latencies: Python's     *)
(* round goes to the even neighbour when two are equally near.             *)
P95Index(n) ==
    LET q == (19 * n) \div 20
        r == (19 * n) % 20
        rounded == IF r > 10 \/ (r = 10 /\ q % 2 = 1) THEN q + 1 ELSE q
    IN  IF rounded = 0 THEN 0 ELSE rounded - 1

-----------------------------------------------------------------------------
(* Properties.                                                             *)

(* A summary is of every case of its dataset, each once and in order: a    *)
(* case that fails leaves no summary, rather than one of the easier cases. *)
SummaryComplete ==
    summary # NoSummary =>
        /\ summary.n = Len(summary.scores)
        /\ {summary.scores[k].line : k \in 1..summary.n} =
              {l \in 1..Len(dataset) : dataset[l] # Skip}
        /\ \A j, k \in 1..summary.n : j < k => summary.scores[j].line < summary.scores[k].line

(* A case is correct if, and only if, its label is given to the first of   *)
(* the most confident hypotheses that the schema accepts or, where there   *)
(* is none, is the verdict, "undetermined" without one; what it cites is   *)
(* what such hypotheses cite.                                              *)
ScoreHonest ==
    \A k \in 1..Len(scores) :
        LET case == dataset[scores[k].line]
            answer == scores[k].response.answer
            raw == Raw(answer)
            valid == {j \in DOMAIN raw : Accepted(raw[j])}
            best == {j \in valid : \A i \in valid :
                        \/ raw[i].confidence < raw[j].confidence
                        \/ raw[i].confidence = raw[j].confidence /\ j <= i}
            verdict == IF answer.label = NoLabel THEN Undetermined ELSE answer.label
            verdicts == {raw[j].label : j \in best} \cup (IF valid = {} THEN {verdict} ELSE {})
            cited == UNION {raw[j].evidence : j \in valid}
        IN  /\ scores[k].root_cause_correct <=> case.label \in verdicts \ {NoLabel}
            /\ scores[k].evidence_precision[1] * Cardinality(cited)
                  = scores[k].evidence_precision[2] * Cardinality(case.evidence \cap cited)
               \/ case.evidence = {}

(* The report names the backend whose answers it is about.                 *)
BackendAsReported ==
    summary # NoSummary =>
        \A k \in 1..Len(summary.scores) : summary.scores[k].response.backend = summary.backend

=============================================================================
