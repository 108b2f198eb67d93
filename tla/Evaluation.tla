------------------------------ MODULE Evaluation -------------------------------
(***************************************************************************)
(* evaluate_golden_dataset and the ai_eval program around it: every golden *)
(* case is run with every model, again and again, through a fresh          *)
(* AgentSession whose provider calls are observed; the runs are judged,    *)
(* counted and reported.  A host other than ai_eval may pass a stop token. *)
(***************************************************************************)
EXTENDS GoldenDataset, ExampleRetrieval


CONSTANTS
  Datasets,    \* the dataset at each path
  Corpora,     \* the retrieval corpus at each path
  Plans,       \* what can be evaluated: who calls, dataset, corpus and settings
  MaxRepairs   \* EvaluationSettings::maximum_repair_attempts

VARIABLES
  plan,        \* the plan being carried out
  cases,       \* GoldenDataset::cases after the filter, by directory
  stage,       \* how far the evaluation is
  report,      \* EvaluationReport::cases
  observed,    \* ObservingProvider::attempts of the current run
  retrieved,   \* the retrieval result in the current run's first prompt
  written,     \* the report file: "none", "partial" or "whole"
  exit,        \* the program's exit code, -1 before (0 for a host that got a report)
  pc, state, stop, purpose, calls, attempts, candidate, seen, previous,
  previousViolations, result   \* the current run's AgentSession

session == <<pc, state, stop, purpose, calls, attempts, candidate, seen, previous,
             previousViolations, result>>
evaluation == <<plan, cases, stage, report, observed, retrieved, written, exit>>
allVars == <<evaluation, session>>

-----------------------------------------------------------------------------
(* The product of models, repetitions and cases.                           *)

Golds == Datasets[plan.dataset].disk
Examples == Corpora[plan.corpus].examples

Total(p) == Len(p.models) * p.repetitions * Len(cases)

\* The n-th run: cases fastest, models slowest.
RunAt(n) ==
  LET c == Len(cases)
  IN  [model |-> plan.models[((n - 1) \div (plan.repetitions * c)) + 1],
       repetition |-> (((n - 1) \div c) % plan.repetitions) + 1,
       entry |-> cases[((n - 1) % c) + 1]]

Current == RunAt(Len(report) + 1)
Golden == Golds[Current.entry]

Instructions ==
  UNION {{Datasets[d].disk[c].prompt : c \in DOMAIN Datasets[d].disk} : d \in DOMAIN Datasets}

\* What is computed of each instruction and script: the clauses, what the
\* session is told, and what is retrieved.
Asked == [i \in Instructions |-> Extract(i)]
Queries == [i \in Instructions |-> Query(i)]
SessionDiagnostics == [s \in Scripts |-> IF Compiles(s) THEN {} ELSE {s}]
SessionViolations ==
  [i \in Instructions |->
     [s \in Scripts |-> IF Compiles(s) THEN HighViolations(Asked[i], FactsOf[s]) ELSE {}]]
Interactive ==
  [i \in Instructions |-> [s \in DOMAIN Programs |-> Verify(Asked[i], FactsOf[s])]]

\* What the golden requirements and the expected program say of each script.
Loadable == {d \in DOMAIN Datasets : ~Diagnosed(Datasets[d])}
GoldenVerdict ==
  [d \in Loadable |-> [c \in DOMAIN Datasets[d].disk |-> [s \in DOMAIN Programs |->
     LET golden == Datasets[d].disk[c]
     IN  IF ~golden.expectedValid
         THEN [semantic |-> "NotEvaluated", requirement |-> "NotEvaluated"]
         ELSE [semantic |-> IF SameSemantics(FactsOf[golden.expected], FactsOf[s])
                            THEN "Match" ELSE "Mismatch",
               requirement |-> Verify(Materialize(golden), FactsOf[s])]]]]

\* build_generation: the examples in the first prompt, if so configured.
Retrieved ==
  [p \in Plans |->
     [i \in Instructions |->
        IF ~p.structural THEN NothingRetrieved("none")
        ELSE IF p.caller = "host" /\ Corpora[p.corpus].examples = <<>>
        THEN NothingRetrieved("RetrieverUnavailable")
        ELSE Retrieve(Queries[i], Corpora[p.corpus].examples, p.retrieval)]]

\* Examples are lists, their costs are sizes and their scores are numbers.
ASSUME CorporaAssumption ==
  /\ \A c \in DOMAIN Corpora :
       LET examples == Corpora[c].examples
       IN  /\ examples \in Seq(Range(examples))
           /\ \A e \in DOMAIN examples :
                /\ examples[e].bytes \in Nat
                /\ \A i \in Instructions : Score(Queries[i], examples[e]) \in Int
  /\ \A p \in Plans :
       /\ p.corpus \in DOMAIN Corpora
       /\ p.retrieval.topK \in Nat /\ p.retrieval.budget \in Nat

Session(violations) == INSTANCE AgentSession WITH
  Diagnostics <- SessionDiagnostics, Violations <- violations

\* The session of the current run.
Here == {SessionViolations[Golden.prompt]}

-----------------------------------------------------------------------------
(* Judging one run.                                                        *)

Status ==
  CASE result.kind = "proposal" -> "Completed"
    [] result.kind = "unsupported" -> "Unsupported"
    [] result.code = "Cancelled" -> "Cancelled"
    [] OTHER -> "Failed"

VerdictOfCompiler(item, highUnknown) ==          \* mutant: requirements are not asked
  IF item.status # "Completed" /\ item.script = NoScript THEN "Reject"
  ELSE IF ~item.finalValid \/ item.support = "Unsupported" THEN "Reject"
  ELSE IF item.support \in {"PartiallySupported", "Uncertain"} THEN "ReviewRequired"
  ELSE "Allow"

\* acceptance_decision.  A decision starts at Allow and is taken back; a
\* later reason may overwrite an earlier one.
Verdict(item, highUnknown) ==
  IF item.status # "Completed" /\ item.script = NoScript THEN "Reject"
  ELSE IF ~item.finalValid \/ item.support = "Unsupported" THEN "Reject"
  ELSE LET start == IF item.support \in {"PartiallySupported", "Uncertain"} THEN "ReviewRequired"
                    ELSE IF item.status # "Completed" THEN "Reject" ELSE "Allow"
           review == IF start = "Reject" THEN "Reject" ELSE "ReviewRequired"
       IN  CASE item.interactive = "Satisfied" -> start
             [] item.interactive = "Violated" -> "Reject"
             [] item.interactive = "Unknown" -> IF highUnknown THEN "Reject" ELSE review
             [] item.interactive = "NotEvaluated" -> review

\* The CaseEvaluation of the run just finished.  The support assessment of a
\* failed run keeps its default; the golden requirements are verified only
\* for a case that expects a program and a script that compiles.
Item(golden) ==
  LET s == result.script
      finalValid == s # NoScript /\ Compiles(s)
      judged == IF finalValid THEN GoldenVerdict[plan.dataset][Current.entry][s]
                ELSE [semantic |-> "NotEvaluated", requirement |-> "NotEvaluated"]
      failed == Status \in {"Failed", "Cancelled"}
      expected == ExpectedSupport(golden)
      support == IF failed THEN "Supported" ELSE Assess(golden.prompt.operations)
      interactive == IF finalValid THEN Interactive[golden.prompt][s] ELSE "NotEvaluated"
      highUnknown == Has(Asked[golden.prompt], LAMBDA c : c.typed = FALSE /\ c.confidence = "High")
  IN  [case |-> golden.id, model |-> Current.model, repetition |-> Current.repetition,
       cold |-> Current.repetition = 1 /\ Current.entry = cases[1],
       expectedSupported |-> golden.expectedValid, expectedSupport |-> expected,
       status |-> Status, script |-> s,
       firstValid |-> observed # <<>> /\ Compiles(observed[1].script),
       finalValid |-> finalValid,
       semantic |-> judged.semantic, requirement |-> judged.requirement,
       interactive |-> interactive, support |-> support,
       repairs |-> IF observed = <<>> THEN 0 ELSE Len(observed) - 1,
       corrected |-> Has(observed, LAMBDA a : a.purpose = "RequirementCorrection"),
       recognized |-> Status = "Unsupported" /\ expected = "Unsupported",
       supportMatches |-> ~failed /\ support = expected,
       verdict |-> Verdict([status |-> Status, script |-> s, finalValid |-> finalValid,
                            support |-> support, interactive |-> interactive], highUnknown)]

-----------------------------------------------------------------------------
(* Counting: summarize and build_case_trends, one run after the other.     *)

Accepted(r) == r.verdict = "Allow" /\ r.expectedSupported /\ r.requirement = "Satisfied"

Add(condition) == IF condition THEN 1 ELSE 0

NoRuns ==
  [total |-> 0, applicable |-> 0,
   support |-> [s \in SupportStates |-> 0],
   semantic |-> [s \in {"Match", "Mismatch", "NotEvaluated"} |-> 0],
   requirement |-> [s \in {"Satisfied", "Violated", "Unknown", "NotEvaluated"} |-> 0],
   verdict |-> [v \in {"Allow", "ReviewRequired", "Reject"} |-> 0],
   accepted |-> 0, recognized |-> 0, cold |-> 0, repaired |-> 0]

Summed(sums, r) ==
  [total |-> sums.total + 1,
   applicable |-> sums.applicable + Add(r.expectedSupported),
   support |-> [sums.support EXCEPT ![r.expectedSupport] = @ + 1],
   semantic |-> [sums.semantic EXCEPT ![r.semantic] = @ + 1],
   requirement |-> [sums.requirement EXCEPT ![r.requirement] = @ + 1],
   verdict |-> [sums.verdict EXCEPT ![r.verdict] = @ + 1],
   accepted |-> sums.accepted + Add(Accepted(r)),
   recognized |-> sums.recognized + Add(r.recognized),
   cold |-> sums.cold + Add(r.cold),
   repaired |-> sums.repaired + Add(r.repairs # 0)]

\* The runs of other models are passed over.
Summary(m) ==
  LET after[n \in 0..Len(report)] ==
        IF n = 0 THEN NoRuns
        ELSE IF report[n].model # m THEN after[n - 1]
        ELSE Summed(after[n - 1], report[n])
  IN  after[Len(report)]

\* Runs of one model on one case id are one trend.
Key(r) == <<r.model, r.case>>

NewTrend == [repetitions |-> 0, satisfied |-> 0, allowed |-> 0, accepted |-> 0]

Counted(trend, r) ==
  [repetitions |-> trend.repetitions + 1,
   satisfied |-> trend.satisfied + Add(r.requirement = "Satisfied"),
   allowed |-> trend.allowed + Add(r.verdict = "Allow"),
   accepted |-> trend.accepted + Add(Accepted(r))]

\* The trend of a run's key is begun if it is not found.
Found(trends, key) == IF key \in DOMAIN trends THEN trends[key] ELSE NewTrend

Entered(trends, r) ==
  [key \in DOMAIN trends \cup {Key(r)} |->
     IF key = Key(r) THEN Counted(Found(trends, key), r) ELSE trends[key]]

Trends ==
  LET after[n \in 0..Len(report)] ==
        IF n = 0 THEN <<>> ELSE Entered(after[n - 1], report[n])
  IN  after[Len(report)]

-----------------------------------------------------------------------------
(* Before the runs: what ai_eval checks.                                   *)

\* The cases left by the case filter, in the order of the manifest; none, or a
\* filter that names no case, is an error.
Chosen(p) ==
  LET listed == Datasets[p.dataset].cases
      kept == {k \in DOMAIN listed : p.only = {} \/ listed[k] \in p.only}
      place(k) == Cardinality({j \in kept : j <= k})
  IN  [n \in 1..Cardinality(kept) |-> listed[CHOOSE k \in kept : place(k) = n]]

\* A manifest is a list of names; there is a model, and a repetition, to run.  A
\* host takes its cases from a dataset that was loaded; evaluate_golden_dataset
\* refuses one that comes without cases or names a model twice.
ASSUME PlansAssumption ==
  /\ MaxRepairs \in Nat
  /\ \A d \in DOMAIN Datasets :
       /\ Datasets[d].cases \in Seq(Range(Datasets[d].cases))
       /\ \A c \in DOMAIN Datasets[d].disk :
            LET selectors == Datasets[d].disk[c].selectors
            IN  selectors \in Seq(Range(selectors))
  /\ \A p \in Plans :
       /\ p.dataset \in DOMAIN Datasets /\ p.caller \in {"ai_eval", "host"}
       /\ p.models \in Seq(Range(p.models)) /\ p.models # <<>> /\ p.repetitions \in Nat \ {0}
       /\ p.caller = "host" =>
            /\ ~Diagnosed(Datasets[p.dataset]) /\ Chosen(p) # <<>>
            /\ IsInjective(p.models)

Init ==
  /\ plan \in Plans
  /\ cases = IF plan.caller = "ai_eval" THEN <<>> ELSE Chosen(plan)
  /\ stage = IF plan.caller = "ai_eval" THEN "dataset" ELSE "next"
  /\ report = <<>> /\ observed = <<>>
  /\ retrieved = NothingRetrieved("none")
  /\ written = "none" /\ exit = -1
  /\ \E v \in {SessionViolations[i] : i \in Instructions} : Session(v)!Init
  /\ stop = FALSE

Leave(code) == stage' = "exited" /\ exit' = code

Enter(next) == stage' = next /\ UNCHANGED exit

LoadDataset ==
  /\ stage = "dataset"
  /\ cases' = Chosen(plan)
  /\ IF \/ Diagnosed(Datasets[plan.dataset])
        \/ cases' = <<>> \/ ~(plan.only \subseteq Range(cases'))
     THEN Leave(2)
     ELSE Enter(IF plan.structural THEN "corpus" ELSE "models")
  /\ UNCHANGED <<plan, report, observed, retrieved, written, session>>

LoadCorpus ==
  /\ stage = "corpus"
  /\ IF CorpusAccepted(Corpora[plan.corpus], DOMAIN Programs) THEN Enter("models") ELSE Leave(2)
  /\ UNCHANGED <<plan, cases, report, observed, retrieved, written, session>>

\* The provider cannot be asked, lacks a model, or has them all; the settings
\* are checked only after that, and refuse a model named twice.
QueryModels ==
  /\ stage = "models"
  /\ \/ Leave(3)
     \/ IsInjective(plan.models) /\ Enter("next")
     \/ ~IsInjective(plan.models) /\ Leave(2)
  /\ UNCHANGED <<plan, cases, report, observed, retrieved, written, session>>

-----------------------------------------------------------------------------
(* One run.                                                                *)

\* The prompt of a run is built, with retrieved examples if so configured.
StartRun ==
  /\ stage = "next"
  /\ Enter("session")
  /\ observed' = <<>>
  /\ retrieved' = Retrieved[plan][Golden.prompt]
  /\ \E v \in Here : stop' = stop /\ Session(v)!Call
  /\ UNCHANGED <<plan, cases, report, written>>

\* The session refuses exactly the instructions assessed as unsupported.
Assessed ==
  /\ stage = "session"
  /\ \E v \in Here : Session(v)!Preflight
  /\ result'.kind = "unsupported" => Assess(Golden.prompt.operations) = "Unsupported"
  /\ pc' = "loop" => Assess(Golden.prompt.operations) # "Unsupported"
  /\ UNCHANGED evaluation

Converse ==
  /\ stage = "session"
  /\ \E v \in Here : \/ Session(v)!AskProvider
                     \/ Session(v)!BeginValidation
                     \/ Session(v)!ValidationThrows
                     \/ Session(v)!Judge
  /\ UNCHANGED evaluation

ObserveNothingThrown(reply, s) ==                \* mutant: an exception leaves no attempt
  observed' = IF reply = "throws" THEN observed
              ELSE Append(observed, [purpose |-> purpose, reply |-> reply, script |-> s])

\* ObservingProvider::generate: whatever the call did is recorded.
Observe(reply, s) ==
  observed' = Append(observed, [purpose |-> purpose, reply |-> reply, script |-> s])

ProviderReturns ==
  /\ stage = "session"
  /\ \E v \in Here :
       \/ \E fault \in {"throws", "error", "cancelled", "unusable", "blank"} :
            Session(v)!ProviderFault(fault) /\ Observe(fault, NoScript)
       \/ \E s \in Scripts : Session(v)!ProviderAnswer(s) /\ Observe("script", s)
  /\ UNCHANGED <<plan, cases, stage, report, retrieved, written, exit>>

RevalidationRestarts ==                          \* mutant: the run is started again
  /\ stage = "session" /\ pc = "idle"
  /\ result.code = "ValidationFailure"
  /\ Enter("next")
  /\ UNCHANGED <<plan, cases, report, observed, retrieved, written, session>>

\* finalize compiles the answers again; if the compiler threw in the session it
\* may throw here, where nothing catches it, and no report is made.
RevalidationThrows ==
  /\ stage = "session" /\ pc = "idle"
  /\ result.code = "ValidationFailure"
  /\ Leave(3)
  /\ UNCHANGED <<plan, cases, report, observed, retrieved, written, session>>

\* The run is recorded, then the token is read: it ends all three loops.
FinishRun ==
  /\ stage = "session" /\ pc = "idle"
  /\ report' = Append(report, Item(Golden))
  /\ IF stop \/ Len(report) + 1 = Total(plan)
     THEN IF plan.caller = "ai_eval" THEN Enter("write") ELSE Leave(0)
     ELSE Enter("next")
  /\ UNCHANGED <<plan, cases, observed, retrieved, written, session>>

\* ai_eval passes no token; another host may trigger its own at any time.
RequestStop ==
  /\ plan.caller = "host" /\ stage \in {"next", "session"} /\ ~stop
  /\ stop' = TRUE
  /\ UNCHANGED <<evaluation, pc, state, purpose, calls, attempts, candidate, seen, previous,
                 previousViolations, result>>

-----------------------------------------------------------------------------
\* The report is opened and written, the stream checked once, before the last
\* of it leaves the buffer: the tail can be lost without notice.
WriteReport ==
  /\ stage = "write"
  /\ \/ Leave(3) /\ written' \in {"none", "partial"}
     \/ Leave(0) /\ written' \in {"partial", "whole"}
  /\ UNCHANGED <<plan, cases, report, observed, retrieved, session>>

EvaluationStep ==
  \/ LoadDataset \/ LoadCorpus \/ QueryModels
  \/ StartRun \/ Assessed \/ Converse \/ ProviderReturns
  \/ RevalidationThrows \/ FinishRun
  \/ WriteReport

Next == EvaluationStep \/ RequestStop

\* One thread runs on; every provider call ends by its timeout.
Fairness == WF_allVars(EvaluationStep)

Spec == Init /\ [][Next]_allVars
FairSpec == Spec /\ Fairness

-----------------------------------------------------------------------------
(* Properties.                                                             *)

\* A script is allowed only when everything known speaks for it: the session
\* completed, the script compiles, the whole request is supported and asks for
\* something, and each clause of it holds of the program, an ambiguous one
\* included; a later reason never brings back a run that failed or was
\* cancelled (evaluation.cpp:303-368; guardrail evaluation plan, rule g1).
AllowIsEarned ==
  \A n \in DOMAIN report :
    LET r == report[n]
        prompt == Golds[RunAt(n).entry].prompt
    IN  /\ r.status # "Completed" => r.verdict = "Reject"
        /\ r.verdict = "Allow" =>
             /\ Compiles(r.script) /\ Assess(prompt.operations) = "Supported"
             /\ Asked[prompt] # <<>>
             /\ \A k \in DOMAIN Asked[prompt] :
                  Outcome(Asked[prompt][k], FactsOf[r.script]) = "Satisfied"

\* What the observer saw of a run is what the session did: one attempt for each
\* provider call, within the shared budget; a completed run's script is the last
\* attempt; and an attempt that finalize marks as a repetition was the last one
\* and did not succeed (evaluation.cpp:63-178, 1042-1070).
ObserverSawTheSession ==
  stage = "session" =>
    /\ Len(observed) = calls - (IF pc = "provider" THEN 1 ELSE 0)
    /\ Len(observed) <= MaxRepairs + 1
    /\ result.kind = "proposal" => observed[Len(observed)].script = result.script
    /\ \A j, k \in DOMAIN observed :
         j < k /\ observed[j].script = observed[k].script =>
           k = Len(observed) /\ result.kind # "proposal"

\* However the counters are raised run by run, every run is counted once in each
\* breakdown and in one trend, the fractions reported have a numerator within
\* their denominator, one run of each model is cold, and a report that is written
\* has all runs.  Runs are never lost silently: where an exception of the compiler
\* leaves no report, the evaluation does not succeed (evaluation.cpp:147, 655-900).
ReportAddsUp ==
  /\ \A k \in DOMAIN plan.models :
       LET m == plan.models[k]
           s == Summary(m)
           sum(f) == FoldFunction(+, 0, f)
           trends == Trends
           keys == {key \in DOMAIN trends : key[1] = m}
       IN  /\ \A f \in {s.support, s.semantic, s.requirement, s.verdict} : sum(f) = s.total
           /\ sum([key \in keys |-> trends[key].repetitions]) = s.total
           /\ sum([key \in keys |-> trends[key].satisfied]) = s.requirement["Satisfied"]
           /\ sum([key \in keys |-> trends[key].accepted]) = s.accepted
           /\ \A key \in keys : trends[key].repetitions <= plan.repetitions
           /\ s.requirement["Satisfied"] <= s.applicable
           /\ s.accepted <= s.verdict["Allow"]
           /\ s.recognized <= s.support["Unsupported"]
           /\ s.total > 0 => s.cold = 1
  /\ written # "none" => Len(report) = Total(plan)
  /\ exit = 0 => IF plan.caller = "ai_eval" THEN written # "none"
                 ELSE Len(report) = Total(plan) \/ stop

\* The two judgements of a script agree where they overlap: one that means the
\* same as the expected program, the expected program itself included, meets
\* every requirement taken from it, unless a name is asked for
\* (golden_dataset.cpp:502-545, semantic_comparison.cpp:199-262).
MatchMeetsRequirements ==
  \A n \in DOMAIN report :
    /\ report[n].semantic = "Match" =>
         \/ report[n].requirement \in {"Satisfied", "NotEvaluated"}
         \/ \E c \in DOMAIN Golds :
              /\ Golds[c].id = report[n].case
              /\ Has(Materialize(Golds[c]), LAMBDA r : "name" \in r.constrain)
    /\ \A c \in DOMAIN Golds :
         LET d == Golds[c]
         IN  d.expectedValid /\ d.selectors # <<>> =>
               Verify(Materialize(d), FactsOf[d.expected]) = "Satisfied"

\* What is put into a prompt fits the budget and the limit and repeats nothing,
\* and what ranked above it and was left out was left out for a reason
\* (retrieval.cpp:1011-1046).
RetrievalWithinBudget ==
  LET corpus == Examples
      picked == retrieved.selected
      cost(k) == Cost(corpus[picked[k]], plan.retrieval.unit)
  IN  stage = "session" /\ retrieved.diagnostic = "none" /\ picked # <<>> =>
        /\ Len(picked) <= plan.retrieval.topK
        /\ FoldFunction(+, 0, [k \in DOMAIN picked |-> cost(k)]) <= plan.retrieval.budget
        /\ \A j, k \in DOMAIN picked :
             j < k => ~NearDuplicate(corpus[picked[j]], corpus[picked[k]])
        /\ \A e \in retrieved.rejected : e \notin Range(picked)
        /\ \A e \in Range(Ranked(Queries[Golden.prompt], corpus)) :
             \/ e \in Range(picked) \cup retrieved.suppressed \cup retrieved.rejected
             \/ Len(picked) = plan.retrieval.topK

\* Every evaluation ends, with an exit code.
EvaluationEnds == <>(stage = "exited")

=============================================================================
