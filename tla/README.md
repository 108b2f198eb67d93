# HorusRF in TLA+

HorusRF is a language for RF characterization, a compiler and runtime for it,
and a desktop application (Studio) that edits scripts, runs them and lets a
local language model propose them. This directory holds TLA+ models of its
parts, the TLC configurations that check them, and TLAPS proofs about them.

## 1. Inventory

| Part | Source (`src/`) | State | Operations | What is hard | What makes it correct |
|---|---|---|---|---|---|
| Agent session | `src/ai/agent.cpp` | `state_` (atomic), locals of `run`: candidate, previous, seen, counters | `generate`, `modify` | two retry loops share one counter; a stop token another thread triggers at any time; exceptions from provider, parser, validator, prompt builder | bounded calls, progress between calls, newest candidate reported, always returns |
| Assistant service | `src/studio/assistant_service.cpp` | `active_`, `worker_`, `last_result_`, `last_discovery_`, retriever | `startRequest`, `discoverModels`, `cancel`, destructor | worker thread, queued completion, joins on the GUI thread | one operation at a time, no blocked GUI, every operation ends |
| Assistant panel | `src/studio/assistant_panel.cpp` | request snapshot, proposal, verdict, buttons | submit, retry, cancel, apply, discard, discover, `contentsChanged` | the document moves while a request runs | Apply only for a proposal of the document as it is |
| Experiment runner | `src/studio/experiment_runner.cpp` | `active_`, `last_result_`, temporary directory, QProcess | `validate`, `run`, `cancel` | synchronous failure signals, crash versus failure to start, late events | each operation reported once |
| Main window | `src/studio/main_window.cpp` | document, undo history, file path, actions, results | new, open, save, validate, run, close | undo past a save, failed saves, failed runs | modified mark, actions and results tell the truth |
| Results model and view | `src/studio/results_*.cpp` | charts of the last results | load, select | none concurrent | shows what was loaded |
| Editor, highlighter | `src/studio/dsl_editor.cpp`, ... | presentation | - | - | - |
| Provider and transport | `src/ai/ollama_provider.cpp`, `http_transport.cpp` | socket, deadline, bytes sent and received, model digest cache | `generate`, `list_models`, `send` | a deadline and a stop token read between waits; replies cut short; a name lookup that reads neither | one outcome per call, blamed on the caller only with cause, made of a whole reply, and in the end |
| Support and requirement verification | `src/ai/support_assessment.cpp`, `requirement_verification.cpp`, `semantic_comparison.cpp` | none | `assess_support`, `verify_requirements` | what is not understood must not count as satisfied | only what is known to hold is allowed |
| Example retrieval | `src/ai/retrieval.cpp` | the corpus, read-only | `load_retrieval_corpus`, `retrieve` | ranking, near-duplicates and three limits in one pass | inside its budget, no duplicates |
| Prompt and response | `src/ai/prompt.cpp`, `proposal_response.cpp` | none | pure functions | text | strict |
| Evaluation | `src/ai/golden_dataset.cpp`, `evaluation.cpp`, `src/ai_eval/main.cpp` | dataset, corpus, report under construction, observed attempts | load, run each case and repetition, judge, sum up | a session seen from the side by an observer; two judgements of one script; stops half way | the record is what happened, and the counts add up |
| Parser, analyzer, lowering | `src/parser`, `src/semantic`, `src/ir` | symbol tables during one call | `parse`, `analyze`, `lower` | declaration order, sweep arithmetic | accepted programs lower and run |
| Runtime | `src/runtime/*.cpp` | device settings, result under construction | `execute_point`, `execute_characterization` | order of equipment calls, point arithmetic, all-or-nothing result | measured at the requested point |
| Command line | `src/cli/main.cpp`, `src/output/*.cpp` | output files | one run | a writer fails half way | exit status and results file agree |

How they interact. Studio's window owns the editor, an experiment runner and an
assistant service. The runner starts `horusrf-run` (the command line) as a
process, which parses, analyzes, lowers, executes and writes JSON that the
window loads. The panel hands a snapshot of the editor to the service, whose
worker thread runs an agent session against the provider; the completion comes
back through the GUI thread's event queue. The panel puts a proposal into the
editor only when the user applies it.

## 2. Modules

### AuthoringContract and AgentSession

`AuthoringContract` is the abstract promise of one authoring request: at most
`Budget` model calls, none after a stop, exactly one outcome; a proposal that is
returned compiles and violates no verified requirement. `AgentSession` is the
loop of `agent.cpp`, cut into one action per stretch between two readings of the
stop token: `Call`, `Preflight` or `PromptRejected`, `AskProvider`,
`ProviderAnswer` or `ProviderFault`, `BeginValidation`, `ValidationThrows` or
`Judge`; `RequestStop` is the other thread. The compiler's diagnostics and the
high-confidence violations of a script are the constant functions `Diagnostics`
and `Violations`; the loop only compares them. `calls` is a history variable,
saturating one above the budget so that the model stays finite whatever the
code does.

### ProposalReview and AuthoringStudio

`ProposalReview` is the discipline the user of Studio relies on: the document
changes by the user's edits or by accepting an offer that compiled and was made
for exactly the current document. `AuthoringStudio` composes the editor
document, the panel and the service. A handler is one action; the worker
thread's steps interleave with it; a completion waits in the queue (`posted`)
until `DeliverRequest` or `DeliverDiscovery`. The backend is constrained by an
instance of `AuthoringContract`, so what `AgentSession` is proved to implement
is what the panel is checked against. `Plain` is the proposal view's
`toPlainText` of a candidate: the identity except for line separators, lone
carriage returns and no-break spaces. `origin` records which request a shown
proposal came from (history variable). Closing is modelled up to the
destructor's join.

### ExperimentRunner and StudioWindow

`ExperimentRunner` has the runner's `active_`, last result, capture and JSON
file, and the QProcess with the process behind it as environment
(`ProcessEnds`, `ProcessFailsToStart`). `StudioWindow` extends it with the
document's undo history and saved position, the file path and disk, the enabled
state of the actions and the results on view. Signals are synchronous in Qt, so
the window's reaction is part of the step that changes `completions`; the two
ways `start` can fail synchronously are outcomes of `Start`.

### SweepPlan and SweepAxis

`SweepPlan` is the arithmetic of one axis, which the analyzer
(`axis_point_count`) and the runtime (`plan_sweep`, `value_at`) each carry out
for themselves. Quantities are integers in a unit far below the tolerance, so
that a step written in decimal is off a multiple of the unit by as little as its
binary representation is; `One` is the 1 Hz or 1 K below which the tolerance
stops shrinking, and `Precision` the reciprocal of sixteen epsilons. What the
division itself rounds, and infinities, are not in the model. `SweepAxis`
carries a sweep out: planned or rejected, then one value after the other.

### IrProgram and Characterization

`IrProgram` has the program the compiler hands to the runtime as a record of
flat values (`values[i].op`, `.operands`), what the analyzer demands of sweeps
and measurements (`Analyzed`), the program lowering emits (`Lower`), and the
runtime's Validator check by check (`Accepted`). `StopsSilently` is the return
without a diagnostic in `validate_base_bindings`: `run` then hands back an empty
list, and later checks have not been made. `Unchecked` names all that a program
without diagnostics may therefore, or for want of a check, still be wrong in:
`PreflightSuffices` says that nothing else lets the runtime read what is not
there, `CompiledProgramsRun` that every program lowering makes was accepted with
all checks made, and `hand_assembled_ir` shows what happens to one that was not.
`Characterization` is
`execute_characterization`: `Validate` or `RejectInvalid`, `PlanSweep` per axis,
`CheckProduct`, `Preflight`, then for each point `StartPoint`, `SetControl` per
coordinate, and one of `Measure` and `Compute` per value of the program with
`SetOutputPower` before the first measurement, then `FinishPoint` or
`FailPoint`. The equipment is the environment: it keeps its settings from one
point to the next, and each call of it may throw instead (`EquipmentThrows`),
after or before taking a setting. A reading is the settings it was taken at, and
may be infinite. `ReadMissing` is undefined behaviour: a device pointer that is
null or an element past the end of the values is read. `calls` is a history
variable, the calls made at the present point.

### CommandLine

`CommandLine` extends `Characterization` with one run of `horusrf-run`: arguments,
reading of the source, compilation, the characterization itself, and the CSV or
JSON writer, which may fail to open the file, fail while it writes (`WriteFails`),
or refuse what it is given (`WriteRest`); `RemoveOutput` is the clean-up after
that, which may fail too. `output` is what the path holds. A characterization may
also be started by a library's caller, with any program and any devices
(`stage = "library"`). `ExperimentRunner` keeps of all this the exit status and
whether a results file is there.

### ProviderContract, HttpTransport and OllamaProvider

`ProviderContract` is what `LlmProvider` promises its callers: one outcome for a
call, `Cancelled` only after a stop request, `Timeout` only when the time is up,
and an outcome in the end. `HttpTransport` has the steps of
`NativeTransport::send`, cut where the thread waits: `BeginWait` is the head of
`wait_for`, which reads the token and the deadline; `Again` is its loop;
`Resolve`, `TryAddress`, `Connected`, `Send`, `Receive` and `EndOfReply` are the
stretches in between. Time is counted in the slices of 50 ms that `select` is
given: `Tick` passes one and `wake` says when the present one ends. Bytes are
pieces, the first piece of a reply is its head, and `Response` is what the
framing lets the parser notice of a reply that is not whole. `OllamaProvider`
adds the checks of a request, the reading of the reply (`Reject`, `Answer`,
`List`) and the digests remembered from the last listing, which may give a model
without its digest. The server (`ServerAnswers`), which may answer with any body
under any status, and the resolver are environment. `overdue` is a history
variable: the slices spent after the deadline or a stop request.

### RequirementVerification, GoldenDataset, ExampleRetrieval and Evaluation

The first three hold pure functions as operators. `RequirementVerification`
begins where the regular expressions end: a text is the record of what they
find in it. `Assess` is the support assessment, `Extract` the clauses extracted,
`Facts` what a program does, its expressions normalised, `Outcome` and `Verify`
the comparison of the two. `GoldenDataset` has what a dataset must be to be loaded,
the selectors of its requirements and the second, semantic comparison of two
programs. `ExampleRetrieval` has the acceptance of a corpus, the query made of
an instruction, scores, and the greedy selection under the limits on examples,
bytes and near-duplicates, or why nothing was selected. `Evaluation` is the benchmark: loading, then for every
model, case and repetition one session whose provider calls an observer records
(`Observe`), the judgement of what it returned (`Item`), the report, its counters,
raised run by run as `summarize` and `build_case_trends` do it (`Summed`,
`Entered`; `Summary` and `Trends` are what the loops end with), and the exit
status. A compiler that throws while the answers are compiled again leaves no
report (`RevalidationThrows`): `EvaluationEnds` counts that as an end, and
`ReportAddsUp` says that it is not a success. The session inside is `AgentSession`
itself, instantiated with the violations of the case's instruction, so that the
two loops cannot drift apart.

## 3. Runs

| Run | Shows |
|---|---|
| `agent_session` | shared budget, progress, retained candidate, prompt choice, no call after a stop, termination, and that the session implements its contract (liveness included) |
| `agent_rejected_applicable` (violation) | a failure may carry a compiler-valid, hence applicable, candidate although `docs/ai-assisted-authoring-architecture.md:197` says failures do not become applicable |
| `authoring_studio` | the panel's buttons are truthful, Apply replaces what was reviewed, the service neither blocks nor strands, cancellation reaches the right worker, and the review discipline is implemented |
| `authoring_studio_live` | every operation ends and closing ends in destruction |
| `applied_text_invalid` (violation) | the text applied is the view's rendering of the candidate, which need not compile although `docs/phase-2-local-ai-assisted-authoring-plan.md:727` says only valid scripts can be applied |
| `studio_window` | a clean document is on disk, actions follow the runner and each operation is reported once, newest results stay, a closed window reports nothing, operations end |
| `provider` | a call outlives a stop request by at most one slice and its deadline by nothing once the name is resolved, an answer is made of a whole reply, and the provider implements its contract, returning included |
| `provider_lookup` (violation) | the name lookup has no bound, although `include/horusrf/ai/provider.hpp:67` says a call may block for at most the request's timeout |
| `sweep_axis` | where a sweep ends, how its values are spaced, and that none is set twice |
| `characterization` | compiled programs pass the runtime's own checks; nothing is touched before all of them; order of points and of calls; readings belong to their point; counts and verdict agree with the samples; the exit status of the command line tells what is in the results file; every run ends |
| `hand_assembled_ir` (violation) | a program nobody compiled, whose reference comes after its first measurement, passes the Validator and reads past the end of its values after the first control has been set, although `docs/archive/slice-4-plan.md:40` says malformed IR must fail safely |
| `evaluation` | a script is allowed only when everything about it is known to be well; the record of a run is what its session did; the counts of the report add up; the two judgements of a script agree where they overlap; retrieved examples fit their budget; every evaluation ends |

Bounds. `MaxRepairs = 3` is the code's default, and seven scripts realise every
verdict the loop can distinguish (same and different diagnostics, same and
different violations, clean), so every path through two alternating retry loops
is taken. In Studio `MaxRevision = 2` allows an edit and an undo back to the same
text around a request, which separates the revision test from the text test;
`Budget = 1` suffices because the panel never sees how many calls were made.
Liveness runs use one revision and two scripts, as TLC keeps the whole graph.
In the window `MaxHistory = 3` puts the saved text below, at and above the
position; `MaxStarts = 2` lets one run fail after another succeeded.
The sweeps of `sweep_axis` have every end from below the start to past the last
point the limit of 5 allows, one unit apart, with a tolerance of 2 to 6 units and
steps on both sides of it, so each of the arithmetic's case distinctions is met
at its border. `characterization` runs five scripts that compile - one axis, and
two in either order, with one to three measurements and up to two assertions -
four that do not, and nine programs no script compiles to, two of which the
Validator accepts in silence and one of those asks for another device than it
reads, with every set of devices; 8 points suffice for a product at, below and above the limit.
In `provider` a timeout of 2 slices puts a stop request before, inside and after
the last slice; 2 addresses make one fail before another succeeds, 2 pieces of
request make a partial `send`, and with `MaxReply = 3` the bodies of 1 and 3
pieces lie below and above the limit. Two models with one digest make a listing
that has, lacks or loses the requested one, or names it without its digest.
`evaluation` has six scripts: a good one, one that means the same in other
words, two off by a bound, one with a second output of the same operation, and
one that does not compile. Its requests range from supported to unsupported, one
of them naming two powers; one case requires a name that its request does not
ask for, so that an allowed run need not be an accepted one; its datasets and
corpora are whole or have one thing wrong each; examples are retrieved under
budgets smaller than, equal to and larger than what they need; plans have one or
two models and repetitions. `MaxRepairs = 2` leaves room for a repair and a
correction.

Deadlock checking is off where the system may rightly stop: a destroyed or
closed window, bounded revisions, a command line or an evaluation that has exited.

Fairness. The agent: `WF` of the calling thread's steps - a thread that runs is
scheduled, and the provider contract (`provider.hpp:67-71`) bounds each call. Studio:
`WF` of the worker (same reason), of event delivery (the event loop runs until
destruction) and of destruction once closed; none for the user. Window: `WF` of
the process ending and of event delivery; none for the user.
Characterization: `WF` of the one thread that runs it; each call to equipment
returns or throws, which the interfaces' synchronous signatures imply.
Provider: `WF` of the program's own steps, `WF` of the lookup returning - the
resolver of the system has its own limit, whatever it is - and `SF` of time
passing: a program that keeps returning to `select` keeps giving time a chance
to pass, and time does not decline for ever. Nothing is assumed of the server.
Evaluation: `WF` of its single thread; each call of the provider ends, which is
what `provider` shows.

## 4. Proofs

* `AgentSession_proofs`: type correctness; `SharedBudget`; the session
  implements `Contract!Safety`; `FailureRetainsLastCandidate`; `NoCallAfterStop`;
  `PromptMatchesVerdict` and `ProgressBetweenCalls`. The budget alone
  is not inductive: the invariant adds that the attempt counter and the call
  counter agree at each point of the loop, and that the loop is re-entered only
  at or below the limit. Progress rests on two more facts: while the loop runs,
  the previous candidate is the last one judged, and its violations are kept
  until the next answer has been compared with them.
* `AuthoringStudio_proofs`: type correctness; `PanelTruthful`;
  `ApplyReplacesWhatWasReviewed`; `ImplementsReview`; `OneOperationAtATime`;
  `RetrieverNeverBypassed`. The panel compares the
  document with a snapshot of its own, so the invariant ties that snapshot to
  the captured request while it is active and to the shown proposal's origin
  afterwards, and needs that equal revisions mean equal texts. For one operation
  at a time it adds that a queued completion has a worker still to be joined.
* `StudioWindow_proofs`: type correctness; `CleanMeansSaved`;
  `OperationsAreAccountedFor` (the actions follow the runner, and each start is
  completed once); `SilentAfterCancel`; `NewestResultsShown`. The
  invariant follows the saved text wherever it lies on the undo and redo stacks,
  and describes the interval between a process's end and its delivery.
* `SweepAxis_proofs`: type correctness, `PointsEvenlySpaced` and `EndIncluded`
  for all bounds, limits and tolerances. The argument is about the lattice: it is
  strictly increasing, the floored quotient is the last index at or below the
  end, and at most the point after it can be within the tolerance of the end.
* `IrProgram_proofs`: `LoweringIsAccepted` - whatever a script the analyzer
  accepts sweeps, measures and asserts, the program lowering emits passes every
  check of the Validator and has the layout execution relies on. The program is
  described value by value (where each part of it lies, and what it refers to),
  and then each check is shown of it. The product of the point counts is a
  recursive function, `Products`. The library states induction with an operator
  for the induction hypothesis, which no prover here can instantiate;
  `LeastNatural`, `InductionTo` and `RecursionTo` state it of sets and functions
  instead, from the fact that a finite set of naturals has a least element, and
  are what the proofs about recursive functions rest on.
* `Characterization_proofs`: everything the run `characterization` checks for
  safety, for any scripts, assembled programs, axes, measurements, assertions and
  devices. `Layout` collects what `Lowered` says of the values, among it that
  no dimension is swept twice, from the Validator's count of them. `IInv` ties the
  coordinates set so far to the settings of the equipment, the number of
  measurements taken to the number of calls (`Taken`), and each value measured so
  far to the point (`Configured`); from it come `PreflightSuffices`,
  `DocumentedOrder` and `MeasuredAsConfigured`. That only an `Unchecked` program
  reads what is not there (`NothingMissing`) needs no `Layout`: the invariant
  says that whatever is executed was `Accepted` and has the capabilities it asks for. `ShapeInv` says that each planned
  axis is the one the bounds call for and `pointCount` the product of the
  counts; with `LoweringIsAccepted` it shows that planning succeeds, hence
  `RefusalInv`: what compiled is refused for want of a capability only.
  `PointsInv` says that the samples so far are at the first points of the product;
  its step is that the successor of a flat index differs from it in the last axis
  that has a value left (`SuccessorFollows`, an induction over the axes on the
  digits that `Remainder` computes). `EquipmentTyped` and `RecordsInv` are types,
  and `AgreeInv` counts the samples by status and assertion, as sets, beside the
  counters that are kept. Their conjunction, `WholeInv`, gives `TypeOK` and
  `ResultIsWhole`.
  The same module has the command line: every step of it is a step of the
  characterization or leaves that alone, so all of this holds of `CliSpec` too
  (`RuntimePromisesKept`), which is what the runs check. `FileInv` says what may be
  at the output path at each stage and why, and gives `OutputIsHonest`;
  `ColumnsInv`, that every point of a run whose results go to a CSV file has
  the one column of it, which is why the CSV writer never fails halfway for
  want of a coordinate.
* `Evaluation_proofs`: everything the run `evaluation` checks for safety
  (`ObserverSawTheSession`, `AllowIsEarned`, `MatchMeetsRequirements`,
  `RetrievalWithinBudget` and `ReportAddsUp`), for any datasets, corpora, plans,
  scripts and repair limit. The session is an instance whose
  violations change from run to run, and a theorem about an instance holds for one
  value of its parameters; so the observer's invariant (`ObserverInv`) is
  proved step by step from the session's actions: the scripts observed are the
  ones the session judged, plus the answer in hand, and all but that differ.
  `ReportInv` adds that the case of a run is one of the dataset's, so that what
  is computed of it is defined, and an allowed verdict is then followed back
  through `Verdict`, `Verify` and `Outcome` to every clause. It rests on
  `PlansAssumption`: a manifest is a list of names, there is a model and a
  repetition to run (`ai_eval/main.cpp:114, 166`), and a host that is not
  `ai_eval` comes with the cases of a dataset that was loaded and names no model
  twice, since `evaluate_golden_dataset` refuses to run otherwise
  (`evaluation.cpp:908-910, 957`).
  A match meets its requirements because each requirement is the fact a selector
  picks from the expected program, equal meaning makes the facts of each kind
  equal one by one (`FactLists`), and the first fact of the answer that a
  requirement could mean is then the one it was taken from (`ClauseMet`); without
  its kinds of selector being the five known ones, which the proof showed the
  model to have left out, it would not hold. `MatchInv` carries this to each entry
  of the report, with `ProgramsAssumption`: a program holds its parts in lists.
  Retrieval folds over data, so the module first says what such a fold does:
  recursion on the subsets of a finite set exists and is unique
  (`RecursionExists`, `RecursionUnique`), a sum does not depend on the order in
  which it is taken (`SumsAgree`), and in a finite order each place is taken
  (`PlaceInOrder`). `TakenWell` is the invariant of the selection after each
  example, and `RetrievalInv` says that a running session has the selection of
  its own case. `CorporaAssumption` says that lists are lists, that sizes and
  limits are natural numbers, and that scores are numbers.
  For the report, the number of a run and its model, repetition and case are the
  digits of each other in a mixed base (`NumberOfRun`, `RunOfNumber`), so that no
  two runs are of the same three (`RunsDiffer`): neither the models nor the
  cases repeat, the latter because `Chosen` picks each place of a manifest once.
  `RunsInv` ties each entry of the report to the run it is of (`Recorded`) and its
  length to the product, which a run may leave unfinished only for a host's stop
  token; `ai_eval` passes none, so what it writes is complete. `Succeeded` ties an
  exit code of success to a report that was begun, or for a host to one of all runs
  unless it stopped. The counters are recursive functions of the runs: with `Tallied`,
  the number of the first n runs in a set, `SummaryAfter` and `TrendsAfter` say
  outright what they hold after n runs, `SummaryRaised` and `TrendsEntered` that one
  more run raises them as the code does, and `SummaryIsAfter` and `TrendsAreAfter`,
  by induction, that the loops compute just these. The sums then follow from
  `CountsAddUp`: counted by a label, whatever is labelled is counted once.
* `OllamaProvider_proofs`: type correctness, `StopsWithinASlice`,
  `AnswersAreWhole`, and that the provider implements `Contract!Safety`, for any
  timeout, number of addresses and of pieces, and any reply. The invariant
  `Deadlines` says that a slice in progress is at most one unit long and ends by
  the deadline, and that no overdue time has passed while some of it is left;
  `Caused` ties each result of the transport to its cause: an error that names
  the stop or the deadline to the token or the clock, a response to the reply
  received. Each way of returning then ends well (`FinishEndsWell`).

All assume only the named `ASSUME`s of the modules they extend. Only
model-checked are the liveness properties (`CallReturns`, `OperationsEnd`,
`ShutdownCompletes`, `RunsEnd`, `EvaluationEnds` and the liveness parts of the two
contracts), which are outside the prover's reach.

## 5. Not modelled, and why

Text is never spelled out. Parsing, prompts and formatting are left out or are
data; the regular expressions of requirement verification and retrieval, and the
roles they give the numbers in an instruction, are data to the operators that
work on their findings. The strict JSON reader of proposals appears by its two
outcomes. Of retrieval, the leakage report and the rationale texts are left out,
as nothing reads them to decide anything; of the evaluation, latency statistics,
averages over scores and the rendering of the report. The report's stream is
checked before it is closed, so that a tail may be lost while the program reports
success; the model has that outcome, and no document claims otherwise.

The results model and view, the editor, the highlighter and the entry point only
present what other parts decide. The lexer and parser are generated, and their
conversion to a tree keeps no state. Quantities and units are floating-point
values, which the models replace by integers (`SweepPlan`) or settings
(`Characterization`).

Model selection and its persistence, latency labels and cursor navigation change
nothing another part reads. External changes of files while they are open, and
Qt's merging of typing into one undo step, are left out of the window. Of scripts
the runtime models know sweeps, measurements and assertions on the derived error;
names, units, other expressions, and results as they are formatted are left out,
and so is `execute_point` with a point of the caller's own. Memory exhaustion
and exceptions that escape `std::jthread`, are not modelled; the Windows branches
of the socket code are not told apart from the POSIX ones.

## 6. Plan

Done: the agent session and its contract; Studio authoring; window and runner;
sweep arithmetic, intermediate representation, Validator and characterization;
the command line; transport and provider; verification, retrieval and evaluation.

Left: the conversion of the parse tree and the expressions it may contain; the
results model, whose charts are recomputed from a loaded file; and the provider
inside the agent session in one instance, in place of the two contracts that now
separate them.
