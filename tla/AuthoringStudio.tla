-------------------------- MODULE AuthoringStudio --------------------------
(***************************************************************************)
(* AI authoring in HorusRF Studio: the editor document, the AssistantPanel *)
(* and the AssistantService with its worker thread.                        *)
(*                                                                         *)
(* Every handler of the panel and the service runs to completion on the    *)
(* GUI thread and is one action.  The worker thread runs one backend call; *)
(* its completion is posted to the GUI thread's event queue and delivered  *)
(* later, after any number of user events.  The backend is the Ollama      *)
(* backend of assistant_service.cpp; what its AgentSession may do is the   *)
(* AuthoringContract that module AgentSession implements.                  *)
(***************************************************************************)
EXTENDS Naturals, Sequences

CONSTANTS
  Texts,         \* contents of the document
  Scripts,       \* contents the model may propose
  ValidScripts,  \* those the compiler accepts
  CleanScripts,  \* valid ones without a high-confidence requirement violation
  Plain,         \* [Scripts -> Texts]: what the proposal view's toPlainText
                 \* returns for a script - line separators and lone carriage
                 \* returns become new lines, no-break spaces become spaces
  NoText,        \* an empty proposal view
  Budget,        \* provider calls of one request
  MaxRevision    \* bound on document changes

ASSUME StudioAssumption ==
  /\ Scripts \subseteq Texts
  /\ CleanScripts \subseteq ValidScripts /\ ValidScripts \subseteq Scripts
  /\ NoText \notin Texts
  /\ Plain \in [Scripts -> Texts]
  /\ NoText \notin [script : Texts, compiled : BOOLEAN, source : Texts, base : Nat]
  /\ Budget \in Nat \ {0}
  /\ MaxRevision \in Nat

VARIABLES
  (* the editor's QTextDocument *)
  text, revision,
  undo,             \* texts that Undo brings back, oldest first
  (* AssistantService *)
  active,           \* active_, and what is active
  worker,           \* worker_: not joinable, in the backend, past its post
  stop,             \* stop token of worker_
  job,              \* source and revision of the captured request
  posted,           \* the completion waits in the GUI thread's queue
  (* the backend call on the worker *)
  session, spent, outcome,
  retriever,        \* retrieval_load_attempted_ and retriever_
  (* AssistantPanel *)
  requestSource, requestRevision, hasInstruction,
  proposal,         \* the candidate in the proposal view
  proposalValid,    \* proposal_valid_: the compiler's verdict on the candidate
  generateEnabled, retryEnabled, cancelEnabled, applyEnabled, discardEnabled,
  staleShown,
  origin,           \* the job the shown proposal came from (history variable)
  (* the main window *)
  window

document == <<text, revision, undo>>
service == <<active, worker, stop, job, posted>>
backend == <<session, spent, outcome, retriever>>
snapshot == <<requestSource, requestRevision, hasInstruction>>
shown == <<proposal, proposalValid, origin>>
buttons == <<generateEnabled, retryEnabled, cancelEnabled>>
review == <<applyEnabled, discardEnabled, staleShown>>

vars == <<document, service, backend, snapshot, shown, buttons, review, window>>

Session == INSTANCE AuthoringContract WITH
  NoScript <- NoText, phase <- session

NoJob == [source |-> NoText, revision |-> 0]
Jobs == [source : Texts, revision : Nat]

DocumentOK ==
  /\ text \in Texts /\ revision \in Nat /\ undo \in Seq(Texts)

ServiceOK ==
  /\ active \in {"none", "request", "discovery"}
  /\ worker \in {"none", "running", "exited"}
  /\ job \in Jobs \cup {NoJob}
  /\ session \in {"idle", "working"} /\ spent \in 0..Budget
  /\ outcome \in {Session!NoOutcome} \cup Session!Outcomes
  /\ retriever \in {"untried", "loaded", "failed"}

PanelOK ==
  /\ requestSource \in Texts \cup {NoText} /\ requestRevision \in Nat
  /\ proposal \in Scripts \cup {NoText}
  /\ origin \in Jobs \cup {NoJob}
  /\ window \in {"open", "closed", "destroying", "destroyed"}

FlagsOK ==
  /\ stop \in BOOLEAN /\ posted \in BOOLEAN
  /\ proposalValid \in BOOLEAN /\ hasInstruction \in BOOLEAN
  /\ generateEnabled \in BOOLEAN /\ retryEnabled \in BOOLEAN
  /\ cancelEnabled \in BOOLEAN /\ applyEnabled \in BOOLEAN
  /\ discardEnabled \in BOOLEAN /\ staleShown \in BOOLEAN

TypeOK == DocumentOK /\ ServiceOK /\ PanelOK /\ FlagsOK

-----------------------------------------------------------------------------
(* Parts of handlers.                                                      *)

UpdateStalenessByText ==                         \* mutant: ignores the revision
  LET stale == proposal' # NoText /\ text' # requestSource'
  IN /\ staleShown' = stale
     /\ applyEnabled' = (/\ proposal' # NoText /\ proposalValid'
                         /\ ~stale /\ active' = "none")

UpdateStalenessAnyVerdict ==                     \* mutant: ignores proposal_valid_
  LET stale == /\ proposal' # NoText
               /\ revision' # requestRevision' \/ text' # requestSource'
  IN /\ staleShown' = stale
     /\ applyEnabled' = (proposal' # NoText /\ ~stale /\ active' = "none")

\* updateStaleness, evaluated on the state the handler leaves behind.
UpdateStaleness ==
  LET stale == /\ proposal' # NoText
               /\ revision' # requestRevision' \/ text' # requestSource'
  IN /\ staleShown' = stale
     /\ applyEnabled' = (/\ proposal' # NoText /\ proposalValid'
                         /\ ~stale /\ active' = "none")

\* clearProposal
ClearProposal ==
  /\ proposal' = NoText /\ proposalValid' = FALSE /\ origin' = NoJob
  /\ applyEnabled' = FALSE /\ discardEnabled' = FALSE /\ staleShown' = FALSE

SetBusyLeavesGenerate(busy) ==                   \* mutant: Generate stays enabled
  /\ generateEnabled' = TRUE
  /\ retryEnabled' = (~busy /\ hasInstruction')
  /\ cancelEnabled' = busy

\* setBusy, without the trailing updateStaleness its callers need evaluated
\* on their own final state.
SetBusy(busy) ==
  /\ generateEnabled' = ~busy
  /\ retryEnabled' = (~busy /\ hasInstruction')
  /\ cancelEnabled' = busy

\* One outermost edit block of the document.
ChangeDocument(t, stack) ==
  /\ revision < MaxRevision
  /\ text' = t
  /\ revision' = revision + 1
  /\ undo' = stack

UserEvent == window = "open"

-----------------------------------------------------------------------------
(* The user edits: contentsChanged is connected to updateStaleness.        *)

DocumentEdited(t, stack) ==
  /\ UserEvent
  /\ ChangeDocument(t, stack)
  /\ UNCHANGED <<service, backend, snapshot, shown, buttons, discardEnabled, window>>
  /\ UpdateStaleness

Type(t) == DocumentEdited(t, Append(undo, text))

Undo == undo # <<>> /\ DocumentEdited(undo[Len(undo)], SubSeq(undo, 1, Len(undo) - 1))

\* New, Open and Examples replace the contents with setPlainText.
LoadText(t) == DocumentEdited(t, <<>>)

-----------------------------------------------------------------------------
(* Requests and model discovery.                                           *)

\* startRequest and discoverModels: refused while active; join the finished
\* worker, then run the backend on a new thread with its own stop token.
StartWorker(kind, j) ==
  /\ active = "none"
  /\ worker # "running"
  /\ active' = kind /\ worker' = "running" /\ stop' = FALSE /\ job' = j
  /\ session' = "working" /\ spent' = 0 /\ outcome' = Session!NoOutcome
  /\ UNCHANGED <<posted, retriever>>

\* submit, from Generate or, with the remembered instruction, from Retry.
Submit(enabled) ==
  /\ UserEvent /\ enabled
  /\ ClearProposal
  /\ requestSource' = text /\ requestRevision' = revision /\ hasInstruction' = TRUE
  /\ IF active = "none"
     THEN /\ StartWorker("request", [source |-> text, revision |-> revision])
          /\ SetBusy(TRUE)
     ELSE UNCHANGED <<service, backend, buttons>>
  /\ UNCHANGED <<document, window>>

Generate == Submit(generateEnabled)
Retry == Submit(retryEnabled)

\* refreshModels: its button follows generateEnabled.
RefreshModels ==
  /\ UserEvent /\ generateEnabled
  /\ UNCHANGED <<document, snapshot, shown, discardEnabled, window>>
  /\ StartWorker("discovery", NoJob)
  /\ SetBusy(TRUE)
  /\ UpdateStaleness

CancelForgets ==                                 \* mutant: does not wait for the end
  /\ UserEvent /\ cancelEnabled
  /\ stop' = (stop \/ (active # "none" /\ worker # "none"))
  /\ active' = "none"
  /\ cancelEnabled' = FALSE
  /\ UNCHANGED <<document, worker, job, posted, backend, snapshot, shown,
                 generateEnabled, retryEnabled, review, window>>

Cancel ==
  /\ UserEvent /\ cancelEnabled
  /\ stop' = (stop \/ (active # "none" /\ worker # "none"))
  /\ cancelEnabled' = FALSE
  /\ UNCHANGED <<document, active, worker, job, posted, backend, snapshot, shown,
                 generateEnabled, retryEnabled, review, window>>

-----------------------------------------------------------------------------
(* The worker thread.                                                      *)

InBackend(kind) == worker = "running" /\ active = kind /\ session = "working"

WorkerUnchanged ==
  UNCHANGED <<document, active, stop, job, snapshot, shown, buttons, review, window>>

\* loadRetriever runs on the first request and is never repeated.
LoadRetriever ==
  /\ InBackend("request") /\ retriever = "untried"
  /\ retriever' \in {"loaded", "failed"}
  /\ UNCHANGED <<worker, posted, session, spent, outcome>>
  /\ WorkerUnchanged

AskModelAnyRetriever ==                          \* mutant: baseline prompt fallback
  /\ InBackend("request")
  /\ Session!AskModel
  /\ UNCHANGED <<worker, posted, retriever>>
  /\ WorkerUnchanged

AskModel ==
  /\ InBackend("request") /\ retriever = "loaded"
  /\ Session!AskModel
  /\ UNCHANGED <<worker, posted, retriever>>
  /\ WorkerUnchanged

\* The backend returns and the worker posts the completion before it exits.
\* Without a retriever the session is never created.
RequestReturns(o) ==
  /\ InBackend("request") /\ retriever # "untried"
  /\ retriever = "failed" =>
       o = [kind |-> "failure", code |-> "InvalidRequest", script |-> NoText,
            attempts |-> 0]
  /\ Session!Return(o)
  /\ worker' = "exited" /\ posted' = TRUE
  /\ UNCHANGED retriever
  /\ WorkerUnchanged

DiscoveryReturns ==
  /\ InBackend("discovery")
  /\ session' = "idle" /\ worker' = "exited" /\ posted' = TRUE
  /\ UNCHANGED <<spent, outcome, retriever>>
  /\ WorkerUnchanged

-----------------------------------------------------------------------------
(* Completion events on the GUI thread.                                    *)

Deliver(kind) ==
  /\ window \in {"open", "closed"}
  /\ posted /\ active = kind
  /\ posted' = FALSE /\ active' = "none"
  /\ UNCHANGED <<document, worker, stop, job, backend, snapshot, window>>

DeliverRequestUnlessCancelled ==                 \* mutant: drops cancelled results
  /\ ~stop
  /\ Deliver("request")
  /\ SetBusy(FALSE)
  /\ UNCHANGED <<shown, discardEnabled>>
  /\ UpdateStaleness

\* requestFinished: success and failed candidate alike become the shown
\* proposal; Retry is enabled in the end whatever setBusy decided.
DeliverRequest ==
  /\ Deliver("request")
  /\ SetBusy(FALSE)
  /\ IF outcome.script # NoText
     THEN /\ proposal' = outcome.script
          /\ proposalValid' = Session!EligibleToApply(outcome)
          /\ origin' = job
          /\ discardEnabled' = TRUE
     ELSE UNCHANGED <<shown, discardEnabled>>
  /\ UpdateStaleness

\* discoveryFinished, which ends with setBusy's updateStaleness.
DeliverDiscovery ==
  /\ Deliver("discovery")
  /\ SetBusy(FALSE)
  /\ UNCHANGED <<shown, discardEnabled>>
  /\ UpdateStaleness

-----------------------------------------------------------------------------
(* Review.                                                                 *)

ApplyProposalClearedFirst ==                     \* mutant: clears, then inserts
  /\ UserEvent /\ applyEnabled
  /\ ~(revision # requestRevision \/ text # requestSource)
  /\ ClearProposal
  /\ ChangeDocument(IF proposal' = NoText THEN proposal' ELSE Plain[proposal'],
                    Append(undo, text))
  /\ UNCHANGED <<service, backend, snapshot, buttons, window>>

ApplyProposal ==
  /\ UserEvent /\ applyEnabled
  /\ ~(revision # requestRevision \/ text # requestSource)
  /\ ChangeDocument(Plain[proposal], Append(undo, text))
  /\ ClearProposal
  /\ UNCHANGED <<service, backend, snapshot, buttons, window>>

DiscardProposal ==
  /\ UserEvent /\ discardEnabled
  /\ ClearProposal
  /\ UNCHANGED <<document, service, backend, snapshot, buttons, window>>

-----------------------------------------------------------------------------
(* The window closes while a worker may be running.                        *)

\* closeEvent accepted: the service is asked to stop, the event loop runs on.
CloseWindow ==
  /\ window = "open"
  /\ window' = "closed"
  /\ stop' = (stop \/ (active # "none" /\ worker # "none"))
  /\ UNCHANGED <<document, active, worker, job, posted, backend, snapshot, shown,
                 buttons, review>>

\* ~AssistantService: request_stop, then join with the GUI thread blocked.
BeginDestroy ==
  /\ window = "closed"
  /\ window' = "destroying"
  /\ stop' = (stop \/ worker # "none")
  /\ UNCHANGED <<document, active, worker, job, posted, backend, snapshot, shown,
                 buttons, review>>

FinishDestroyAfterDelivery ==                    \* mutant: waits for the event too
  /\ window = "destroying" /\ worker # "running" /\ ~posted
  /\ window' = "destroyed"
  /\ worker' = "none"
  /\ UNCHANGED <<document, active, stop, job, posted, backend, snapshot, shown,
                 buttons, review>>

\* The join returns; events still queued for the service die with it.
FinishDestroy ==
  /\ window = "destroying" /\ worker # "running"
  /\ window' = "destroyed"
  /\ worker' = "none" /\ posted' = FALSE
  /\ UNCHANGED <<document, active, stop, job, backend, snapshot, shown, buttons,
                 review>>

-----------------------------------------------------------------------------
Init ==
  /\ text \in Texts /\ revision = 0 /\ undo = <<>>
  /\ active = "none" /\ worker = "none" /\ stop = FALSE /\ job = NoJob
  /\ posted = FALSE
  /\ session = "idle" /\ spent = 0 /\ outcome = Session!NoOutcome
  /\ retriever = "untried"
  /\ requestSource = NoText /\ requestRevision = 0 /\ hasInstruction = FALSE
  /\ proposal = NoText /\ proposalValid = FALSE /\ origin = NoJob
  /\ generateEnabled = TRUE /\ retryEnabled = FALSE /\ cancelEnabled = FALSE
  /\ applyEnabled = FALSE /\ discardEnabled = FALSE /\ staleShown = FALSE
  /\ window = "open"

UserStep ==
  \/ \E t \in Texts : Type(t)
  \/ Undo
  \/ \E t \in Texts : LoadText(t)
  \/ Generate \/ Retry \/ RefreshModels \/ Cancel
  \/ ApplyProposal \/ DiscardProposal
  \/ CloseWindow

WorkerStep ==
  \/ LoadRetriever
  \/ AskModel
  \/ \E o \in Session!Outcomes : RequestReturns(o)
  \/ DiscoveryReturns

EventStep == DeliverRequest \/ DeliverDiscovery

DestroyStep == BeginDestroy \/ FinishDestroy

Next == UserStep \/ WorkerStep \/ EventStep \/ DestroyStep

\* The backend returns (its provider calls are bounded by the timeout), the
\* GUI thread keeps serving its queue and, once closed, runs the destructors.
\* The user is free to do nothing.
Fairness ==
  /\ WF_vars(WorkerStep)
  /\ WF_vars(EventStep)
  /\ WF_vars(DestroyStep)

Spec == Init /\ [][Next]_vars
FairSpec == Spec /\ Fairness

-----------------------------------------------------------------------------
(* Properties.                                                             *)

Running == window \in {"open", "closed"}

\* The document the shown proposal was computed from is the one in the editor.
Fresh == origin.source = text /\ origin.revision = revision

\* The panel tells the truth about the proposal it shows, through every order
\* of edits, undos, completions and model discoveries: Apply is offered exactly
\* for a compiler-valid proposal made from the document as it is now, with the
\* service idle, and the stale warning is shown exactly when the document has
\* moved on (assistant_panel.cpp:521-532).
PanelTruthful ==
  /\ applyEnabled <=> proposal \in ValidScripts /\ Fresh /\ active = "none"
  /\ staleShown <=> proposal # NoText /\ ~Fresh
  /\ discardEnabled <=> proposal # NoText

\* Applying never overwrites work the model has not seen: the text replaced is
\* the very text the request was made from, the new text is what the view shows
\* of a candidate that compiled, and one Undo brings the old text back
\* (assistant_panel.cpp:437).
ApplyReplacesWhatWasReviewed ==
  [][ApplyProposal =>
       /\ text = origin.source /\ revision = origin.revision
       /\ proposal \in ValidScripts /\ text' = Plain[proposal]
       /\ undo'[Len(undo')] = text]_vars

\* While the service is active there is a worker in the backend or a completion
\* in the queue, never both, and the panel is idle exactly when the service is.
BusyHasOneCause ==
  Running =>
    /\ active # "none" <=> worker = "running" \/ posted
    /\ ~(worker = "running" /\ posted)
    /\ generateEnabled <=> active = "none"

\* Starting an operation joins the previous worker without waiting for the
\* backend, so the GUI thread never blocks on a model (assistant_service.cpp:107).
JoinNeverBlocks == active = "none" => worker # "running"

\* Each operation has a stop token of its own: Cancel is offered exactly while
\* the current operation has not been asked to stop, whatever happened to the
\* previous one.
CancelMatchesToken ==
  window = "open" => (cancelEnabled <=> active # "none" /\ ~stop)

\* There is one operation at a time, from the click to the handling of its
\* completion, also when it is cancelled in between, and the panel is never
\* stranded busy (assistant_service.cpp:107-162, assistant_panel.cpp:239-244).
OneOperationAtATime == BusyHasOneCause /\ JoinNeverBlocks /\ CancelMatchesToken

\* The model is only asked with the packaged corpus loaded: a failed load is
\* remembered and never silently replaced by the baseline prompt
\* (assistant_service.cpp:62, docs/ai-assisted-authoring-architecture.md:254).
RetrieverNeverBypassed == spent > 0 => retriever = "loaded"

\* Every request and every discovery ends, cancelled or not, unless the window
\* is destroyed first; and destruction itself is never blocked for ever.
OperationsEnd == active # "none" ~> active = "none" \/ window = "destroyed"
ShutdownCompletes == window = "closed" ~> window = "destroyed"

\* The panel, the service and the editor together implement the review
\* discipline of ProposalReview.
Review == INSTANCE ProposalReview WITH
  NoOffer <- NoText,
  offer <- IF proposal = NoText THEN NoText
           ELSE [script |-> Plain[proposal], compiled |-> proposal \in ValidScripts,
                 source |-> origin.source, base |-> origin.revision]

ImplementsReview == Review!Spec

\* docs/phase-2-local-ai-assisted-authoring-plan.md:727: "Only valid scripts can
\* be applied through the normal acceptance action."  The candidate the compiler
\* accepted is not the text that is inserted: the view may change it.
OnlyValidScriptsApplied == [][ApplyProposal => text' \in ValidScripts]_vars
=============================================================================
