----------------------- MODULE AuthoringStudio_proofs -----------------------
(***************************************************************************)
(* Theorems about AuthoringStudio for every set of documents, every        *)
(* compiler verdict, every backend the contract allows and any number of   *)
(* revisions.                                                              *)
(***************************************************************************)
EXTENDS AuthoringStudio, TLAPS

(***************************************************************************)
(* The inductive invariant.  The panel compares the document with a        *)
(* snapshot of its own (request_source_, request_revision_), not with the  *)
(* captured request, so the invariant ties the two together while a        *)
(* request is active and, through origin, while its proposal is shown.     *)
(***************************************************************************)
SnapshotAgrees ==
  /\ requestRevision <= revision
  /\ requestSource # NoText /\ requestRevision = revision => requestSource = text
  /\ active = "request" =>
       /\ job = [source |-> requestSource, revision |-> requestRevision]
       /\ requestSource \in Texts
       /\ proposal = NoText
  /\ proposal # NoText =>
       /\ origin = [source |-> requestSource, revision |-> requestRevision]
       /\ requestSource \in Texts
  /\ proposalValid <=> proposal \in ValidScripts

ButtonsAgree ==
  /\ generateEnabled <=> active = "none"
  /\ retryEnabled => active = "none"

IInv == TypeOK /\ SnapshotAgrees /\ ButtonsAgree /\ PanelTruthful

USE StudioAssumption

LEMMA ContractConstants ==
  /\ Session!NoOutcome.script = NoText
  /\ \A o \in Session!Outcomes :
       /\ o.script \in Scripts \cup {NoText}
       /\ Session!EligibleToApply(o) <=> o.script \in ValidScripts
  BY DEF Session!NoOutcome, Session!Outcomes, Session!Unsupported, Session!Failures,
         Session!Proposals, Session!EligibleToApply

LEMMA InitInv == Init => IInv
  <1> SUFFICES ASSUME Init PROVE IInv
    OBVIOUS
  <1>1. TypeOK
    <2>1. DocumentOK
      BY DEF Init, DocumentOK
    <2>2. ServiceOK
      BY DEF Init, ServiceOK
    <2>3. PanelOK
      BY DEF Init, PanelOK
    <2>4. FlagsOK
      BY DEF Init, FlagsOK
    <2>5. QED BY <2>1, <2>2, <2>3, <2>4 DEF TypeOK
  <1>2. SnapshotAgrees
    BY DEF Init, SnapshotAgrees
  <1>3. ButtonsAgree
    BY DEF Init, ButtonsAgree
  <1>4. PanelTruthful
    BY DEF Init, PanelTruthful
  <1>5. QED BY <1>1, <1>2, <1>3, <1>4 DEF IInv

\* updateStaleness makes the panel truthful, provided that the snapshot it
\* compares with is the one the shown proposal was made from.
LEMMA UpdateTellsTruth ==
  ASSUME SnapshotAgrees', UpdateStaleness, discardEnabled' <=> proposal' # NoText
  PROVE  PanelTruthful'
  <1>1. proposal' # NoText =>
          (Fresh' <=> ~(revision' # requestRevision' \/ text' # requestSource'))
    BY DEF SnapshotAgrees, Fresh
  <1>2. proposalValid' <=> proposal' \in ValidScripts
    BY DEF SnapshotAgrees
  <1>3. proposal' \in ValidScripts => proposal' # NoText
    OBVIOUS
  <1>4. staleShown' <=> proposal' # NoText /\ ~Fresh'
    BY <1>1 DEF UpdateStaleness
  <1>5. applyEnabled' <=> proposal' \in ValidScripts /\ Fresh' /\ active' = "none"
    BY <1>1, <1>2, <1>3 DEF UpdateStaleness
  <1>6. QED BY <1>4, <1>5 DEF PanelTruthful

\* clearProposal makes the panel truthful whatever the document is.
LEMMA ClearTellsTruth ==
  ASSUME ClearProposal
  PROVE  PanelTruthful'
  BY DEF ClearProposal, PanelTruthful

\* The user changes the document in any way.
LEMMA EditInv ==
  ASSUME IInv, NEW t \in Texts, NEW stack \in Seq(Texts), DocumentEdited(t, stack)
  PROVE  IInv'
  <1> USE DEF IInv, TypeOK, DocumentEdited, ChangeDocument, service, backend, snapshot,
              shown, buttons
  <1>1. DocumentOK' /\ ServiceOK' /\ PanelOK'
    BY DEF DocumentOK, ServiceOK, PanelOK
  <1>2. FlagsOK'
    BY DEF FlagsOK, UpdateStaleness
  <1>3. SnapshotAgrees'
    BY DEF DocumentOK, PanelOK, SnapshotAgrees
  <1>4. ButtonsAgree'
    BY DEF ButtonsAgree
  <1>5. PanelTruthful'
    BY <1>3, UpdateTellsTruth DEF PanelTruthful
  <1>6. QED BY <1>1, <1>2, <1>3, <1>4, <1>5

\* Generate, and Retry with the remembered instruction.
LEMMA SubmitInv ==
  ASSUME IInv, Generate \/ Retry
  PROVE  IInv'
  <1>1. active = "none" /\ Submit(TRUE)
    BY DEF Generate, Retry, Submit, IInv, ButtonsAgree
  <1>2. StartWorker("request", [source |-> text, revision |-> revision]) /\ SetBusy(TRUE)
    BY <1>1 DEF Submit
  <1>3. ClearProposal /\ UNCHANGED <<document, window>>
        /\ requestSource' = text /\ requestRevision' = revision /\ hasInstruction' = TRUE
    BY <1>1 DEF Submit
  <1>4. DocumentOK' /\ ServiceOK' /\ PanelOK'
    BY <1>2, <1>3 DEF IInv, TypeOK, DocumentOK, ServiceOK, PanelOK, StartWorker,
       ClearProposal, document, Jobs
  <1>5. FlagsOK'
    BY <1>2, <1>3 DEF IInv, TypeOK, FlagsOK, StartWorker, SetBusy, ClearProposal
  <1>6. SnapshotAgrees'
    BY <1>2, <1>3 DEF IInv, TypeOK, DocumentOK, SnapshotAgrees, StartWorker,
       ClearProposal, document
  <1>7. ButtonsAgree'
    BY <1>2 DEF ButtonsAgree, StartWorker, SetBusy
  <1>8. QED BY <1>3, <1>4, <1>5, <1>6, <1>7, ClearTellsTruth DEF IInv, TypeOK

LEMMA RefreshInv ==
  ASSUME IInv, RefreshModels
  PROVE  IInv'
  <1> USE DEF IInv, TypeOK, RefreshModels, StartWorker, document, snapshot, shown
  <1>1. DocumentOK' /\ ServiceOK' /\ PanelOK'
    BY DEF DocumentOK, ServiceOK, PanelOK
  <1>2. FlagsOK'
    BY DEF FlagsOK, SetBusy, UpdateStaleness
  <1>3. SnapshotAgrees'
    BY DEF SnapshotAgrees
  <1>4. ButtonsAgree'
    BY DEF ButtonsAgree, SetBusy
  <1>5. PanelTruthful'
    BY <1>3, UpdateTellsTruth DEF PanelTruthful
  <1>6. QED BY <1>1, <1>2, <1>3, <1>4, <1>5

\* requestFinished: the delivered candidate belongs to the captured request.
LEMMA DeliverRequestInv ==
  ASSUME IInv, DeliverRequest
  PROVE  IInv'
  <1> USE DEF IInv, TypeOK, DeliverRequest, Deliver, document, backend, snapshot
  <1>1. /\ outcome.script \in Scripts \cup {NoText}
        /\ Session!EligibleToApply(outcome) <=> outcome.script \in ValidScripts
    BY ContractConstants DEF ServiceOK, Session!EligibleToApply
  <1>2. DocumentOK' /\ ServiceOK' /\ PanelOK'
    <2>1. DocumentOK' /\ ServiceOK'
      BY DEF DocumentOK, ServiceOK
    <2>2. proposal' \in Scripts \cup {NoText} /\ origin' \in Jobs \cup {NoJob}
      BY <1>1 DEF ServiceOK, PanelOK, shown
    <2>3. QED BY <2>1, <2>2 DEF PanelOK
  <1>3. FlagsOK'
    <2>1. proposalValid' \in BOOLEAN /\ discardEnabled' \in BOOLEAN
      <3>1. CASE outcome.script = NoText
        BY <3>1, Zenon DEF FlagsOK, shown
      <3>2. CASE outcome.script # NoText
        <4>1. proposalValid' = (outcome.script \in ValidScripts) /\ discardEnabled' = TRUE
          BY <3>2, Zenon DEF Session!EligibleToApply
        <4>2. (outcome.script \in ValidScripts) \in BOOLEAN
          OBVIOUS
        <4>3. QED BY <4>1, <4>2, Zenon
      <3>3. QED BY <3>1, <3>2
    <2>2. QED BY <2>1 DEF FlagsOK, SetBusy, UpdateStaleness
  <1>4. SnapshotAgrees'
    BY <1>1 DEF SnapshotAgrees, shown
  <1>5. ButtonsAgree'
    BY DEF ButtonsAgree, SetBusy
  <1>6. discardEnabled' <=> proposal' # NoText
    BY DEF PanelTruthful, shown
  <1>7. PanelTruthful'
    BY <1>4, <1>6, UpdateTellsTruth
  <1>8. QED BY <1>2, <1>3, <1>4, <1>5, <1>7

LEMMA DeliverDiscoveryInv ==
  ASSUME IInv, DeliverDiscovery
  PROVE  IInv'
  <1> USE DEF IInv, TypeOK, DeliverDiscovery, Deliver, document, backend, snapshot, shown
  <1>1. DocumentOK' /\ ServiceOK' /\ PanelOK'
    BY DEF DocumentOK, ServiceOK, PanelOK
  <1>2. FlagsOK'
    BY DEF FlagsOK, SetBusy, UpdateStaleness
  <1>3. SnapshotAgrees'
    BY DEF SnapshotAgrees
  <1>4. ButtonsAgree'
    BY DEF ButtonsAgree, SetBusy
  <1>5. PanelTruthful'
    BY <1>3, UpdateTellsTruth DEF PanelTruthful
  <1>6. QED BY <1>1, <1>2, <1>3, <1>4, <1>5

LEMMA ApplyInv ==
  ASSUME IInv, ApplyProposal
  PROVE  IInv'
  <1> USE DEF IInv, TypeOK, ApplyProposal, ChangeDocument, ClearProposal, service,
              backend, snapshot, buttons
  <1>1. Plain[proposal] \in Texts /\ active = "none"
    BY DEF PanelTruthful
  <1>2. DocumentOK' /\ ServiceOK' /\ PanelOK'
    BY <1>1 DEF DocumentOK, ServiceOK, PanelOK
  <1>3. FlagsOK'
    BY DEF FlagsOK
  <1>4. SnapshotAgrees'
    BY <1>1 DEF SnapshotAgrees, DocumentOK, PanelOK
  <1>5. ButtonsAgree'
    BY DEF ButtonsAgree
  <1>6. QED BY <1>2, <1>3, <1>4, <1>5, ClearTellsTruth

LEMMA DiscardInv ==
  ASSUME IInv, DiscardProposal
  PROVE  IInv'
  <1> USE DEF IInv, TypeOK, DiscardProposal, ClearProposal, document, service, backend,
              snapshot, buttons
  <1>1. DocumentOK' /\ ServiceOK' /\ PanelOK'
    BY DEF DocumentOK, ServiceOK, PanelOK
  <1>2. FlagsOK'
    BY DEF FlagsOK
  <1>3. SnapshotAgrees'
    BY DEF SnapshotAgrees
  <1>4. ButtonsAgree'
    BY DEF ButtonsAgree
  <1>5. QED BY <1>1, <1>2, <1>3, <1>4, ClearTellsTruth

\* Steps of the worker, of Cancel and of the destructors do not touch the
\* panel, the document or active_.
LEMMA BackgroundInv ==
  ASSUME IInv, TypeOK',
         UNCHANGED <<text, revision, active, job, snapshot, shown, generateEnabled,
                     retryEnabled, review>>
  PROVE  IInv'
  <1> USE DEF snapshot, shown, review
  <1>1. SnapshotAgrees'
    BY DEF IInv, SnapshotAgrees
  <1>2. ButtonsAgree'
    BY DEF IInv, ButtonsAgree
  <1>3. PanelTruthful'
    BY DEF IInv, PanelTruthful, Fresh
  <1>4. QED BY <1>1, <1>2, <1>3 DEF IInv

LEMMA WorkerInv ==
  ASSUME IInv, WorkerStep
  PROVE  IInv'
  <1>1. UNCHANGED <<text, revision, active, job, snapshot, shown, generateEnabled,
                    retryEnabled, review>>
    BY DEF WorkerStep, LoadRetriever, AskModel, RequestReturns, DiscoveryReturns,
           WorkerUnchanged, document, buttons
  <1>2. DocumentOK' /\ PanelOK'
    BY DEF WorkerStep, LoadRetriever, AskModel, RequestReturns, DiscoveryReturns,
           WorkerUnchanged, document, snapshot, shown, IInv, TypeOK, DocumentOK, PanelOK
  <1>3. FlagsOK'
    <2>1. WorkerUnchanged
      BY DEF WorkerStep, LoadRetriever, AskModel, RequestReturns, DiscoveryReturns
    <2>2. UNCHANGED posted \/ posted' = TRUE
      BY DEF WorkerStep, LoadRetriever, AskModel, RequestReturns, DiscoveryReturns
    <2>3. posted' \in BOOLEAN
      BY <2>2, Zenon DEF IInv, TypeOK, FlagsOK
    <2>4. QED BY <2>1, <2>3, Zenon
              DEF WorkerUnchanged, snapshot, shown, buttons, review, IInv, TypeOK, FlagsOK
  <1>4. ServiceOK'
    <2> USE DEF WorkerUnchanged, IInv, TypeOK, ServiceOK
    <2>1. CASE LoadRetriever
      BY <2>1 DEF LoadRetriever
    <2>2. CASE AskModel
      BY <2>2 DEF AskModel, Session!AskModel
    <2>3. ASSUME NEW o \in Session!Outcomes, RequestReturns(o) PROVE ServiceOK'
      BY <2>3 DEF RequestReturns, Session!Return
    <2>4. CASE DiscoveryReturns
      BY <2>4 DEF DiscoveryReturns
    <2>5. QED BY <2>1, <2>2, <2>3, <2>4 DEF WorkerStep
  <1>5. QED BY <1>1, <1>2, <1>3, <1>4, BackgroundInv DEF TypeOK

LEMMA ShutdownInv ==
  ASSUME IInv, Cancel \/ CloseWindow \/ DestroyStep
  PROVE  IInv'
  <1> USE DEF Cancel, CloseWindow, DestroyStep, BeginDestroy, FinishDestroy
  <1>1. UNCHANGED <<text, revision, active, job, snapshot, shown, generateEnabled,
                    retryEnabled, review>>
    BY DEF document, buttons
  <1>2. DocumentOK' /\ PanelOK' /\ ServiceOK'
    BY DEF document, backend, snapshot, shown, IInv, TypeOK, DocumentOK, PanelOK, ServiceOK
  <1>3. FlagsOK'
    <2>1. stop' \in BOOLEAN
      BY Zenon DEF IInv, TypeOK, FlagsOK
    <2>2. posted' \in BOOLEAN /\ cancelEnabled' \in BOOLEAN
      BY Zenon DEF buttons, IInv, TypeOK, FlagsOK
    <2>3. UNCHANGED <<snapshot, shown>>
      BY Zenon
    <2>4. QED BY <1>1, <2>1, <2>2, <2>3, Zenon
              DEF snapshot, shown, review, IInv, TypeOK, FlagsOK
  <1>4. QED BY <1>1, <1>2, <1>3, BackgroundInv DEF TypeOK

LEMMA StepInv == IInv /\ [Next]_vars => IInv'
  <1> SUFFICES ASSUME IInv, [Next]_vars PROVE IInv'
    OBVIOUS
  <1>1. ASSUME NEW t \in Texts, Type(t) PROVE IInv'
    <2>1. Append(undo, text) \in Seq(Texts)
      BY DEF IInv, TypeOK, DocumentOK
    <2>2. QED BY <1>1, <2>1, EditInv DEF Type
  <1>2. CASE Undo
    <2>1. undo[Len(undo)] \in Texts /\ SubSeq(undo, 1, Len(undo) - 1) \in Seq(Texts)
      BY <1>2 DEF Undo, IInv, TypeOK, DocumentOK
    <2>2. QED BY <1>2, <2>1, EditInv DEF Undo
  <1>3. ASSUME NEW t \in Texts, LoadText(t) PROVE IInv'
    <2>1. <<>> \in Seq(Texts)
      OBVIOUS
    <2>2. QED BY <1>3, <2>1, EditInv DEF LoadText
  <1>4. CASE UNCHANGED vars
    <2>1. TypeOK'
      BY <1>4 DEF IInv, TypeOK, DocumentOK, ServiceOK, PanelOK, FlagsOK, vars, document,
                  service, backend, snapshot, shown, buttons, review
    <2>2. QED BY <1>4, <2>1, BackgroundInv DEF vars, document, service, buttons
  <1>5. QED
    BY <1>1, <1>2, <1>3, <1>4, SubmitInv, RefreshInv, DeliverRequestInv,
       DeliverDiscoveryInv, ApplyInv, DiscardInv, WorkerInv, ShutdownInv
    DEF Next, UserStep, EventStep

THEOREM Invariance == Spec => []IInv
  BY InitInv, StepInv, PTL DEF Spec

\* Type correctness of the composed Studio.
THEOREM TypeCorrect == Spec => []TypeOK
  BY Invariance, PTL DEF IInv

\* Whatever the user, the worker and the event queue do, Apply is offered
\* exactly for a valid proposal made from the document as it is.
THEOREM PanelIsTruthful == Spec => []PanelTruthful
  BY Invariance, PTL DEF IInv

\* No order of edits, completions and clicks lets Apply overwrite text the
\* request was not made from, or insert anything but a compiled candidate.
THEOREM ApplyIsSafe == Spec => ApplyReplacesWhatWasReviewed
  <1>1. ASSUME IInv, ApplyProposal
        PROVE  /\ text = origin.source /\ revision = origin.revision
               /\ proposal \in ValidScripts /\ text' = Plain[proposal]
               /\ undo'[Len(undo')] = text
    BY <1>1 DEF ApplyProposal, ChangeDocument, IInv, PanelTruthful, Fresh, TypeOK,
                DocumentOK
  <1>2. QED BY <1>1, Invariance, PTL DEF Spec, ApplyReplacesWhatWasReviewed

-----------------------------------------------------------------------------
(* The refinement.                                                         *)

Offered == IF proposal = NoText THEN NoText
           ELSE [script |-> Plain[proposal], compiled |-> proposal \in ValidScripts,
                 source |-> origin.source, base |-> origin.revision]

\* What a shown proposal looks like to ProposalReview.
LEMMA OfferedShape ==
  ASSUME IInv
  PROVE  /\ proposal = NoText => Offered = NoText
         /\ proposal # NoText => Offered \in Review!Offers /\ Offered # NoText
  <1>1. proposal = NoText => Offered = NoText
    BY DEF Offered
  <1>2. ASSUME proposal # NoText PROVE Offered \in Review!Offers
    <2>1. Plain[proposal] \in Texts
      BY <1>2 DEF IInv, TypeOK, PanelOK
    <2>2. origin.source \in Texts /\ origin.revision \in Nat
      BY <1>2 DEF IInv, TypeOK, PanelOK, SnapshotAgrees
    <2>3. (proposal \in ValidScripts) \in BOOLEAN
      OBVIOUS
    <2>4. QED BY <1>2, <2>1, <2>2, <2>3 DEF Offered, Review!Offers
  <1>3. NoText \notin Review!Offers
    BY DEF Review!Offers
  <1>4. QED BY <1>1, <1>2, <1>3

LEMMA ClearIsWithdraw ==
  ASSUME IInv, ClearProposal, UNCHANGED document
  PROVE  [Review!Next]_(Review!rvars)
  <1>1. Offered' = NoText
    BY DEF ClearProposal, Offered
  <1>2. CASE proposal = NoText
    BY <1>1, <1>2, OfferedShape DEF Review!rvars, Offered, document
  <1>3. CASE proposal # NoText
    BY <1>1, <1>3, OfferedShape DEF Review!Next, Review!Withdraw, Offered, document
  <1>4. QED BY <1>2, <1>3

LEMMA DeliverIsOffer ==
  ASSUME IInv, DeliverRequest, outcome.script # NoText
  PROVE  Review!Offer
  <1> USE DEF DeliverRequest, Deliver
  <1>1. active = "request" /\ UNCHANGED document /\ UNCHANGED snapshot
    OBVIOUS
  <1>2. proposal = NoText /\ proposal' = outcome.script /\ origin' = job
    BY <1>1 DEF IInv, SnapshotAgrees
  <1>3. IInv'
    BY DeliverRequestInv
  <1>4. Offered' \in Review!Offers /\ Offered'.base = requestRevision'
        /\ Offered'.source = requestSource'
    <2>1. proposal' # NoText
      BY <1>2
    <2>2. origin' = [source |-> requestSource', revision |-> requestRevision']
      BY <1>3, <2>1 DEF IInv, SnapshotAgrees
    <2>3. Plain[proposal'] \in Texts /\ requestSource' \in Texts /\ requestRevision' \in Nat
      BY <1>3, <2>1 DEF IInv, TypeOK, PanelOK, SnapshotAgrees
    <2>4. QED BY <2>1, <2>2, <2>3 DEF Offered, Review!Offers
  <1>5. requestRevision <= revision
        /\ (requestRevision = revision => requestSource = text)
    BY <1>1 DEF IInv, SnapshotAgrees
  <1>6. QED BY <1>1, <1>2, <1>4, <1>5 DEF Review!Offer, Offered, document, snapshot

LEMMA ApplyIsAccept ==
  ASSUME IInv, ApplyProposal
  PROVE  Review!Accept
  <1>1. proposal \in ValidScripts /\ Fresh
    BY DEF ApplyProposal, IInv, PanelTruthful
  <1>2. Offered = [script |-> Plain[proposal], compiled |-> TRUE, source |-> text,
                   base |-> revision]
        /\ Offered # NoText
    BY <1>1, OfferedShape DEF Offered, Fresh
  <1>3. Offered' = NoText
    BY DEF ApplyProposal, ClearProposal, Offered
  <1>4. text' = Plain[proposal] /\ revision' = revision + 1
    BY DEF ApplyProposal, ChangeDocument
  <1>5. QED BY <1>1, <1>2, <1>3, <1>4 DEF Review!Accept, Offered

LEMMA StepRefines == IInv /\ [Next]_vars => [Review!Next]_(Review!rvars)
  <1> SUFFICES ASSUME IInv, [Next]_vars PROVE [Review!Next]_(Review!rvars)
    OBVIOUS
  <1>1. ASSUME NEW t \in Texts, NEW stack, DocumentEdited(t, stack)
        PROVE  Review!Edit
    BY <1>1 DEF DocumentEdited, ChangeDocument, shown, Review!Edit
  <1>2. CASE (\E t \in Texts : Type(t) \/ LoadText(t)) \/ Undo
    <2>1. undo # <<>> => undo[Len(undo)] \in Texts
      BY DEF IInv, TypeOK, DocumentOK
    <2>2. QED BY <1>1, <1>2, <2>1 DEF Type, LoadText, Undo, Review!Next
  <1>3. CASE Generate \/ Retry
    BY <1>3, ClearIsWithdraw DEF Generate, Retry, Submit, document
  <1>4. CASE DiscardProposal
    BY <1>4, ClearIsWithdraw DEF DiscardProposal
  <1>5. CASE ApplyProposal
    BY <1>5, ApplyIsAccept DEF Review!Next
  <1>6. CASE DeliverRequest
    <2>1. CASE outcome.script = NoText
      BY <1>6, <2>1 DEF DeliverRequest, Deliver, document, shown, Review!rvars
    <2>2. CASE outcome.script # NoText
      BY <1>6, <2>2, DeliverIsOffer DEF Review!Next
    <2>3. QED BY <2>1, <2>2
  <1>7. CASE RefreshModels \/ Cancel \/ CloseWindow \/ WorkerStep \/ DeliverDiscovery
             \/ DestroyStep \/ UNCHANGED vars
    <2>1. UNCHANGED <<text, revision, proposal, origin>>
      BY <1>7 DEF RefreshModels, Cancel, CloseWindow, WorkerStep, LoadRetriever, AskModel,
         RequestReturns, DiscoveryReturns, WorkerUnchanged, DeliverDiscovery, Deliver,
         DestroyStep, BeginDestroy, FinishDestroy, vars, document, shown
    <2>2. QED BY <2>1 DEF Review!rvars
  <1>8. QED BY <1>2, <1>3, <1>4, <1>5, <1>6, <1>7 DEF Next, UserStep, EventStep

\* Panel, service, worker and editor together implement the review discipline:
\* the document changes only by the user's edits and by accepting an offer that
\* compiles and was made for exactly the document it replaces.
THEOREM StudioImplementsReview == Spec => ImplementsReview
  <1>1. Init => Review!Init
    BY DEF Init, Review!Init
  <1>2. QED BY <1>1, StepRefines, Invariance, PTL DEF Spec, ImplementsReview, Review!Spec

-----------------------------------------------------------------------------
(***************************************************************************)
(* One operation at a time.  Cancel can only reach the worker if there is  *)
(* one, so the invariant adds that a completion that is still queued was   *)
(* posted by a worker not joined yet.                                      *)
(***************************************************************************)
PostedByWorker == Running /\ posted => worker = "exited"

OneInv == IInv /\ OneOperationAtATime /\ PostedByWorker

\* A step that leaves the operation, its worker, its token and the buttons be.
LEMMA QuietKeepsOne ==
  ASSUME OneInv, IInv', window' = window,
         UNCHANGED <<active, worker, stop, posted, generateEnabled, cancelEnabled>>
  PROVE  OneInv'
  BY DEF OneInv, OneOperationAtATime, BusyHasOneCause, JoinNeverBlocks, CancelMatchesToken,
         PostedByWorker, Running

LEMMA StartKeepsOne ==
  ASSUME OneInv, IInv', NEW kind \in {"request", "discovery"}, NEW j,
         StartWorker(kind, j), SetBusy(TRUE), UserEvent, UNCHANGED window
  PROVE  OneInv'
  <1>1. Running /\ ~posted
    BY DEF OneInv, OneOperationAtATime, BusyHasOneCause, UserEvent, Running, StartWorker
  <1>2. /\ active' # "none" /\ worker' = "running" /\ posted' = posted /\ stop' = FALSE
        /\ generateEnabled' = FALSE /\ cancelEnabled' = TRUE
    BY DEF StartWorker, SetBusy
  <1>3. QED
    BY <1>1, <1>2 DEF OneInv, OneOperationAtATime, BusyHasOneCause, JoinNeverBlocks,
                      CancelMatchesToken, PostedByWorker, Running

LEMMA OneStep == OneInv /\ [Next]_vars => OneInv'
  <1> SUFFICES ASSUME OneInv, [Next]_vars PROVE OneInv'
    OBVIOUS
  <1>0. IInv /\ IInv'
    BY StepInv DEF OneInv
  <1>1. ASSUME NEW t, NEW stack, DocumentEdited(t, stack) PROVE OneInv'
    BY <1>0, <1>1, QuietKeepsOne DEF DocumentEdited, service, buttons
  <1>2. CASE (\E t \in Texts : Type(t) \/ LoadText(t)) \/ Undo
    BY <1>1, <1>2 DEF Type, LoadText, Undo
  <1>3. CASE Generate \/ Retry
    <2>1. active = "none" /\ Submit(TRUE)
      BY <1>0, <1>3 DEF Generate, Retry, Submit, IInv, ButtonsAgree
    <2>2. QED BY <1>0, <2>1, StartKeepsOne DEF Submit
  <1>4. CASE RefreshModels
    BY <1>0, <1>4, StartKeepsOne DEF RefreshModels
  <1>5. CASE Cancel
    <2>1. worker # "none" /\ active # "none" /\ window = "open"
      BY <1>5 DEF Cancel, UserEvent, OneInv, OneOperationAtATime, BusyHasOneCause,
                  CancelMatchesToken, PostedByWorker, Running
    <2>2. stop' = TRUE /\ cancelEnabled' = FALSE
          /\ UNCHANGED <<active, worker, posted, generateEnabled, window>>
      BY <1>5, <2>1 DEF Cancel
    <2>3. QED
      BY <1>0, <2>2 DEF OneInv, OneOperationAtATime, BusyHasOneCause, JoinNeverBlocks,
                        CancelMatchesToken, PostedByWorker, Running
  <1>6. CASE ApplyProposal \/ DiscardProposal
    BY <1>0, <1>6, QuietKeepsOne DEF ApplyProposal, DiscardProposal, service, buttons
  <1>7. CASE LoadRetriever \/ AskModel
    BY <1>0, <1>7, QuietKeepsOne DEF LoadRetriever, AskModel, WorkerUnchanged, buttons
  <1>8. CASE (\E o \in Session!Outcomes : RequestReturns(o)) \/ DiscoveryReturns
    <2>1. /\ worker = "running" /\ active # "none" /\ worker' = "exited" /\ posted' = TRUE
          /\ UNCHANGED <<active, stop, generateEnabled, cancelEnabled, window>>
      BY <1>8 DEF RequestReturns, DiscoveryReturns, InBackend, WorkerUnchanged, buttons
    <2>2. QED
      BY <1>0, <2>1 DEF OneInv, OneOperationAtATime, BusyHasOneCause, JoinNeverBlocks,
                        CancelMatchesToken, PostedByWorker, Running
  <1>9. CASE EventStep
    <2>1. /\ Running /\ posted /\ posted' = FALSE /\ active' = "none"
          /\ UNCHANGED <<worker, stop, window>>
          /\ generateEnabled' = TRUE /\ cancelEnabled' = FALSE
      BY <1>9 DEF EventStep, DeliverRequest, DeliverDiscovery, Deliver, SetBusy, Running
    <2>2. QED
      BY <1>0, <2>1 DEF OneInv, OneOperationAtATime, BusyHasOneCause, JoinNeverBlocks,
                        CancelMatchesToken, PostedByWorker, Running
  <1>10. CASE CloseWindow \/ BeginDestroy
    <2>1. /\ window' # "open" /\ (window' = "closed" => window = "open")
          /\ UNCHANGED <<active, worker, posted, generateEnabled>>
      BY <1>10 DEF CloseWindow, BeginDestroy, buttons
    <2>2. QED
      BY <1>0, <2>1 DEF OneInv, OneOperationAtATime, BusyHasOneCause, JoinNeverBlocks,
                        CancelMatchesToken, PostedByWorker, Running
  <1>11. CASE FinishDestroy
    BY <1>0, <1>11 DEF FinishDestroy, OneInv, OneOperationAtATime, BusyHasOneCause,
                       JoinNeverBlocks, CancelMatchesToken, PostedByWorker, Running
  <1>12. CASE UNCHANGED vars
    BY <1>0, <1>12, QuietKeepsOne DEF vars, service, buttons
  <1>13. QED
    BY <1>2, <1>3, <1>4, <1>5, <1>6, <1>7, <1>8, <1>9, <1>10, <1>11, <1>12
    DEF Next, UserStep, WorkerStep, DestroyStep

\* Between the click and the handling of the completion there is one operation
\* with one stop token; starting another never joins a worker that is still in
\* the backend, cancelled or not (assistant_service.cpp:107-162).
THEOREM OneAtATime == Spec => []OneOperationAtATime
  <1>1. Init => OneInv
    BY InitInv DEF Init, OneInv, OneOperationAtATime, BusyHasOneCause, JoinNeverBlocks,
                   CancelMatchesToken, PostedByWorker, Running
  <1>2. OneInv => OneOperationAtATime
    BY DEF OneInv
  <1>3. QED BY <1>1, <1>2, OneStep, PTL DEF Spec

LEMMA RetrieverStep ==
  IInv /\ RetrieverNeverBypassed /\ [Next]_vars => RetrieverNeverBypassed'
  <1> SUFFICES ASSUME IInv, RetrieverNeverBypassed, [Next]_vars
               PROVE  RetrieverNeverBypassed'
    OBVIOUS
  <1>1. CASE UNCHANGED backend
    BY <1>1 DEF backend, RetrieverNeverBypassed
  <1>2. CASE Generate \/ Retry \/ RefreshModels
    <2>1. spent' = 0 \/ UNCHANGED backend
      BY <1>2, Zenon DEF Generate, Retry, Submit, RefreshModels, StartWorker
    <2>2. QED BY <1>1, <2>1 DEF RetrieverNeverBypassed
  <1>3. CASE WorkerStep
    BY <1>3 DEF WorkerStep, LoadRetriever, AskModel, RequestReturns, DiscoveryReturns,
                Session!AskModel, Session!Return, RetrieverNeverBypassed
  <1>4. ASSUME NEW t, NEW stack, DocumentEdited(t, stack) PROVE UNCHANGED backend
    BY <1>4 DEF DocumentEdited
  <1>5. CASE (\E t \in Texts : Type(t) \/ LoadText(t)) \/ Undo
    BY <1>1, <1>4, <1>5 DEF Type, LoadText, Undo
  <1>6. CASE Cancel \/ ApplyProposal \/ DiscardProposal \/ CloseWindow
    BY <1>1, <1>6 DEF Cancel, ApplyProposal, DiscardProposal, CloseWindow
  <1>7. CASE EventStep \/ DestroyStep
    BY <1>1, <1>7 DEF EventStep, DeliverRequest, DeliverDiscovery, Deliver, DestroyStep,
                      BeginDestroy, FinishDestroy
  <1>8. CASE UNCHANGED vars
    BY <1>1, <1>8 DEF vars
  <1>9. QED
    BY <1>2, <1>3, <1>5, <1>6, <1>7, <1>8 DEF Next, UserStep

\* No request reaches the model without the packaged corpus, however often the
\* load has failed before (assistant_service.cpp:62).
THEOREM CorpusNeverBypassed == Spec => []RetrieverNeverBypassed
  <1>1. Init => RetrieverNeverBypassed
    BY DEF Init, RetrieverNeverBypassed
  <1>2. QED BY <1>1, RetrieverStep, Invariance, PTL DEF Spec
=============================================================================
