------------------------- MODULE AuthoringContract -------------------------
(***************************************************************************)
(* What one authoring request promises the code that issues it, whatever   *)
(* the model answers: the abstract specification of AgentSession, and the  *)
(* only thing the Studio panel needs to know about the assistant backend.  *)
(*                                                                         *)
(* A request is submitted, asks the model at most Budget times, may be     *)
(* asked to stop at any time, and returns exactly one outcome: a proposal  *)
(* that compiles and violates no verified requirement, a refusal issued    *)
(* before the model is asked, or a failure that may carry a candidate for  *)
(* review.                                                                 *)
(***************************************************************************)
EXTENDS Naturals

CONSTANTS
  Scripts,       \* candidate scripts the model can return
  ValidScripts,  \* those the compiler accepts
  CleanScripts,  \* valid ones without a high-confidence requirement violation
  NoScript,      \* absent optional<ScriptProposal>
  Budget         \* provider calls one request may make

(* An implementation owes ValidScripts \subseteq Scripts, CleanScripts         *)
(* \subseteq ValidScripts, NoScript \notin Scripts and Budget \in Nat \ {0};   *)
(* AgentSession derives them from SessionAssumption, AuthoringStudio assumes   *)
(* them in StudioAssumption.                                                   *)

VARIABLES
  phase,     \* "idle" before and after a request, "working" during it
  stop,      \* the request's stop token has been triggered
  spent,     \* provider calls made for the request
  outcome    \* result of the last finished request

cvars == <<phase, stop, spent, outcome>>

-----------------------------------------------------------------------------
(* AgentErrorCode and the three alternatives of AgentResult.               *)
ErrorCodes == {"InvalidRequest", "ProviderFailure", "ValidationFailure",
               "RepairLimitReached", "NoProgress", "Cancelled", "Internal"}

NoOutcome == [kind |-> "none", code |-> "none", script |-> NoScript, attempts |-> 0]

Unsupported == [kind |-> "unsupported", code |-> "none",
                script |-> NoScript, attempts |-> 0]

Failures == [kind : {"failure"}, code : ErrorCodes,
             script : Scripts \cup {NoScript}, attempts : 0..Budget]

Proposals == [kind : {"proposal"}, code : {"none"},
              script : CleanScripts, attempts : 1..Budget]

Outcomes == {Unsupported} \cup Failures \cup Proposals

\* eligible_to_apply: the compiler verdict alone.
EligibleToApply(o) == o.script \in ValidScripts

-----------------------------------------------------------------------------
Init == /\ phase = "idle"
        /\ stop \in BOOLEAN
        /\ spent = 0
        /\ outcome = NoOutcome

Submit == /\ phase = "idle"
          /\ phase' = "working"
          /\ stop' \in BOOLEAN
          /\ spent' = 0
          /\ outcome' = NoOutcome

RequestStop == /\ phase = "working" /\ ~stop
               /\ stop' = TRUE
               /\ UNCHANGED <<phase, spent, outcome>>

AskModel == /\ phase = "working" /\ ~stop
            /\ spent < Budget
            /\ spent' = spent + 1
            /\ UNCHANGED <<phase, stop, outcome>>

\* A proposal reports the number of answers it took, at most the calls made;
\* a refusal is decided before the first call.
Return(o) == /\ phase = "working"
             /\ o.kind = "unsupported" => spent = 0
             /\ o.attempts <= spent
             /\ phase' = "idle"
             /\ outcome' = o
             /\ UNCHANGED <<stop, spent>>

Next == \/ Submit
        \/ RequestStop
        \/ AskModel
        \/ \E o \in Outcomes : Return(o)

Safety == Init /\ [][Next]_cvars
Spec == Safety /\ WF_cvars(\E o \in Outcomes : Return(o))
=============================================================================
