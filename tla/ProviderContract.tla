-------------------------- MODULE ProviderContract --------------------------
(***************************************************************************)
(* What a language model provider promises its caller: one outcome for     *)
(* every call, an outcome that blames the caller's stop request or its     *)
(* timeout only when there was one, and an outcome in the end, whatever    *)
(* the server does.  The authoring session and the model discovery of the  *)
(* Studio rely on this and on nothing else.                                *)
(***************************************************************************)

CONSTANTS
  Answers,   \* what a call may be answered with
  Errors,    \* ProviderErrorCode
  NoOutcome  \* the call has not returned

VARIABLES
  calling,   \* a call is in progress
  stop,      \* its stop token has been triggered
  late,      \* its timeout has passed
  outcome    \* what it returned

Error(code) == [kind |-> "error", code |-> code]

cvars == <<calling, stop, late, outcome>>

-----------------------------------------------------------------------------
Init == /\ calling = FALSE /\ stop = FALSE /\ late = FALSE
        /\ outcome = NoOutcome

Call == /\ ~calling /\ calling'
        /\ stop' \in BOOLEAN /\ late' = FALSE
        /\ outcome' = NoOutcome

RequestStop == /\ calling /\ stop'
               /\ UNCHANGED <<calling, late, outcome>>

Expire == /\ calling /\ late'
          /\ UNCHANGED <<calling, stop, outcome>>

Return == /\ calling /\ ~calling'
          /\ outcome' \in Answers \cup {Error(c) : c \in Errors}
          /\ outcome' = Error("Cancelled") => stop
          /\ outcome' = Error("Timeout") => late
          /\ UNCHANGED <<stop, late>>

Next == Call \/ RequestStop \/ Expire \/ Return

Safety == Init /\ [][Next]_cvars
Returns == calling ~> ~calling

Spec == Safety /\ Returns
=============================================================================
