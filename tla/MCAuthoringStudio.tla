------------------------- MODULE MCAuthoringStudio -------------------------
(***************************************************************************)
(* A small instance of AuthoringStudio: two documents the user can have,   *)
(* and three scripts the model can propose - one clean, one that compiles  *)
(* but violates a requirement, one the compiler rejects.  The second hides *)
(* a line separator in a comment: in the proposal view it reads as bad.    *)
(***************************************************************************)
EXTENDS AuthoringStudio

CONSTANTS docA, docB, clean, off, bad

MCTexts == {docA, docB, clean, off, bad}
MCScripts == {clean, off, bad}
MCValid == {clean, off}
MCClean == {clean}
MCPlain == [s \in MCScripts |-> IF s = off THEN bad ELSE s]

\* For liveness, where TLC keeps the whole behaviour graph: one document.
LiveTexts == {docA, clean, bad}
LiveScripts == {clean, bad}
LivePlain == [s \in LiveScripts |-> s]
=============================================================================
