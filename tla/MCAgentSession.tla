--------------------------- MODULE MCAgentSession ---------------------------
(***************************************************************************)
(* A small instance of AgentSession.  Seven scripts realise every verdict  *)
(* the loop distinguishes: two rejected with the same diagnostics, one     *)
(* rejected with others, two valid ones violating the same requirement,    *)
(* one violating another, one clean.                                       *)
(***************************************************************************)
EXTENDS AgentSession

CONSTANTS bad1, bad2, badOther, off1, off2, offOther, clean

MCScripts == {bad1, bad2, badOther, off1, off2, offOther, clean}

MCDiagnostics ==
  [s \in MCScripts |-> CASE s \in {bad1, bad2} -> {"unknown_name"}
                         [] s = badOther -> {"unit_mismatch"}
                         [] OTHER -> {}]

MCViolations ==
  [s \in MCScripts |-> CASE s \in {off1, off2} -> {"frequency.start"}
                         [] s = offOther -> {"output.name"}
                         [] OTHER -> {}]
=============================================================================
