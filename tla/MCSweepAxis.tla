----------------------------- MODULE MCSweepAxis -----------------------------
(***************************************************************************)
(* Sweeps whose step is about 10 units or below the tolerance, from below  *)
(* and above zero, with every end from one unit before the start to 45     *)
(* beyond it.  The tolerance is 2 to 6 units; at most 5 points fit.        *)
(***************************************************************************)
EXTENDS SweepAxis

MCCandidates ==
  {[start |-> a, end |-> a + w, step |-> t] :
     a \in {-20, 0, 3}, w \in -1..45, t \in {0, 1, 2, 5, 9, 10, 11}}
=============================================================================
