------------------------------ MODULE SweepAxis ------------------------------
(***************************************************************************)
(* A sweep of one axis carried out: planned, then its values set one after *)
(* the other by integer index.                                             *)
(***************************************************************************)
EXTENDS SweepPlan, Sequences

CONSTANT Candidates   \* bounds of sweeps a script may write

ASSUME CandidatesAssumption == Candidates \subseteq Bounds

VARIABLES
  sweep,    \* the bounds
  phase,    \* "new", "rejected", "running", "done"
  values    \* the values set so far

vars == <<sweep, phase, values>>

TypeOK ==
  /\ sweep \in Candidates
  /\ phase \in {"new", "rejected", "running", "done"}
  /\ values \in Seq(Int) /\ Len(values) <= MaxSweepPoints

Init == sweep \in Candidates /\ phase = "new" /\ values = <<>>

Plan ==
  /\ phase = "new"
  /\ phase' = IF Planned(sweep) THEN "running" ELSE "rejected"
  /\ UNCHANGED <<sweep, values>>

Set ==
  /\ phase = "running"
  /\ values' = Append(values, ValueAt(sweep, Len(values)))
  /\ phase' = IF Len(values') = PointCount(sweep) THEN "done" ELSE "running"
  /\ UNCHANGED sweep

Next == Plan \/ Set

Spec == Init /\ [][Next]_vars

-----------------------------------------------------------------------------
(* Properties.                                                             *)

Reaches(s) == \E i \in 0..MaxSweepPoints : Nearby(s, Lattice(s, i))

\* The end of an accepted sweep is measured, as it was written, exactly when it
\* lies on the lattice up to the tolerance; otherwise the sweep stops at the
\* last point below it (docs/architecture.md:300-302,
\* docs/dsl-evolution.md:181-186).
EndIncluded ==
  phase = "done" =>
    LET last == values[Len(values)]
    IN  IF Reaches(sweep) THEN last = sweep.end
        ELSE last < sweep.end /\ last + sweep.step > sweep.end

\* Values never pass the end and, when the step is larger than the tolerance,
\* increase: no operating point is measured twice.  Neighbours lie a step apart,
\* up to the tolerance by which the last one may be moved to the end.
PointsEvenlySpaced ==
  /\ \A i \in DOMAIN values : values[i] <= sweep.end
  /\ \A i \in DOMAIN values : i > 1 =>
       /\ Abs(values[i] - values[i - 1] - sweep.step) <= Tolerance(sweep)
       /\ sweep.step > Tolerance(sweep) => values[i - 1] < values[i]
=============================================================================
