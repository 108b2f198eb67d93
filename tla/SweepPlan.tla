------------------------------ MODULE SweepPlan ------------------------------
(***************************************************************************)
(* The points of one sweep axis: axis_point_count of the analyzer, and     *)
(* plan_sweep and value_at of the runtime, which compute in the same way.  *)
(*                                                                         *)
(* Quantities are integers of a unit far below what the tolerance tells    *)
(* apart, so that a decimal step written in a script is a multiple of the  *)
(* unit give or take the error of its binary representation.  The bounds   *)
(* are finite; what the division itself rounds is not modelled.            *)
(***************************************************************************)
EXTENDS Integers

CONSTANTS
  MaxSweepPoints,   \* maximum_sweep_points, 1 000 000
  Precision,        \* 1 / (16 times double epsilon)
  One               \* 1 Hz or 1 K in the unit

ASSUME SweepAssumption ==
  MaxSweepPoints \in Nat \ {0} /\ Precision \in Nat \ {0} /\ One \in Nat \ {0}

Bounds == [start : Int, end : Int, step : Int]

Abs(x) == IF x < 0 THEN -x ELSE x

Larger(x, y) == IF x < y THEN y ELSE x

Magnitude(s) == Larger(Larger(Abs(s.start), Abs(s.end)), Larger(Abs(s.step), One))

Tolerance(s) == Magnitude(s) \div Precision

Nearby(s, x) == Abs(x - s.end) <= Tolerance(s)

ValidSweep(s) == s.step > 0 /\ s.end >= s.start

Lattice(s, i) == s.start + i * s.step

FlooredIndex(s) == (s.end - s.start) \div s.step

LastIndexFloored(s) == FlooredIndex(s)           \* mutant: the end point is lost

\* The quotient may fall just short of the index whose point is the end.
LastIndex(s) ==
  IF /\ ~Nearby(s, Lattice(s, FlooredIndex(s)))
     /\ Lattice(s, FlooredIndex(s) + 1) <= s.end + Tolerance(s)
  THEN FlooredIndex(s) + 1
  ELSE FlooredIndex(s)

PointCount(s) == LastIndex(s) + 1

TooLarge(s) ==
  \/ s.end - s.start > MaxSweepPoints * s.step
  \/ PointCount(s) > MaxSweepPoints

PlannedUnlimited(s) == ValidSweep(s)             \* mutant: no limit

Planned(s) == ValidSweep(s) /\ ~TooLarge(s)

ValueAtEnding(s, i) ==                           \* mutant: the last is the end
  IF Lattice(s, i) + s.step > s.end THEN s.end ELSE Lattice(s, i)

ValueAt(s, i) == IF Nearby(s, Lattice(s, i)) THEN s.end ELSE Lattice(s, i)
=============================================================================
