-------------------------- MODULE SweepAxis_proofs --------------------------
(***************************************************************************)
(* Theorems about sweeps with any bounds, any step, any tolerance and any  *)
(* limit on the number of points.                                          *)
(***************************************************************************)
EXTENDS SweepAxis, IrProgram_proofs

USE SweepAssumption

-----------------------------------------------------------------------------
\* The values set are those of the indices so far.
IInv ==
  /\ sweep \in Candidates /\ phase \in {"new", "rejected", "running", "done"}
  /\ values \in Seq(Int)
  /\ \A i \in 1..Len(values) : values[i] = ValueAt(sweep, i - 1)
  /\ phase \in {"new", "rejected"} => values = <<>>
  /\ phase \in {"running", "done"} => Planned(sweep)
  /\ phase = "running" => Len(values) < PointCount(sweep)
  /\ phase = "done" => Len(values) = PointCount(sweep)

LEMMA InitInv == Init => IInv
  BY DEF Init, IInv

LEMMA StepInv == IInv /\ [Next]_vars => IInv'
  <1> SUFFICES ASSUME IInv, [Next]_vars PROVE IInv'
    OBVIOUS
  <1> USE CandidatesAssumption DEF IInv
  <1>0. sweep \in Bounds
    OBVIOUS
  <1>1. CASE Plan
    <2>1. Planned(sweep) => PointCount(sweep) > 0 /\ PointCount(sweep) \in Nat
      BY <1>0, PlannedCount
    <2>2. values' = values /\ sweep' = sweep /\ values = <<>>
      BY <1>1 DEF Plan
    <2>3. CASE Planned(sweep)
      BY <1>1, <2>1, <2>2, <2>3 DEF Plan
    <2>4. CASE ~Planned(sweep)
      BY <1>1, <2>2, <2>4 DEF Plan
    <2>5. QED BY <2>3, <2>4
  <1>2. CASE Set
    <2>1. /\ Planned(sweep) /\ Len(values) < PointCount(sweep) /\ sweep' = sweep
          /\ PointCount(sweep) \in Nat /\ Len(values) \in 0..LastIndex(sweep)
      BY <1>0, <1>2, PlannedCount DEF Set
    <2>2. ValueAt(sweep, Len(values)) \in Int
      BY <1>0, <2>1, PlannedCount, ValuesSpaced
    <2>3. /\ values' \in Seq(Int) /\ Len(values') = Len(values) + 1
          /\ \A i \in 1..Len(values') : values'[i] = ValueAt(sweep, i - 1)
      BY <1>2, <2>2 DEF Set
    <2>4. phase' = IF Len(values') = PointCount(sweep) THEN "done" ELSE "running"
      BY <1>2 DEF Set
    <2>5. QED BY <2>1, <2>3, <2>4
  <1>3. CASE UNCHANGED vars
    BY <1>3 DEF vars
  <1>4. QED BY <1>1, <1>2, <1>3 DEF Next

THEOREM Invariance == Spec => []IInv
  BY InitInv, StepInv, PTL DEF Spec

LEMMA CountBounded == IInv => Len(values) <= MaxSweepPoints
  <1> SUFFICES ASSUME IInv PROVE Len(values) <= MaxSweepPoints
    OBVIOUS
  <1>1. sweep \in Bounds
    BY CandidatesAssumption DEF IInv
  <1>2. CASE phase \in {"new", "rejected"}
    BY <1>2 DEF IInv
  <1>3. CASE phase \in {"running", "done"}
    <2>1. Planned(sweep) /\ Len(values) \in Nat /\ Len(values) <= PointCount(sweep)
      BY <1>1, <1>3, PlannedCount DEF IInv
    <2>2. QED BY <1>1, <2>1, PlannedCount
  <1>4. QED BY <1>2, <1>3 DEF IInv

\* Types, and the limit on the number of points.
THEOREM TypeCorrect == Spec => []TypeOK
  <1>1. IInv => TypeOK
    BY CountBounded DEF IInv, TypeOK
  <1>2. QED BY <1>1, Invariance, PTL

\* For all bounds: values stay within the end, a step apart, and no point is set
\* twice when the step exceeds the tolerance.
THEOREM SweepsAreEven == Spec => []PointsEvenlySpaced
  <1>1. IInv => PointsEvenlySpaced
    <2> SUFFICES ASSUME IInv, NEW i \in DOMAIN values
                 PROVE  /\ values[i] <= sweep.end
                        /\ i > 1 =>
                             /\ Abs(values[i] - values[i - 1] - sweep.step) <= Tolerance(sweep)
                             /\ sweep.step > Tolerance(sweep) => values[i - 1] < values[i]
      BY DEF PointsEvenlySpaced
    <2>1. sweep \in Bounds
      BY CandidatesAssumption DEF IInv
    <2>2. i \in 1..Len(values) /\ Len(values) \in Nat
      BY DEF IInv
    <2>3. phase \in {"running", "done"}
      BY <2>2 DEF IInv
    <2>4. Planned(sweep) /\ i - 1 \in 0..LastIndex(sweep)
      BY <2>1, <2>2, <2>3, PlannedCount DEF IInv
    <2>5. ValidSweep(sweep)
      BY <2>1, <2>4, PlannedCount
    <2>6. values[i] = ValueAt(sweep, i - 1)
      BY <2>2 DEF IInv
    <2>7. i > 1 => values[i - 1] = ValueAt(sweep, (i - 1) - 1) /\ i - 1 > 0
      BY <2>2, SMTT(30) DEF IInv
    <2>8. QED BY <2>1, <2>2, <2>4, <2>5, <2>6, <2>7, ValuesSpaced
  <1>2. QED BY <1>1, Invariance, PTL

\* For all bounds: the end is the last value exactly when the lattice meets it up
\* to the tolerance, and otherwise no further step would have stayed below it.
THEOREM SweepsReachTheEnd == Spec => []EndIncluded
  <1>1. IInv => EndIncluded
    <2> SUFFICES ASSUME IInv, phase = "done"
                 PROVE  IF Reaches(sweep) THEN values[Len(values)] = sweep.end
                        ELSE /\ values[Len(values)] < sweep.end
                             /\ values[Len(values)] + sweep.step > sweep.end
      BY DEF EndIncluded
    <2> DEFINE L == LastIndex(sweep)
    <2>1. sweep \in Bounds /\ Planned(sweep)
      BY CandidatesAssumption DEF IInv
    <2>2. /\ ValidSweep(sweep) /\ L \in Nat /\ L + 1 <= MaxSweepPoints
          /\ Len(values) = L + 1 /\ values[Len(values)] = ValueAt(sweep, L)
      BY <2>1, PlannedCount DEF IInv
    <2>3. /\ sweep.step \in Int /\ sweep.step > 0 /\ sweep.end \in Int
          /\ Tolerance(sweep) \in Nat
      BY <2>1, <2>2, ToleranceNat DEF Bounds, ValidSweep
    <2>4. /\ Lattice(sweep, L) \in Int
          /\ ~Nearby(sweep, Lattice(sweep, L)) =>
               /\ Lattice(sweep, L) <= sweep.end
               /\ Lattice(sweep, L + 1) > sweep.end + Tolerance(sweep)
      BY <2>1, <2>2, Last
    <2> HIDE DEF L
    <2>5. CASE Nearby(sweep, Lattice(sweep, L))
      <3>1. Reaches(sweep)
        BY <2>2, <2>5 DEF Reaches
      <3>2. QED BY <2>2, <2>5, <3>1 DEF ValueAt
    <2>6. CASE ~Nearby(sweep, Lattice(sweep, L))
      <3>0. L \in Int /\ L + 1 \in Int /\ L < L + 1
        BY <2>2
      <3>1. Lattice(sweep, L + 1) = Lattice(sweep, L) + sweep.step
        BY <2>1, <2>3, <3>0, LatticeGrows
      <3>2. Lattice(sweep, L) + Tolerance(sweep) < sweep.end
        BY <2>3, <2>4, <2>6 DEF Nearby, Abs
      <3>3. ASSUME NEW i \in 0..MaxSweepPoints, Nearby(sweep, Lattice(sweep, i))
            PROVE  FALSE
        <4>0. i \in Int
          OBVIOUS
        <4>1. CASE i < L
          <5>1. Lattice(sweep, i) \in Int /\ Lattice(sweep, i) + sweep.step <= Lattice(sweep, L)
            BY <2>1, <2>3, <3>0, <4>0, <4>1, LatticeGrows
          <5>2. QED BY <2>3, <2>4, <3>2, <3>3, <5>1 DEF Nearby, Abs
        <4>2. CASE i > L
          <5>1. /\ Lattice(sweep, i) \in Int
                /\ Lattice(sweep, L) + sweep.step <= Lattice(sweep, i)
            BY <2>1, <2>3, <3>0, <4>0, <4>2, LatticeGrows
          <5>2. QED BY <2>3, <2>4, <2>6, <3>1, <3>3, <5>1 DEF Nearby, Abs
        <4>3. QED BY <2>6, <3>0, <3>3, <4>0, <4>1, <4>2
      <3>4. ~Reaches(sweep)
        BY <3>3 DEF Reaches
      <3>5. QED BY <2>2, <2>3, <2>4, <2>6, <3>1, <3>2, <3>4 DEF ValueAt
    <2>7. QED BY <2>5, <2>6
  <1>2. QED BY <1>1, Invariance, PTL
=============================================================================
