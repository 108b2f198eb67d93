----------------------- MODULE Characterization_proofs -----------------------
(***************************************************************************)
(* Theorems about Characterization for every set of scripts and programs,  *)
(* any sweeps, measurements and assertions, and any equipment; and about   *)
(* CommandLine, which runs it: what the runtime promises also holds of     *)
(* what the command line runs, and the exit status tells what is in the    *)
(* results file.                                                           *)
(***************************************************************************)
EXTENDS CommandLine, IrProgram_proofs

USE SweepAssumption, ProgramsAssumption

-----------------------------------------------------------------------------
(* Programs.                                                               *)

WellFormed(p) ==
  /\ IsSeq(p.values)
  /\ Len(p.sweeps) \in Nat /\ DOMAIN p.sweeps = 1..Len(p.sweeps)
  /\ \A a \in DOMAIN p.sweeps : p.sweeps[a].dimension \in Dimensions
  /\ IsSeq(p.measurements) /\ DOMAIN p.measurements = 1..Len(p.measurements)
  /\ \A k \in DOMAIN p.measurements : p.measurements[k].op \in MeasureOps

LEMMA AssembledWellFormed ==
  ASSUME NEW p \in IrPrograms
  PROVE  WellFormed(p)
  <1>1. /\ p.values \in Seq(Values)
        /\ p.sweeps \in Seq([value : Nat, dimension : Dimensions, bounds : Bounds,
                             pointCount : Nat])
        /\ p.measurements \in Seq([value : Nat, op : MeasureOps, type : ValueTypes,
                                     legacy : BOOLEAN])
    BY DEF IrPrograms
  <1>2. \A a \in DOMAIN p.sweeps : p.sweeps[a].dimension \in Dimensions
    <2> SUFFICES ASSUME NEW a \in DOMAIN p.sweeps
                 PROVE  p.sweeps[a].dimension \in Dimensions
      OBVIOUS
    <2>1. p.sweeps[a] \in [value : Nat, dimension : Dimensions, bounds : Bounds,
                           pointCount : Nat]
      BY <1>1, ElementOf
    <2>2. QED BY <2>1
  <1>3. \A k \in DOMAIN p.measurements : p.measurements[k].op \in MeasureOps
    <2> SUFFICES ASSUME NEW k \in DOMAIN p.measurements
                 PROVE  p.measurements[k].op \in MeasureOps
      OBVIOUS
    <2>1. p.measurements[k] \in [value : Nat, op : MeasureOps, type : ValueTypes,
                                     legacy : BOOLEAN]
      BY <1>1, ElementOf
    <2>2. QED BY <2>1
  <1>4. QED BY <1>1, <1>2, <1>3, SeqIsSeq DEF WellFormed, IsSeq

\* Lowering makes well-formed programs, of the scripts the analyzer accepts.
LEMMA ExecutedTyped == Executed \subseteq IrPrograms
  BY LoweredTyped DEF Executed, Compiled

LEMMA ExecutedWellFormed == \A p \in Executed : WellFormed(p)
  BY AssembledWellFormed, ExecutedTyped

\* What a lowered program is like, as far as the equipment sees it.
Layout(p) ==
  /\ Len(p.measurements) > 0
  /\ \A a, b \in DOMAIN p.sweeps : p.sweeps[a].dimension = p.sweeps[b].dimension => a = b
  /\ p.reference \in Int
  /\ \A k \in DOMAIN p.measurements :
       /\ p.measurements[k].value \in 1..Len(p.values)
       /\ p.values[p.measurements[k].value].op = p.measurements[k].op
       /\ p.reference < p.measurements[k].value
       /\ \A j \in DOMAIN p.measurements :
            j < k => p.measurements[j].value < p.measurements[k].value
  /\ \A i \in 1..Len(p.values) : IsMeasure(p.values[i]) =>
       \E k \in DOMAIN p.measurements : p.measurements[k].value = i
  /\ \E k \in DOMAIN p.measurements : p.measurements[k].value = p.measurement

LEMMA LayoutOfLowered ==
  ASSUME NEW p, WellFormed(p), Lowered(p)
  PROVE  Layout(p)
  <1>1. Len(p.measurements) > 0
    <2>1. p.measurements # <<>>
      BY DEF Lowered, BaseValid, BaseCountsValid
    <2>2. Len(p.measurements) \in Nat
          /\ p.measurements = [i \in 1..Len(p.measurements) |-> p.measurements[i]]
      BY DEF WellFormed, IsSeq
    <2>3. Len(p.measurements) # 0
      BY <2>1, <2>2
    <2>4. QED BY <2>2, <2>3
  <1>2. ASSUME NEW a \in DOMAIN p.sweeps, NEW b \in DOMAIN p.sweeps,
               p.sweeps[a].dimension = p.sweeps[b].dimension
        PROVE  a = b
    <2>1. \A d : IsFiniteSet(Axes(p, d))
      <3>1. IsFiniteSet(1..Len(p.sweeps))
        BY FS_Interval DEF WellFormed
      <3>2. QED BY <3>1, FS_Subset DEF WellFormed, Axes
    <2>2. /\ Cardinality(Axes(p, "frequency")) = 1
          /\ ~(Cardinality(Axes(p, "temperature")) > 1)
      BY DEF Lowered, StopsSilently
    <2>3. CASE p.sweeps[a].dimension = "frequency"
      <3>1. PICK x : Axes(p, "frequency") = {x}
        BY <2>1, <2>2, FS_Singleton
      <3>2. a \in Axes(p, "frequency") /\ b \in Axes(p, "frequency")
        BY <1>2, <2>3 DEF Axes
      <3>3. QED BY <3>1, <3>2
    <2>4. CASE p.sweeps[a].dimension = "temperature"
      <3>1. a \in Axes(p, "temperature") /\ b \in Axes(p, "temperature")
        BY <1>2, <2>4 DEF Axes
      <3>2. Cardinality(Axes(p, "temperature")) = 1
        BY <2>1, <2>2, <3>1, FS_CardinalityType, FS_EmptySet
      <3>3. PICK x : Axes(p, "temperature") = {x}
        BY <2>1, <3>2, FS_Singleton
      <3>4. QED BY <3>1, <3>3
    <2>5. QED BY <2>3, <2>4 DEF WellFormed, Dimensions
  <1>3. p.reference \in Int
    BY DEF Lowered, BaseValid, BaseCountsValid, Binding, Has, Ids
  <1>4. \A k \in DOMAIN p.measurements :
          /\ p.measurements[k].value \in 1..Len(p.values)
          /\ p.values[p.measurements[k].value].op = p.measurements[k].op
    BY DEF Lowered, RestValid, MeasurementsValid, Binding, Has, Ids
  <1>5. \A k \in DOMAIN p.measurements :
          /\ p.reference < p.measurements[k].value
          /\ \A j \in DOMAIN p.measurements :
               j < k => p.measurements[j].value < p.measurements[k].value
    BY DEF Lowered
  <1>6. \A i \in 1..Len(p.values) : IsMeasure(p.values[i]) =>
          \E k \in DOMAIN p.measurements : p.measurements[k].value = i
    BY DEF Lowered, Ids
  <1>7. \E k \in DOMAIN p.measurements : p.measurements[k].value = p.measurement
    <2>1. p.measurement \in 1..Len(p.values) /\ p.values[p.measurement].op = "MeasurePower"
      BY DEF Lowered, RestValid, MeasurementsValid, Binding, Has, Ids
    <2>2. QED BY <1>6, <2>1 DEF IsMeasure, MeasureOps
  <1>8. QED BY <1>1, <1>2, <1>3, <1>4, <1>5, <1>6, <1>7 DEF Layout

-----------------------------------------------------------------------------
(* The inductive invariant.                                                *)

Untouched == {"validate", "plan", "preflight", "rejected"}

\* What has been checked by when.
ChecksInv ==
  /\ program \in Executed /\ phase \in Phases
  /\ DOMAIN settings = DOMAIN NoReading
  /\ phase \in Untouched => settings = NoReading
  /\ phase \notin {"validate", "rejected"} => Accepted(program)
  /\ phase \in {"start", "evaluate"} => Required \subseteq devices
  /\ phase = "undefined" => Unchecked(program)

\* Axes planned and coordinates set are the program's, in its order.
PlanInv ==
  /\ IsSeq(plan) /\ Len(plan) <= Len(program.sweeps)
  /\ \A a \in 1..Len(plan) : plan[a].dimension = program.sweeps[a].dimension
  /\ phase \in {"preflight", "start", "evaluate"} => Len(plan) = Len(program.sweeps)
  /\ phase = "evaluate" =>
       /\ Len(coordinates) = Len(program.sweeps)
       /\ \A a \in 1..Len(coordinates) :
            coordinates[a].dimension = program.sweeps[a].dimension

\* How far a point has got.
PointInv ==
  /\ IsSeq(coordinates) /\ IsSeq(values) /\ IsSeq(calls) /\ IsSeq(samples)
  /\ axis \in 0..Len(coordinates) /\ powered \in BOOLEAN
  /\ axis < Len(coordinates) => values = <<>> /\ ~powered

\* The i-th call documented for a point.
DocumentedCall(i) ==
  IF i <= Len(coordinates)
  THEN IF coordinates[i].dimension = "frequency" THEN "setFrequency" ELSE "setTemperature"
  ELSE IF i = Len(coordinates) + 1 THEN "setOutputPower"
  ELSE program.measurements[i - Len(coordinates) - 1].op

\* j measurements have been taken.
Taken(j) ==
  /\ j \in 0..Len(program.measurements)
  /\ \A k \in DOMAIN program.measurements :
       k <= j <=> program.measurements[k].value <= Len(values)

CallsInv ==
  Lowered(program) =>
    /\ program.measurements[1].value <= Len(values) => powered
    /\ ~powered => Len(calls) = axis
    /\ powered => \E j \in Nat : Taken(j) /\ Len(calls) = Len(coordinates) + 1 + j
    /\ \A i \in 1..Len(calls) : calls[i] = DocumentedCall(i)

\* The equipment has reading r's settings at point pt.
Configured(r, pt) ==
  /\ r.power = "reference"
  /\ \A a \in DOMAIN pt : r[pt[a].dimension] = pt[a].value

\* The settings follow the point, and what has been measured was measured there.
SettingsInv ==
  Lowered(program) =>
    /\ phase = "evaluate" =>
         /\ \A a \in 1..axis : settings[coordinates[a].dimension] = coordinates[a].value
         /\ powered => settings.power = "reference"
    /\ \A k \in DOMAIN program.measurements :
         program.measurements[k].value <= Len(values) =>
           Configured(values[program.measurements[k].value], coordinates)

IInv ==
  /\ ChecksInv /\ PlanInv /\ PointInv /\ CallsInv /\ SettingsInv
  /\ MeasuredAsConfigured

LEMMA LayoutInv ==
  ASSUME ChecksInv
  PROVE  WellFormed(program) /\ (Lowered(program) => Layout(program))
  BY ExecutedWellFormed, LayoutOfLowered DEF ChecksInv

LEMMA InitInv == Init => IInv
  <1> SUFFICES ASSUME Init PROVE IInv
    OBVIOUS
  <1>1. ChecksInv
    <2>1. program \in Executed /\ phase = "validate" /\ settings = NoReading
      BY DEF Init
    <2>2. QED BY <2>1 DEF ChecksInv, Phases, Untouched
  <1>2. WellFormed(program) /\ (Lowered(program) => Layout(program))
    BY <1>1, LayoutInv
  <1>3. PlanInv
    BY <1>2, EmptyIsSeq DEF Init, PlanInv, WellFormed
  <1>4. PointInv
    <2>1. /\ coordinates = <<>> /\ values = <<>> /\ calls = <<>> /\ samples = <<>>
          /\ axis = 0 /\ powered \in BOOLEAN
      BY DEF Init
    <2>2. QED BY <2>1, EmptyIsSeq DEF PointInv
  <1>5. ASSUME Lowered(program), NEW k \in DOMAIN program.measurements
        PROVE  ~(program.measurements[k].value <= Len(values))
    BY <1>2, <1>5 DEF Init, Layout
  <1>6. CallsInv
    <2> SUFFICES ASSUME Lowered(program) PROVE CallsInv
      BY DEF CallsInv
    <2>1. 1 \in DOMAIN program.measurements
      BY <1>2 DEF Layout, WellFormed, IsSeq
    <2>2. QED BY <1>5, <2>1 DEF Init, CallsInv
  <1>7. SettingsInv
    BY <1>5 DEF Init, SettingsInv
  <1>8. MeasuredAsConfigured
    BY DEF Init, MeasuredAsConfigured
  <1>9. QED BY <1>1, <1>3, <1>4, <1>6, <1>7, <1>8 DEF IInv

\* A program of which nothing is left unchecked, with the capabilities it
\* requires, never reads anything that is not there.
LEMMA NothingMissing ==
  ASSUME IInv, ~Unchecked(program), CallDue
  PROVE  ~Missing
  <1>1. WellFormed(program)
    BY LayoutInv DEF IInv
  <1>2. phase = "evaluate" /\ Required \subseteq devices /\ Accepted(program)
    BY DEF CallDue, Evaluating, IInv, ChecksInv
  <1>3. axis \in 0..Len(coordinates) /\ Len(coordinates) \in Nat /\ Len(values) \in Nat
    BY DEF IInv, PointInv, IsSeq
  <1>4. CASE axis < Len(coordinates)
    <2>1. /\ axis + 1 \in DOMAIN program.sweeps
          /\ coordinates[axis + 1].dimension = program.sweeps[axis + 1].dimension
      BY <1>1, <1>2, <1>3, <1>4 DEF IInv, PlanInv, WellFormed
    <2>2. coordinates[axis + 1].dimension = "temperature" => "temperature" \in devices
      BY <1>2, <2>1 DEF Required, Axes
    <2>3. QED BY <1>4, <2>2 DEF Missing
  <1>5. CASE ~(axis < Len(coordinates)) /\ PowerDue
    <2>1. program.reference \in Int
      BY <1>2 DEF Accepted, BaseValid, BaseCountsValid, Binding, Has, Ids
    <2>2. ~(program.reference >= Upcoming)
      BY <1>5 DEF PowerDue, Unchecked
    <2>3. QED BY <1>5, <2>2 DEF Missing
  <1>6. CASE ~(axis < Len(coordinates)) /\ ~PowerDue
    <2>1. Upcoming \in 1..Len(program.values) /\ IsMeasure(program.values[Upcoming])
      BY <1>6 DEF CallDue, Ids
    <2>2. PICK k \in DOMAIN program.measurements : program.measurements[k].value = Upcoming
      BY <2>1 DEF Unchecked, Ids
    <2>3. program.values[Upcoming].op = program.measurements[k].op
      BY <1>2, <2>2 DEF Unchecked, Accepted, RestValid, MeasurementsValid, Binding
    <2>4. Capability[program.values[Upcoming].op] \in devices
      BY <1>2, <2>3, SMTT(30) DEF Required
    <2>5. QED BY <1>6, <2>4 DEF Missing
  <1>7. QED BY <1>4, <1>5, <1>6

LEMMA ChecksStep ==
  ASSUME IInv, [Next]_vars
  PROVE  ChecksInv'
  <1>1. ChecksInv
    BY DEF IInv
  <1>2. CASE RejectInvalid \/ Validate
    BY <1>1, <1>2 DEF RejectInvalid, Validate, ChecksInv, Phases, Ended, Untouched
  <1>3. CASE PlanSweep \/ CheckProduct
    <2>1. /\ phase = "plan" /\ phase' \in {"plan", "preflight", "rejected"}
          /\ UNCHANGED <<program, devices, settings>>
      BY <1>3 DEF PlanSweep, CheckProduct
    <2>2. QED BY <1>1, <2>1 DEF ChecksInv, Phases, Ended, Untouched
  <1>4. CASE Preflight
    <2>1. /\ phase = "preflight" /\ phase' \in {"start", "rejected"}
          /\ phase' = "start" => Required \subseteq devices
          /\ UNCHANGED <<program, devices, settings>>
      BY <1>4 DEF Preflight
    <2>2. Required' = Required
      BY <2>1 DEF Required, Axes
    <2>3. QED BY <1>1, <2>1, <2>2 DEF ChecksInv, Phases, Ended, Untouched
  <1>5. CASE StartPoint \/ FailPoint \/ FinishPoint \/ Finish
    <2>1. /\ phase \in {"start", "evaluate"}
          /\ phase' \in {"start", "evaluate", "thrown", "notFinite", "done"}
          /\ UNCHANGED <<program, devices, settings>>
      BY <1>5 DEF StartPoint, FailPoint, FinishPoint, Finish, Evaluated, Evaluating
    <2>2. Required' = Required
      BY <2>1 DEF Required, Axes
    <2>3. QED BY <1>1, <2>1, <2>2 DEF ChecksInv, Phases, Ended, Untouched
  <1>6. CASE SetControl \/ SetOutputPower \/ Measure \/ Compute
    <2>1. /\ phase = "evaluate" /\ UNCHANGED <<program, devices, phase>>
          /\ DOMAIN settings' = DOMAIN settings
      BY <1>6 DEF SetControl, SetOutputPower, Measure, Compute, Evaluating
    <2>2. Required' = Required
      BY <2>1 DEF Required, Axes
    <2>3. QED BY <1>1, <2>1, <2>2 DEF ChecksInv, Phases, Ended, Untouched, NoReading
  <1>7. CASE EquipmentThrows
    <2>1. /\ phase = "evaluate" /\ phase' = "thrown" /\ UNCHANGED <<program, devices>>
          /\ DOMAIN settings' = DOMAIN settings
      BY <1>7 DEF EquipmentThrows, CallDue, Evaluating
    <2>2. QED BY <1>1, <2>1 DEF ChecksInv, Phases, Ended, Untouched, NoReading
  <1>8. CASE ReadMissing
    <2>1. Unchecked(program)
      BY <1>8, NothingMissing DEF ReadMissing
    <2>2. phase = "evaluate" /\ phase' = "undefined" /\ UNCHANGED <<program, devices, settings>>
      BY <1>8 DEF ReadMissing, CallDue, Evaluating
    <2>3. Unchecked(program)'
      BY <2>1, <2>2 DEF Unchecked, StopsSilently, Axes, Ids
    <2>4. QED BY <1>1, <2>2, <2>3 DEF ChecksInv, Phases, Ended, Untouched
  <1>9. CASE UNCHANGED vars
    <2>1. Required' = Required
      BY <1>9 DEF vars, Required, Axes
    <2>2. QED BY <1>1, <1>9, <2>1 DEF vars, ChecksInv
  <1>10. QED
    BY <1>2, <1>3, <1>4, <1>5, <1>6, <1>7, <1>8, <1>9 DEF Next

LEMMA PlanStep ==
  ASSUME IInv, [Next]_vars
  PROVE  PlanInv'
  <1>1. PlanInv /\ WellFormed(program) /\ phase \in Phases
    BY LayoutInv DEF IInv, ChecksInv
  <1>2. CASE PlanSweep
    <2>1. phase = "plan" /\ UNCHANGED <<program, coordinates>>
      BY <1>2 DEF PlanSweep, point
    <2>2. CASE plan' = plan
      <3>1. phase' \in {"plan", "rejected"}
        BY <1>2, <2>1 DEF PlanSweep
      <3>2. QED BY <1>1, <2>1, <2>2, <3>1 DEF PlanInv
    <2>3. CASE plan' # plan
      <3> DEFINE new == [dimension |-> program.sweeps[Len(plan) + 1].dimension,
                         bounds |-> PlannedBounds(Len(plan) + 1),
                         count |-> PointCount(PlannedBounds(Len(plan) + 1))]
      <3>1. /\ phase' = "plan" /\ plan' = Append(plan, new)
            /\ Len(plan) + 1 \in DOMAIN program.sweeps
        BY <1>2, <2>1, <2>3 DEF PlanSweep
      <3>2. new.dimension = program.sweeps[Len(plan) + 1].dimension
        OBVIOUS
      <3> HIDE DEF new
      <3>3. /\ IsSeq(plan') /\ Len(plan') = Len(plan) + 1 /\ Len(plan) \in Nat
            /\ \A a \in 1..Len(plan) : plan'[a] = plan[a]
            /\ plan'[Len(plan) + 1] = new
        BY <1>1, <3>1, AppendIsSeq DEF PlanInv, IsSeq
      <3>4. ASSUME NEW a \in 1..Len(plan')
            PROVE  plan'[a].dimension = program.sweeps[a].dimension
        BY <1>1, <3>2, <3>3 DEF PlanInv
      <3>5. Len(plan') <= Len(program.sweeps)
        BY <1>1, <3>1, <3>3 DEF WellFormed
      <3>6. QED BY <1>1, <2>1, <3>1, <3>3, <3>4, <3>5 DEF PlanInv
    <2>4. QED BY <2>2, <2>3
  <1>3. CASE CheckProduct
    BY <1>1, <1>3 DEF CheckProduct, PlanInv, point
  <1>4. CASE StartPoint
    <2>1. /\ phase = "start" /\ UNCHANGED <<program, plan>>
          /\ coordinates' = Decode(Len(samples))
      BY <1>4 DEF StartPoint
    <2>2. DOMAIN plan = 1..Len(plan) /\ Len(plan) \in Nat
      BY <1>1, AppendIsSeq DEF PlanInv, IsSeq
    <2>3. /\ Len(coordinates') = Len(plan)
          /\ \A a \in 1..Len(plan) : coordinates'[a].dimension = plan[a].dimension
      <3>1. \A a \in 1..Len(plan) : coordinates'[a].dimension = plan[a].dimension
        BY <2>1, <2>2 DEF Decode
      <3>2. coordinates' = [a \in 1..Len(plan) |-> coordinates'[a]]
        BY <2>1, <2>2 DEF Decode
      <3>3. QED BY <2>2, <3>1, <3>2, FunctionIsSeq
    <2>4. Len(plan) = Len(program.sweeps)
      BY <1>1, <2>1 DEF PlanInv
    <2>5. QED BY <1>1, <2>1, <2>3, <2>4 DEF PlanInv
  <1>5. CASE \/ RejectInvalid \/ Validate \/ Preflight
             \/ SetControl \/ SetOutputPower \/ Measure \/ Compute
             \/ EquipmentThrows \/ ReadMissing \/ FailPoint \/ FinishPoint \/ Finish
    <2>1. /\ UNCHANGED <<program, plan, coordinates>>
          /\ phase' \in {"preflight", "start", "evaluate"} =>
               phase \in {"preflight", "start", "evaluate"}
          /\ phase' = "evaluate" => phase = "evaluate"
      BY <1>5
         DEF RejectInvalid, Validate, Preflight, SetControl, SetOutputPower, Measure, Compute,
             EquipmentThrows, ReadMissing, FailPoint, FinishPoint, Finish, point, Evaluated,
             Evaluating, CallDue
    <2>2. QED BY <1>1, <2>1 DEF PlanInv
  <1>6. CASE UNCHANGED vars
    BY <1>1, <1>6 DEF vars, PlanInv
  <1>7. QED
    BY <1>2, <1>3, <1>4, <1>5, <1>6 DEF Next

LEMMA PointStep ==
  ASSUME IInv, [Next]_vars
  PROVE  PointInv'
  <1>1. PointInv /\ PlanInv
    BY DEF IInv
  <1>2. CASE StartPoint
    <2>1. /\ coordinates' = Decode(Len(samples)) /\ axis' = 0 /\ powered' = FALSE
          /\ values' = <<>> /\ calls' = <<>> /\ samples' = samples
      BY <1>2 DEF StartPoint, artifacts
    <2>2. DOMAIN plan = 1..Len(plan) /\ Len(plan) \in Nat
      BY <1>1, AppendIsSeq DEF PlanInv, IsSeq
    <2>3. coordinates' = [a \in 1..Len(plan) |-> coordinates'[a]]
      BY <2>1, <2>2 DEF Decode
    <2>4. IsSeq(coordinates') /\ Len(coordinates') \in Nat
      BY <2>2, <2>3, FunctionIsSeq
    <2>5. IsSeq(values') /\ IsSeq(calls')
      BY <2>1, EmptyIsSeq, Zenon
    <2>6. axis' \in 0..Len(coordinates')
      BY <2>1, <2>4
    <2>7. ~powered' /\ powered' \in BOOLEAN
      BY <2>1
    <2>8. values' = <<>> /\ samples' = samples
      BY <2>1
    <2>9. QED BY <1>1, <2>4, <2>5, <2>6, <2>7, <2>8 DEF PointInv
  <1>3. CASE SetControl
    <2>1. /\ axis < Len(coordinates) /\ axis' = axis + 1
          /\ UNCHANGED <<coordinates, powered, values, samples>>
          /\ calls' = Append(calls, IF coordinates[axis + 1].dimension = "frequency"
                                    THEN "setFrequency" ELSE "setTemperature")
      BY <1>3 DEF SetControl, artifacts
    <2>2. IsSeq(calls')
      BY <1>1, <2>1, AppendIsSeq DEF PointInv
    <2>3. QED BY <1>1, <2>1, <2>2 DEF PointInv, IsSeq
  <1>4. CASE SetOutputPower
    <2>1. /\ axis = Len(coordinates) /\ powered' = TRUE
          /\ UNCHANGED <<coordinates, axis, values, samples>>
          /\ calls' = Append(calls, "setOutputPower")
      BY <1>4 DEF SetOutputPower, Evaluating, artifacts
    <2>2. IsSeq(calls')
      BY <1>1, <2>1, AppendIsSeq DEF PointInv
    <2>3. QED BY <1>1, <2>1, <2>2 DEF PointInv, IsSeq
  <1>5. CASE Measure
    <2>1. /\ axis = Len(coordinates) /\ UNCHANGED <<coordinates, axis, powered, samples>>
          /\ values' = Append(values, settings)
          /\ calls' = Append(calls, program.values[Upcoming].op)
      BY <1>5 DEF Measure, Evaluating, artifacts
    <2>2. IsSeq(calls') /\ IsSeq(values')
      BY <1>1, <2>1, AppendIsSeq DEF PointInv
    <2>3. QED BY <1>1, <2>1, <2>2 DEF PointInv, IsSeq
  <1>6. CASE Compute
    <2>1. /\ axis = Len(coordinates)
          /\ UNCHANGED <<coordinates, axis, powered, samples, calls>>
          /\ values' = Append(values, NoReading)
      BY <1>6 DEF Compute, Evaluating, artifacts
    <2>2. IsSeq(values')
      BY <1>1, <2>1, AppendIsSeq DEF PointInv
    <2>3. QED BY <1>1, <2>1, <2>2 DEF PointInv, IsSeq
  <1>7. CASE FinishPoint
    <2>1. UNCHANGED point /\ \E s : samples' = Append(samples, s)
      BY <1>7 DEF FinishPoint, Record
    <2>2. IsSeq(samples')
      BY <1>1, <2>1, AppendIsSeq DEF PointInv
    <2>3. QED BY <1>1, <2>1, <2>2 DEF PointInv, point
  <1>8. CASE \/ RejectInvalid \/ Validate \/ PlanSweep \/ CheckProduct \/ Preflight
             \/ EquipmentThrows \/ ReadMissing \/ FailPoint \/ Finish
    <2>1. UNCHANGED <<point, samples>>
      BY <1>8
         DEF RejectInvalid, Validate, PlanSweep, CheckProduct, Preflight, EquipmentThrows,
             ReadMissing, FailPoint, Finish, artifacts
    <2>2. QED BY <1>1, <2>1 DEF PointInv, point
  <1>9. CASE UNCHANGED vars
    BY <1>1, <1>9 DEF vars, PointInv
  <1>10. QED
    BY <1>2, <1>3, <1>4, <1>5, <1>6, <1>7, <1>8, <1>9 DEF Next

LEMMA CallsStep ==
  ASSUME IInv, [Next]_vars
  PROVE  CallsInv'
  <1>1. program' = program
    BY DEF Next, RejectInvalid, Validate, PlanSweep, CheckProduct, Preflight, StartPoint,
           SetControl, SetOutputPower, Measure, Compute, EquipmentThrows, ReadMissing,
           FailPoint, FinishPoint, Finish, vars
  <1> SUFFICES ASSUME Lowered(program)
               PROVE  CallsInv'
    BY <1>1 DEF CallsInv
  <1>2. /\ PointInv /\ WellFormed(program) /\ Layout(program)
        /\ program.measurements[1].value <= Len(values) => powered
        /\ ~powered => Len(calls) = axis
        /\ powered => \E j \in Nat : Taken(j) /\ Len(calls) = Len(coordinates) + 1 + j
        /\ \A i \in 1..Len(calls) : calls[i] = DocumentedCall(i)
    BY LayoutInv DEF IInv, CallsInv
  <1>3. /\ Len(values) \in Nat /\ Len(calls) \in Nat /\ Len(coordinates) \in Nat
        /\ axis \in 0..Len(coordinates) /\ 1 \in DOMAIN program.measurements
        /\ Len(program.measurements) \in Nat
        /\ DOMAIN program.measurements = 1..Len(program.measurements)
    BY <1>2 DEF PointInv, IsSeq, WellFormed, Layout
  <1>4. CASE StartPoint
    <2>1. /\ powered' = FALSE /\ axis' = 0 /\ values' = <<>> /\ calls' = <<>>
      BY <1>4 DEF StartPoint
    <2>2. Len(values') = 0 /\ Len(calls') = 0
      BY <2>1, EmptyIsSeq, Zenon
    <2>3. ~(program.measurements[1].value <= Len(values'))
      BY <1>2, <1>3, <2>2, SMTT(30) DEF Layout
    <2>4. QED BY <1>1, <2>1, <2>2, <2>3 DEF CallsInv
  <1>5. CASE SetControl
    <2>1. /\ axis < Len(coordinates) /\ axis' = axis + 1 /\ ~powered
          /\ UNCHANGED <<coordinates, powered, values>>
          /\ calls' = Append(calls, IF coordinates[axis + 1].dimension = "frequency"
                                    THEN "setFrequency" ELSE "setTemperature")
      BY <1>2, <1>5 DEF SetControl, PointInv
    <2>2. /\ Len(calls') = Len(calls) + 1
          /\ \A i \in 1..Len(calls) : calls'[i] = calls[i]
          /\ calls'[Len(calls) + 1] = DocumentedCall(axis + 1)
      BY <1>2, <1>3, <2>1, AppendIsSeq DEF PointInv, DocumentedCall
    <2>3. \A i : DocumentedCall(i)' = DocumentedCall(i)
      BY <1>1, <2>1 DEF DocumentedCall
    <2>4. \A i \in 1..Len(calls') : calls'[i] = DocumentedCall(i)'
      BY <1>2, <1>3, <2>1, <2>2, <2>3
    <2>5. QED BY <1>1, <1>2, <1>3, <2>1, <2>2, <2>4 DEF CallsInv
  <1>6. CASE SetOutputPower
    <2>1. /\ axis = Len(coordinates) /\ PowerDue /\ ~powered /\ powered' = TRUE
          /\ UNCHANGED <<coordinates, axis, values>>
          /\ calls' = Append(calls, "setOutputPower")
      BY <1>6 DEF SetOutputPower, Evaluating, PowerDue
    <2>2. /\ Len(calls') = Len(coordinates) + 1
          /\ \A i \in 1..Len(calls) : calls'[i] = calls[i]
          /\ calls'[Len(calls) + 1] = DocumentedCall(Len(coordinates) + 1)
      BY <1>2, <1>3, <2>1, AppendIsSeq DEF PointInv, DocumentedCall
    <2>3. \A i : DocumentedCall(i)' = DocumentedCall(i)
      BY <1>1, <2>1 DEF DocumentedCall
    <2>4. \A i \in 1..Len(calls') : calls'[i] = DocumentedCall(i)'
      BY <1>2, <1>3, <2>1, <2>2, <2>3
    <2>5. Taken(0)'
      <3>1. ASSUME NEW k \in DOMAIN program.measurements
            PROVE  ~(program.measurements[k].value <= Len(values))
        <4>1. program.measurements[1].value = Len(values) + 1
          BY <2>1 DEF PowerDue, Upcoming
        <4>2. CASE k = 1
          BY <1>3, <4>1, <4>2
        <4>3. CASE k # 1
          <5>1. 1 < k
            BY <1>3, <4>3
          <5>2. /\ program.measurements[1].value < program.measurements[k].value
                /\ program.measurements[k].value \in Int
            BY <1>2, <1>3, <5>1, SMTT(30) DEF Layout
          <5>3. QED BY <1>3, <4>1, <5>2
        <4>4. QED BY <4>2, <4>3
      <3>2. QED BY <1>1, <1>3, <2>1, <3>1 DEF Taken
    <2>6. QED BY <1>1, <1>3, <2>1, <2>2, <2>4, <2>5 DEF CallsInv
  <1>7. CASE Measure
    <2>1. /\ axis = Len(coordinates) /\ ~PowerDue /\ IsMeasure(program.values[Upcoming])
          /\ Upcoming \in 1..Len(program.values)
          /\ UNCHANGED <<coordinates, axis, powered>>
          /\ values' = Append(values, settings)
          /\ calls' = Append(calls, program.values[Upcoming].op)
      BY <1>7 DEF Measure, Evaluating, CallDue, Ids
    <2>2. PICK k \in DOMAIN program.measurements : program.measurements[k].value = Upcoming
      BY <1>2, <2>1 DEF Layout
    <2>3. /\ Len(values') = Len(values) + 1 /\ Len(calls') = Len(calls) + 1
          /\ \A i \in 1..Len(calls) : calls'[i] = calls[i]
          /\ calls'[Len(calls) + 1] = program.measurements[k].op
      BY <1>2, <2>1, <2>2, AppendIsSeq, SMTT(30) DEF PointInv, Layout
    <2>4. powered
      <3>1. CASE k = 1
        BY <2>1, <2>2, <3>1 DEF PowerDue
      <3>2. CASE k # 1
        <4>1. 1 < k
          BY <1>3, <3>2
        <4>2. /\ program.measurements[1].value < Upcoming
              /\ program.measurements[1].value \in Int
          BY <1>2, <1>3, <2>2, <4>1, SMTT(30) DEF Layout
        <4>3. QED BY <1>2, <1>3, <4>2 DEF Upcoming
      <3>3. QED BY <3>1, <3>2
    <2>5. PICK j \in Nat : Taken(j) /\ Len(calls) = Len(coordinates) + 1 + j
      BY <1>2, <2>4
    <2>6. k = j + 1
      <3>1. program.measurements[k].value = Len(values) + 1
        BY <2>2 DEF Upcoming
      <3>2. k > j
        BY <1>3, <2>5, <3>1 DEF Taken
      <3>3. CASE k > j + 1
        <4>1. j + 1 \in DOMAIN program.measurements
          BY <1>3, <2>5, <3>3
        <4>2. /\ program.measurements[j + 1].value < program.measurements[k].value
              /\ program.measurements[j + 1].value \in Int
          BY <1>2, <3>3, <4>1 DEF Layout
        <4>3. program.measurements[j + 1].value <= Len(values)
          BY <1>3, <3>1, <4>2
        <4>4. j + 1 <= j
          BY <2>5, <4>1, <4>3 DEF Taken
        <4>5. QED BY <2>5, <4>4
      <3>4. QED BY <1>3, <2>5, <3>2, <3>3
    <2>7. Taken(j + 1)'
      <3>1. ASSUME NEW i \in DOMAIN program.measurements
            PROVE  i <= j + 1 <=> program.measurements[i].value <= Len(values) + 1
        <4>1. /\ program.measurements[i].value \in Int
              /\ program.measurements[k].value = Len(values) + 1
              /\ k < i => program.measurements[k].value < program.measurements[i].value
              /\ i <= j <=> program.measurements[i].value <= Len(values)
          BY <1>2, <2>2, <2>5 DEF Layout, Upcoming, Taken
        <4>2. QED BY <1>3, <2>5, <2>6, <4>1
      <3>2. QED BY <1>1, <1>3, <2>3, <2>5, <2>6, <3>1 DEF Taken
    <2>8. \A i : DocumentedCall(i)' = DocumentedCall(i)
      BY <1>1, <2>1 DEF DocumentedCall
    <2>9. DocumentedCall(Len(calls) + 1) = program.measurements[k].op
      BY <1>3, <2>5, <2>6 DEF DocumentedCall
    <2>10. \A i \in 1..Len(calls') : calls'[i] = DocumentedCall(i)'
      BY <1>2, <1>3, <2>3, <2>8, <2>9
    <2>11. QED BY <1>1, <1>3, <2>1, <2>3, <2>4, <2>5, <2>7, <2>10, SMTT(30) DEF CallsInv
  <1>8. CASE Compute
    <2>1. /\ axis = Len(coordinates) /\ ~PowerDue /\ ~IsMeasure(program.values[Upcoming])
          /\ UNCHANGED <<coordinates, axis, powered, calls>>
          /\ values' = Append(values, NoReading)
      BY <1>8 DEF Compute, Evaluating, CallDue
    <2>2. Len(values') = Len(values) + 1
      BY <1>2, <2>1, AppendIsSeq DEF PointInv
    <2>3. ASSUME NEW k \in DOMAIN program.measurements
          PROVE  program.measurements[k].value <= Len(values')
                   <=> program.measurements[k].value <= Len(values)
      <3>1. /\ program.measurements[k].value \in Int
            /\ IsMeasure(program.values[program.measurements[k].value])
        <4>1. /\ program.measurements[k].value \in 1..Len(program.values)
              /\ program.values[program.measurements[k].value].op =
                   program.measurements[k].op
          BY <1>2 DEF Layout
        <4>2. program.measurements[k].op \in MeasureOps
          BY <1>2 DEF WellFormed
        <4>3. QED BY <4>1, <4>2 DEF IsMeasure
      <3>2. program.measurements[k].value # Len(values) + 1
        <4>1. ~IsMeasure(program.values[Len(values) + 1])
          BY <2>1 DEF Upcoming
        <4>2. QED BY <3>1, <4>1
      <3>3. QED BY <1>3, <2>2, <3>1, <3>2
    <2>4. \A j : Taken(j)' = Taken(j)
      BY <1>1, <2>3 DEF Taken
    <2>5. \A i : DocumentedCall(i)' = DocumentedCall(i)
      BY <1>1, <2>1 DEF DocumentedCall
    <2>6. QED BY <1>1, <1>2, <1>3, <2>1, <2>3, <2>4, <2>5 DEF CallsInv
  <1>9. CASE \/ RejectInvalid \/ Validate \/ PlanSweep \/ CheckProduct \/ Preflight
             \/ EquipmentThrows \/ ReadMissing \/ FailPoint \/ FinishPoint \/ Finish
             \/ UNCHANGED vars
    <2>1. UNCHANGED <<coordinates, axis, powered, values, calls>>
      BY <1>9
         DEF RejectInvalid, Validate, PlanSweep, CheckProduct, Preflight, EquipmentThrows,
             ReadMissing, FailPoint, FinishPoint, Finish, point, vars
    <2>2. \A j : Taken(j)' = Taken(j)
      BY <1>1, <2>1 DEF Taken
    <2>3. \A i : DocumentedCall(i)' = DocumentedCall(i)
      BY <1>1, <2>1 DEF DocumentedCall
    <2>4. QED BY <1>1, <1>2, <2>1, <2>2, <2>3 DEF CallsInv
  <1>10. QED
    BY <1>4, <1>5, <1>6, <1>7, <1>8, <1>9 DEF Next

LEMMA SettingsStep ==
  ASSUME IInv, [Next]_vars
  PROVE  SettingsInv'
  <1>1. program' = program
    BY DEF Next, RejectInvalid, Validate, PlanSweep, CheckProduct, Preflight, StartPoint,
           SetControl, SetOutputPower, Measure, Compute, EquipmentThrows, ReadMissing,
           FailPoint, FinishPoint, Finish, vars
  <1> SUFFICES ASSUME Lowered(program)
               PROVE  SettingsInv'
    BY <1>1 DEF SettingsInv
  <1>2. /\ PointInv /\ PlanInv /\ WellFormed(program) /\ Layout(program)
        /\ DOMAIN settings = DOMAIN NoReading
        /\ program.measurements[1].value <= Len(values) => powered
        /\ phase = "evaluate" =>
             /\ \A a \in 1..axis : settings[coordinates[a].dimension] = coordinates[a].value
             /\ powered => settings.power = "reference"
        /\ \A k \in DOMAIN program.measurements :
             program.measurements[k].value <= Len(values) =>
               Configured(values[program.measurements[k].value], coordinates)
    BY LayoutInv DEF IInv, ChecksInv, CallsInv, SettingsInv
  <1>3. /\ Len(values) \in Nat /\ Len(coordinates) \in Nat /\ axis \in 0..Len(coordinates)
        /\ DOMAIN coordinates = 1..Len(coordinates)
        /\ DOMAIN program.measurements = 1..Len(program.measurements)
        /\ Len(program.measurements) \in Nat /\ 1 \in DOMAIN program.measurements
    <2>1. Len(coordinates) \in Nat /\ DOMAIN coordinates = 1..Len(coordinates)
      BY <1>2, AppendIsSeq DEF PointInv, IsSeq
    <2>2. QED BY <1>2, <2>1 DEF PointInv, IsSeq, WellFormed, Layout
  <1>4. \A k \in DOMAIN program.measurements :
          program.measurements[k].value \in Int /\ program.measurements[k].value > 0
    BY <1>2, <1>3 DEF Layout
  <1>5. CASE StartPoint
    <2>1. axis' = 0 /\ ~powered' /\ values' = <<>>
      BY <1>5 DEF StartPoint
    <2>2. Len(values') = 0
      BY <2>1, EmptyIsSeq, Zenon
    <2>3. \A k \in DOMAIN program.measurements :
            ~(program.measurements[k].value <= Len(values'))
      BY <1>4, <2>2
    <2>4. QED BY <1>1, <2>1, <2>3 DEF SettingsInv
  <1>6. CASE SetControl
    <2> DEFINE c == coordinates[axis + 1]
    <2>1. /\ phase = "evaluate" /\ axis < Len(coordinates) /\ axis' = axis + 1 /\ ~powered
          /\ settings' = [settings EXCEPT ![c.dimension] = c.value]
          /\ UNCHANGED <<phase, coordinates, powered, values>>
      BY <1>2, <1>6 DEF SetControl, PointInv
    <2>2. /\ Len(coordinates) = Len(program.sweeps)
          /\ \A a \in 1..Len(coordinates) :
               /\ a \in DOMAIN program.sweeps
               /\ coordinates[a].dimension = program.sweeps[a].dimension
               /\ coordinates[a].dimension \in Dimensions
      BY <1>2, <2>1 DEF PlanInv, WellFormed
    <2>3. ASSUME NEW a \in 1..axis'
          PROVE  settings'[coordinates[a].dimension] = coordinates[a].value
      <3>1. axis + 1 \in 1..Len(coordinates) /\ a \in 1..Len(coordinates)
        BY <1>3, <2>1
      <3>2. coordinates[a].dimension \in DOMAIN settings
        BY <1>2, <2>2, <3>1 DEF NoReading, Dimensions
      <3>3. CASE a = axis + 1
        BY <2>1, <3>2, <3>3
      <3>4. CASE a # axis + 1
        <4>1. a \in 1..axis
          BY <1>3, <2>1, <3>4
        <4>2. coordinates[a].dimension # c.dimension
          BY <1>2, <2>2, <3>1, <3>4 DEF Layout
        <4>3. settings'[coordinates[a].dimension] = settings[coordinates[a].dimension]
          BY <2>1, <3>2, <4>2
        <4>4. QED BY <1>2, <2>1, <4>1, <4>3
      <3>5. QED BY <3>3, <3>4
    <2>4. \A k \in DOMAIN program.measurements :
            program.measurements[k].value <= Len(values') =>
              Configured(values'[program.measurements[k].value], coordinates')
      BY <1>2, <2>1 DEF Configured
    <2>5. QED BY <1>1, <2>1, <2>3, <2>4 DEF SettingsInv
  <1>7. CASE SetOutputPower
    <2>1. /\ phase = "evaluate" /\ axis = Len(coordinates)
          /\ settings' = [settings EXCEPT !.power = "reference"]
          /\ UNCHANGED <<phase, coordinates, axis, values>>
      BY <1>7 DEF SetOutputPower, Evaluating
    <2>2. settings'.power = "reference"
      BY <1>2, <2>1 DEF NoReading
    <2>3. ASSUME NEW a \in 1..axis
          PROVE  settings'[coordinates[a].dimension] = coordinates[a].value
      <3>1. coordinates[a].dimension \in Dimensions
        BY <1>2, <1>3, <2>1 DEF PlanInv, WellFormed
      <3>2. coordinates[a].dimension \in DOMAIN settings /\ coordinates[a].dimension # "power"
        BY <1>2, <3>1 DEF NoReading, Dimensions
      <3>3. QED BY <1>2, <2>1, <3>2
    <2>4. \A k \in DOMAIN program.measurements :
            program.measurements[k].value <= Len(values') =>
              Configured(values'[program.measurements[k].value], coordinates')
      BY <1>2, <2>1 DEF Configured
    <2>5. QED BY <1>1, <2>1, <2>2, <2>3, <2>4 DEF SettingsInv
  <1>8. CASE Measure
    <2>1. /\ phase = "evaluate" /\ axis = Len(coordinates) /\ ~PowerDue
          /\ UNCHANGED <<phase, settings, coordinates, axis, powered>>
          /\ values' = Append(values, settings)
      BY <1>8 DEF Measure, Evaluating
    <2>2. /\ Len(values') = Len(values) + 1
          /\ \A i \in 1..Len(values) : values'[i] = values[i]
          /\ values'[Len(values) + 1] = settings
      BY <1>2, <2>1, AppendIsSeq DEF PointInv
    <2>3. ASSUME NEW k \in DOMAIN program.measurements,
                 program.measurements[k].value <= Len(values')
          PROVE  Configured(values'[program.measurements[k].value], coordinates')
      <3>1. CASE program.measurements[k].value <= Len(values)
        BY <1>2, <1>3, <1>4, <2>1, <2>2, <3>1 DEF Configured
      <3>2. CASE ~(program.measurements[k].value <= Len(values))
        <4>1. program.measurements[k].value = Len(values) + 1
          BY <1>3, <1>4, <2>2, <2>3, <3>2
        <4>2. powered
          <5>1. CASE k = 1
            BY <2>1, <4>1, <5>1 DEF PowerDue, Upcoming
          <5>2. CASE k # 1
            <6>1. 1 < k
              BY <1>3, <5>2
            <6>2. program.measurements[1].value < program.measurements[k].value
              BY <1>2, <1>3, <6>1 DEF Layout
            <6>3. QED BY <1>2, <1>3, <1>4, <4>1, <6>2
          <5>3. QED BY <5>1, <5>2
        <4>3. Configured(settings, coordinates)
          BY <1>2, <1>3, <2>1, <4>2 DEF Configured
        <4>4. QED BY <2>1, <2>2, <4>1, <4>3 DEF Configured
      <3>3. QED BY <3>1, <3>2
    <2>4. QED BY <1>1, <1>2, <2>1, <2>3 DEF SettingsInv
  <1>9. CASE Compute
    <2>1. /\ phase = "evaluate" /\ axis = Len(coordinates)
          /\ ~IsMeasure(program.values[Upcoming])
          /\ UNCHANGED <<phase, settings, coordinates, axis, powered>>
          /\ values' = Append(values, NoReading)
      BY <1>9 DEF Compute, Evaluating, CallDue
    <2>2. /\ Len(values') = Len(values) + 1
          /\ \A i \in 1..Len(values) : values'[i] = values[i]
      BY <1>2, <2>1, AppendIsSeq DEF PointInv
    <2>3. ASSUME NEW k \in DOMAIN program.measurements,
                 program.measurements[k].value <= Len(values')
          PROVE  Configured(values'[program.measurements[k].value], coordinates')
      <3>1. IsMeasure(program.values[program.measurements[k].value])
        BY <1>2 DEF Layout, WellFormed, IsMeasure
      <3>2. program.measurements[k].value \in 1..Len(values)
        BY <1>3, <1>4, <2>1, <2>2, <2>3, <3>1 DEF Upcoming
      <3>3. QED BY <1>2, <1>3, <2>1, <2>2, <3>2 DEF Configured
    <2>4. QED BY <1>1, <1>2, <2>1, <2>3 DEF SettingsInv
  <1>10. CASE \/ RejectInvalid \/ Validate \/ PlanSweep \/ CheckProduct \/ Preflight
              \/ EquipmentThrows \/ ReadMissing \/ FailPoint \/ FinishPoint \/ Finish
              \/ UNCHANGED vars
    <2>1. /\ UNCHANGED <<coordinates, axis, powered, values>>
          /\ phase' = "evaluate" => phase = "evaluate" /\ settings' = settings
      BY <1>10
         DEF RejectInvalid, Validate, PlanSweep, CheckProduct, Preflight, EquipmentThrows,
             ReadMissing, FailPoint, FinishPoint, Finish, point, vars
    <2>2. \A r : Configured(r, coordinates') = Configured(r, coordinates)
      BY <2>1
    <2>3. \A k \in DOMAIN program.measurements :
            program.measurements[k].value <= Len(values') =>
              Configured(values'[program.measurements[k].value], coordinates')
      BY <1>2, <2>1
    <2>4. QED BY <1>1, <1>2, <2>1, <2>3 DEF SettingsInv
  <1>11. QED
    BY <1>5, <1>6, <1>7, <1>8, <1>9, <1>10 DEF Next

LEMMA MeasuredStep ==
  ASSUME IInv, [Next]_vars
  PROVE  MeasuredAsConfigured'
  <1>1. program' = program
    BY DEF Next, RejectInvalid, Validate, PlanSweep, CheckProduct, Preflight, StartPoint,
           SetControl, SetOutputPower, Measure, Compute, EquipmentThrows, ReadMissing,
           FailPoint, FinishPoint, Finish, vars
  <1>2. CASE FinishPoint
    <2> SUFFICES ASSUME Lowered(program)
                 PROVE  MeasuredAsConfigured'
      BY <1>1 DEF MeasuredAsConfigured
    <2>1. /\ PointInv /\ Layout(program) /\ MeasuredAsConfigured
          /\ \A k \in DOMAIN program.measurements :
               program.measurements[k].value <= Len(values) =>
                 Configured(values[program.measurements[k].value], coordinates)
      BY LayoutInv DEF IInv, SettingsInv
    <2>2. Len(values) = Len(program.values) /\ Len(values) \in Nat
      BY <1>2, <2>1 DEF FinishPoint, Evaluated, PointInv, IsSeq
    <2>3. PICK outcomes \in [DOMAIN program.assertions -> BOOLEAN] : Record(outcomes)
      BY <1>2 DEF FinishPoint
    <2> DEFINE sample == [point |-> coordinates,
                          observations |-> [k \in DOMAIN program.measurements |->
                                              values[program.measurements[k].value]],
                          measured |-> values[program.measurement],
                          outcomes |-> outcomes, status |-> Status(outcomes)]
    <2>4. samples' = Append(samples, sample)
      BY <2>3 DEF Record
    <2>5. \A k \in DOMAIN program.measurements :
            Configured(sample.observations[k], sample.point)
      BY <2>1, <2>2 DEF Layout
    <2>6. Configured(sample.measured, sample.point)
      <3>1. PICK k \in DOMAIN program.measurements :
              program.measurements[k].value = program.measurement
        BY <2>1 DEF Layout
      <3>2. QED BY <2>1, <2>2, <3>1 DEF Layout
    <2> HIDE DEF sample
    <2>7. /\ DOMAIN samples = 1..Len(samples) /\ Len(samples) \in Nat
          /\ DOMAIN samples' = 1..(Len(samples) + 1)
          /\ \A i \in 1..Len(samples) : samples'[i] = samples[i]
          /\ samples'[Len(samples) + 1] = sample
      BY <2>1, <2>4, AppendIsSeq DEF PointInv, IsSeq
    <2>8. ASSUME NEW i \in DOMAIN samples',
                 NEW r \in {samples'[i].observations[k] : k \in DOMAIN program.measurements}
                           \cup {samples'[i].measured}
          PROVE  Configured(r, samples'[i].point)
      <3>1. CASE i \in DOMAIN samples
        BY <2>1, <2>7, <2>8, <3>1 DEF MeasuredAsConfigured, Configured
      <3>2. CASE i \notin DOMAIN samples
        <4>1. samples'[i] = sample
          BY <2>7, <3>2
        <4>2. QED BY <2>5, <2>6, <2>8, <4>1
      <3>3. QED BY <3>1, <3>2
    <2>9. QED BY <1>1, <2>8 DEF MeasuredAsConfigured, Configured
  <1>3. CASE ~FinishPoint
    <2>1. samples' = samples
      BY <1>3
         DEF Next, RejectInvalid, Validate, PlanSweep, CheckProduct, Preflight, StartPoint,
             SetControl, SetOutputPower, Measure, Compute, EquipmentThrows, ReadMissing,
             FailPoint, Finish, vars, artifacts
    <2>2. MeasuredAsConfigured
      BY DEF IInv
    <2>3. QED BY <1>1, <2>1, <2>2 DEF MeasuredAsConfigured
  <1>4. QED BY <1>2, <1>3

LEMMA StepKeepsInv ==
  ASSUME IInv, [Next]_vars
  PROVE  IInv'
  <1>1. ChecksInv' /\ PlanInv' /\ PointInv'
    BY ChecksStep, PlanStep, PointStep
  <1>2. CallsInv' /\ SettingsInv' /\ MeasuredAsConfigured'
    BY CallsStep, SettingsStep, MeasuredStep
  <1>3. QED BY <1>1, <1>2 DEF IInv

\* The invariant of the points under way is kept by every step.
THEOREM Invariance == Spec => []IInv
  <1>1. QED BY InitInv, StepKeepsInv, PTL DEF Spec

\* Of a program laid out as lowering does nothing is left unchecked.
LEMMA LoweredIsChecked ==
  ASSUME ChecksInv, Lowered(program)
  PROVE  ~Unchecked(program)
  <1>1. WellFormed(program) /\ Layout(program)
    BY LayoutInv
  <1>2. 1 \in DOMAIN program.measurements
    BY <1>1 DEF Layout, WellFormed, IsSeq
  <1>3. program.reference \in Int /\ program.measurements[1].value \in Int
        /\ program.reference < program.measurements[1].value
    BY <1>1, <1>2 DEF Layout
  <1>4. QED BY <1>1, <1>3 DEF Lowered, Unchecked, Layout, Ids

LEMMA PreflightIsEnough == IInv => PreflightSuffices
  BY LoweredIsChecked DEF IInv, ChecksInv, Untouched, PreflightSuffices

\* Whatever program and devices: nothing is touched before every check has
\* passed, and only a program that the checks leave something out of, as they do
\* of none that lowering makes, can read what is not there.
THEOREM ChecksPrecedeEquipment == Spec => []PreflightSuffices
  <1>1. QED BY PreflightIsEnough, Invariance, PTL

\* Whatever the equipment kept from earlier points, each reading of a sample was
\* taken at the sample's coordinates and the reference power.
THEOREM ReadingsBelongToTheirPoint == Spec => []MeasuredAsConfigured
  <1>1. IInv => MeasuredAsConfigured
    BY DEF IInv
  <1>2. QED BY <1>1, Invariance, PTL

LEMMA CallsFollowTheOrder == IInv => DocumentedOrder
  <1> SUFFICES ASSUME IInv, Lowered(program)
               PROVE  /\ Len(calls) <= Len(DocumentedCalls)
                      /\ calls = SubSeq(DocumentedCalls, 1, Len(calls))
                      /\ Evaluated => calls = DocumentedCalls
    BY DEF DocumentedOrder
  <1> DEFINE n == Len(coordinates)
             m == Len(program.measurements)
             controls == [a \in DOMAIN coordinates |->
                            IF coordinates[a].dimension = "frequency"
                            THEN "setFrequency" ELSE "setTemperature"]
             readings == [k \in DOMAIN program.measurements |-> program.measurements[k].op]
  <1>1. /\ PointInv /\ WellFormed(program) /\ Layout(program)
        /\ program.measurements[1].value <= Len(values) => powered
        /\ ~powered => Len(calls) = axis
        /\ powered => \E j \in Nat : Taken(j) /\ Len(calls) = Len(coordinates) + 1 + j
        /\ \A i \in 1..Len(calls) : calls[i] = DocumentedCall(i)
    BY LayoutInv DEF IInv, CallsInv
  <1>2. /\ n \in Nat /\ DOMAIN coordinates = 1..n /\ m \in Nat /\ m > 0
        /\ DOMAIN program.measurements = 1..m
        /\ Len(calls) \in Nat /\ axis \in 0..n
    <2>1. Len(coordinates) \in Nat /\ DOMAIN coordinates = 1..Len(coordinates)
      BY <1>1, AppendIsSeq DEF PointInv, IsSeq
    <2>2. QED BY <1>1, <2>1 DEF PointInv, IsSeq, WellFormed, Layout
  <1>3. /\ Len(DocumentedCalls) = n + 1 + m /\ IsSeq(DocumentedCalls)
        /\ \A i \in 1..(n + 1 + m) : DocumentedCalls[i] = DocumentedCall(i)
    <2>1. controls \in Seq({"setFrequency", "setTemperature"}) /\ Len(controls) = n
      BY <1>2
    <2>2. readings \in Seq(MeasureOps) /\ Len(readings) = m
      BY <1>1, <1>2 DEF WellFormed
    <2>3. DocumentedCalls = controls \o <<"setOutputPower">> \o readings
      BY DEF DocumentedCalls
    <2>4. /\ \A i \in 1..n : controls[i] = DocumentedCall(i)
          /\ \A k \in 1..m : readings[k] = DocumentedCall(n + 1 + k)
          /\ "setOutputPower" = DocumentedCall(n + 1)
      BY <1>2 DEF DocumentedCall
    <2> HIDE DEF controls, readings, n, m
    <2>5. /\ controls \in Seq(Calls) /\ readings \in Seq(Calls)
          /\ <<"setOutputPower">> \in Seq(Calls)
      BY <2>1, <2>2 DEF Calls
    <2>6. /\ DocumentedCalls \in Seq(Calls) /\ Len(DocumentedCalls) = n + 1 + m
          /\ \A i \in 1..n : DocumentedCalls[i] = controls[i]
          /\ DocumentedCalls[n + 1] = "setOutputPower"
          /\ \A k \in 1..m : DocumentedCalls[n + 1 + k] = readings[k]
      <3>1. "setOutputPower" \in Calls
        BY DEF Calls
      <3>2. /\ DocumentedCalls \in Seq(Calls)
            /\ Len(DocumentedCalls) = Len(controls) + 1 + Len(readings)
            /\ \A i \in 1..Len(controls) : DocumentedCalls[i] = controls[i]
            /\ DocumentedCalls[Len(controls) + 1] = "setOutputPower"
            /\ \A k \in 1..Len(readings) :
                 DocumentedCalls[Len(controls) + 1 + k] = readings[k]
        BY <2>3, <2>5, <3>1, JoinedAt
      <3>3. QED BY <2>1, <2>2, <3>2
    <2>7. ASSUME NEW i \in 1..(n + 1 + m)
          PROVE  DocumentedCalls[i] = DocumentedCall(i)
      <3>1. CASE i <= n
        <4>1. i \in 1..n
          BY <1>2, <3>1
        <4>2. QED BY <2>4, <2>6, <4>1
      <3>2. CASE i = n + 1
        BY <2>4, <2>6, <3>2
      <3>3. CASE i > n + 1
        <4> DEFINE k == i - n - 1
        <4>1. k \in 1..m /\ n + 1 + k = i
          BY <1>2, <3>3
        <4> HIDE DEF k
        <4>2. QED BY <2>4, <2>6, <4>1
      <3>4. QED BY <1>2, <3>1, <3>2, <3>3
    <2>8. IsSeq(DocumentedCalls)
      BY <2>6, SeqIsSeq
    <2>9. QED BY <2>6, <2>7, <2>8
  <1>4. Len(calls) <= n + 1 + m
    <2>1. CASE powered
      <3>1. PICK j \in Nat : Taken(j) /\ Len(calls) = n + 1 + j
        BY <1>1, <2>1
      <3>2. j \in 0..m
        BY <3>1 DEF Taken
      <3> HIDE DEF n, m
      <3>3. QED BY <1>2, <3>1, <3>2
    <2>2. CASE ~powered
      <3>1. Len(calls) = axis
        BY <1>1, <2>2
      <3> HIDE DEF n, m
      <3>2. QED BY <1>2, <3>1
    <2>3. QED BY <2>1, <2>2
  <1>5. calls = SubSeq(DocumentedCalls, 1, Len(calls))
    <2>1. SubSeq(DocumentedCalls, 1, Len(calls)) =
            [i \in 1..Len(calls) |-> DocumentedCalls[i]]
      BY <1>2, <1>3, <1>4 DEF IsSeq
    <2>2. calls = [i \in 1..Len(calls) |-> calls[i]]
      BY <1>1 DEF PointInv, IsSeq
    <2>3. ASSUME NEW i \in 1..Len(calls)
          PROVE  calls[i] = DocumentedCalls[i]
      <3>1. i \in 1..(n + 1 + m)
        <4> HIDE DEF n, m
        <4>1. QED BY <1>2, <1>4
      <3>2. QED BY <1>1, <1>3, <3>1
    <2>4. QED BY <2>1, <2>2, <2>3
  <1>6. ASSUME Evaluated PROVE calls = DocumentedCalls
    <2>1. \A k \in 1..m : program.measurements[k].value <= Len(values)
      BY <1>1, <1>2, <1>6 DEF Evaluated, Layout
    <2>2. PICK j \in Nat : Taken(j) /\ Len(calls) = n + 1 + j
      BY <1>1, <1>2, <2>1
    <2>3. m <= j
      <3>1. m \in DOMAIN program.measurements /\ m \in 1..m
        BY <1>2
      <3>2. program.measurements[m].value <= Len(values)
        BY <2>1, <3>1
      <3>3. QED BY <2>2, <3>1, <3>2 DEF Taken
    <2>4. Len(calls) = n + 1 + m
      <3>1. j \in 0..m
        BY <2>2 DEF Taken
      <3>2. j = m
        BY <1>2, <2>3, <3>1
      <3>3. QED BY <2>2, <3>2
    <2>5. /\ calls = [i \in 1..(n + 1 + m) |-> calls[i]]
          /\ DocumentedCalls = [i \in 1..(n + 1 + m) |-> DocumentedCalls[i]]
      BY <1>1, <1>3, <2>4 DEF PointInv, IsSeq
    <2>6. QED BY <1>1, <1>3, <2>4, <2>5
  <1>7. QED BY <1>3, <1>4, <1>5, <1>6

\* At every point the calls made are the documented ones, in their order.
THEOREM CallsAreDocumented == Spec => []DocumentedOrder
  <1>1. QED BY CallsFollowTheOrder, Invariance, PTL

-----------------------------------------------------------------------------
(* The plan: its counts are those of its bounds, and their product is the  *)
(* number of points.                                                       *)

CountsOf(axes) == [a \in DOMAIN axes |-> axes[a].count]

LEMMA CountsAre ==
  ASSUME NEW axes, IsSeq(axes), \A a \in 1..Len(axes) : axes[a].count \in Nat
  PROVE  /\ CountsOf(axes) \in Seq(Nat) /\ Len(CountsOf(axes)) = Len(axes)
         /\ Len(axes) \in Nat /\ DOMAIN axes = 1..Len(axes)
         /\ \A a \in 1..Len(axes) : CountsOf(axes)[a] = axes[a].count
  <1> DEFINE n == Len(axes)
  <1>1. n \in Nat /\ axes = [a \in 1..n |-> axes[a]]
    BY DEF IsSeq
  <1> HIDE DEF n
  <1>2. DOMAIN axes = 1..n
    BY <1>1
  <1>3. CountsOf(axes) \in [1..n -> Nat] /\ \A a \in 1..n : CountsOf(axes)[a] = axes[a].count
    BY <1>2 DEF CountsOf, n
  <1>4. QED BY <1>1, <1>2, <1>3 DEF n

LEMMA SweepsTyped ==
  ASSUME NEW p \in IrPrograms
  PROVE  /\ Len(p.sweeps) \in Nat /\ DOMAIN p.sweeps = 1..Len(p.sweeps)
         /\ \A a \in DOMAIN p.sweeps : /\ p.sweeps[a].bounds \in Bounds
                                       /\ p.sweeps[a].dimension \in Dimensions
                                       /\ p.sweeps[a].pointCount \in Nat
         /\ p.sweep.bounds \in Bounds
  <1> DEFINE Sweep == [value : Nat, dimension : Dimensions, bounds : Bounds, pointCount : Nat]
  <1>1. p.sweeps \in Seq(Sweep) /\ p.sweep \in [frequency : Nat, bounds : Bounds]
    BY DEF IrPrograms
  <1>2. \A a \in DOMAIN p.sweeps : p.sweeps[a] \in Sweep
    <2> HIDE DEF Sweep
    <2>1. QED BY <1>1
  <1>3. Len(p.sweeps) \in Nat /\ DOMAIN p.sweeps = 1..Len(p.sweeps)
    <2> HIDE DEF Sweep
    <2>1. QED BY <1>1
  <1>4. QED BY <1>1, <1>2, <1>3

\* What has been planned, and the points it makes.
ShapeInv ==
  /\ \A a \in 1..Len(plan) :
       /\ plan[a] = [dimension |-> program.sweeps[a].dimension,
                     bounds |-> PlannedBounds(a), count |-> PointCount(PlannedBounds(a))]
       /\ PlannedBounds(a) \in Bounds /\ Planned(PlannedBounds(a))
  /\ pointCount = Product(CountsOf(plan))
  /\ pointCount \in 1..MaxSweepPoints

\* An axis of the plan.
LEMMA PlannedAxis ==
  ASSUME ShapeInv, PlanInv, NEW a \in 1..Len(plan)
  PROVE  /\ plan[a].bounds \in Bounds /\ ValidSweep(plan[a].bounds)
         /\ plan[a].count \in Nat /\ plan[a].count > 0
         /\ LastIndex(plan[a].bounds) = plan[a].count - 1
         /\ plan[a].dimension = program.sweeps[a].dimension
  <1>1. /\ plan[a].bounds \in Bounds /\ Planned(plan[a].bounds)
        /\ plan[a].count = PointCount(plan[a].bounds)
        /\ plan[a].dimension = program.sweeps[a].dimension
    <2> DEFINE b == PlannedBounds(a)
    <2>1. /\ plan[a] = [dimension |-> program.sweeps[a].dimension,
                        bounds |-> b, count |-> PointCount(b)]
          /\ b \in Bounds /\ Planned(b)
      BY DEF ShapeInv
    <2> HIDE DEF b
    <2>2. QED BY <2>1
  <1>2. /\ ValidSweep(plan[a].bounds) /\ LastIndex(plan[a].bounds) \in Nat
        /\ PointCount(plan[a].bounds) = LastIndex(plan[a].bounds) + 1
    BY <1>1, PlannedCount
  <1>3. QED BY <1>1, <1>2

LEMMA PlanCounts ==
  ASSUME ShapeInv, PlanInv
  PROVE  /\ CountsOf(plan) \in Seq(Nat) /\ Len(CountsOf(plan)) = Len(plan)
         /\ Len(plan) \in Nat /\ DOMAIN plan = 1..Len(plan)
         /\ \A a \in 1..Len(plan) : /\ CountsOf(plan)[a] = plan[a].count
                                    /\ CountsOf(plan)[a] \in Nat /\ CountsOf(plan)[a] > 0
  <1>1. \A a \in 1..Len(plan) : plan[a].count \in Nat /\ plan[a].count > 0
    BY PlannedAxis
  <1>2. IsSeq(plan)
    BY DEF PlanInv
  <1>3. QED BY <1>1, <1>2, CountsAre

LEMMA ShapeStep ==
  ASSUME IInv, ShapeInv, [Next]_vars
  PROVE  ShapeInv'
  <1>1. program' = program
    BY DEF Next, RejectInvalid, Validate, PlanSweep, CheckProduct, Preflight, StartPoint,
           SetControl, SetOutputPower, Measure, Compute, EquipmentThrows, ReadMissing,
           FailPoint, FinishPoint, Finish, vars
  <1>2. \A a : PlannedBounds(a)' = PlannedBounds(a)
    BY <1>1 DEF PlannedBounds
  <1>3. CASE UNCHANGED <<plan, pointCount>>
    BY <1>1, <1>2, <1>3 DEF ShapeInv, CountsOf
  <1>4. CASE PlanSweep /\ ~UNCHANGED <<plan, pointCount>>
    <2> DEFINE n == Len(plan)
               bounds == PlannedBounds(n + 1)
               new == [dimension |-> program.sweeps[n + 1].dimension,
                       bounds |-> bounds, count |-> PointCount(bounds)]
    <2>1. /\ n + 1 \in DOMAIN program.sweeps /\ Planned(bounds)
          /\ pointCount * PointCount(bounds) <= MaxSweepPoints
          /\ plan' = Append(plan, new) /\ pointCount' = pointCount * PointCount(bounds)
      BY <1>4 DEF PlanSweep
    <2>2. bounds \in Bounds
      <3>1. program \in IrPrograms
        BY ExecutedTyped DEF IInv, ChecksInv
      <3>2. QED BY <2>1, <3>1, SweepsTyped DEF PlannedBounds
    <2>3. PointCount(bounds) \in Nat /\ PointCount(bounds) > 0
      <3> HIDE DEF bounds
      <3>1. LastIndex(bounds) \in Nat /\ PointCount(bounds) = LastIndex(bounds) + 1
        BY <2>1, <2>2, PlannedCount
      <3>2. QED BY <3>1
    <2>4. new.count = PointCount(bounds)
      OBVIOUS
    <2>5. /\ IsSeq(plan') /\ Len(plan') = n + 1 /\ n \in Nat
          /\ \A a \in 1..n : plan'[a] = plan[a]
          /\ plan'[n + 1] = new
      <3>1. IsSeq(plan) /\ n \in Nat
        BY DEF IInv, PlanInv, IsSeq
      <3> HIDE DEF new
      <3>2. QED BY <2>1, <3>1, AppendIsSeq
    <2>6. /\ CountsOf(plan) \in Seq(Nat) /\ Len(CountsOf(plan)) = n
          /\ \A a \in 1..n : CountsOf(plan)[a] = plan[a].count /\ CountsOf(plan)[a] \in Nat
      BY PlanCounts DEF IInv
    <2> HIDE DEF new, bounds, n
    <2>7. \A a \in 1..(n + 1) : plan'[a].count \in Nat
      BY <2>3, <2>4, <2>5, <2>6
    <2>8. /\ CountsOf(plan') \in Seq(Nat) /\ Len(CountsOf(plan')) = n + 1
          /\ \A a \in 1..(n + 1) : CountsOf(plan')[a] = plan'[a].count
      BY <2>5, <2>7, CountsAre
    <2>9. pointCount' = Product(CountsOf(plan'))
      <3>1. ASSUME NEW a \in 1..n PROVE CountsOf(plan')[a] = CountsOf(plan)[a]
        <4>1. a \in 1..(n + 1) /\ plan'[a] = plan[a]
          BY <2>5
        <4>2. CountsOf(plan')[a] = plan'[a].count
          BY <2>8, <4>1
        <4>3. QED BY <2>6, <4>1, <4>2
      <3>2. Product(CountsOf(plan')) = Product(CountsOf(plan)) * CountsOf(plan')[n + 1]
        BY <2>5, <2>6, <2>8, <3>1, ExtendedProduct
      <3>3. CountsOf(plan')[n + 1] = PointCount(bounds)
        BY <2>4, <2>5, <2>8
      <3>4. pointCount = Product(CountsOf(plan))
        BY DEF ShapeInv
      <3>5. QED BY <2>1, <3>2, <3>3, <3>4
    <2>10. pointCount' \in 1..MaxSweepPoints
      <3>1. pointCount \in Nat /\ pointCount > 0
        BY DEF ShapeInv
      <3>2. \A x, y \in Nat : x > 0 /\ y > 0 => x * y \in Nat /\ x * y > 0
        OBVIOUS
      <3>3. pointCount' \in Nat /\ pointCount' > 0
        BY <2>1, <2>3, <3>1, <3>2
      <3>4. QED BY <2>1, <3>3
    <2>11. ASSUME NEW a \in 1..Len(plan')
           PROVE  /\ plan'[a] = [dimension |-> program.sweeps[a].dimension,
                                 bounds |-> PlannedBounds(a),
                                 count |-> PointCount(PlannedBounds(a))]
                  /\ PlannedBounds(a) \in Bounds /\ Planned(PlannedBounds(a))
      <3>1. CASE a = n + 1
        BY <2>1, <2>2, <2>5, <3>1 DEF new, bounds
      <3>2. CASE a # n + 1
        <4>1. a \in 1..n
          BY <2>5, <3>2
        <4>2. QED BY <2>5, <4>1 DEF ShapeInv, n
      <3>3. QED BY <3>1, <3>2
    <2>12. QED BY <1>1, <1>2, <2>9, <2>10, <2>11 DEF ShapeInv, CountsOf
  <1>5. CASE ~PlanSweep
    <2>1. UNCHANGED <<plan, pointCount>>
      BY <1>5
         DEF Next, RejectInvalid, Validate, CheckProduct, Preflight, StartPoint,
             SetControl, SetOutputPower, Measure, Compute, EquipmentThrows, ReadMissing,
             FailPoint, FinishPoint, Finish, vars
    <2>2. QED BY <1>3, <2>1
  <1>6. QED BY <1>3, <1>4, <1>5

LEMMA ShapeInit == Init => ShapeInv
  <1> SUFFICES ASSUME Init PROVE ShapeInv
    OBVIOUS
  <1>1. plan = <<>> /\ pointCount = 1
    BY DEF Init
  <1>2. IsSeq(plan) /\ Len(plan) = 0
    BY <1>1, EmptyIsSeq
  <1>3. CountsOf(plan) \in Seq(Nat) /\ Len(CountsOf(plan)) = 0
    BY <1>2, CountsAre
  <1>4. Product(CountsOf(plan)) = 1
    BY <1>3, ProductsAre DEF Product
  <1>5. QED BY <1>1, <1>2, <1>4 DEF ShapeInv

-----------------------------------------------------------------------------
(* Programs that compile.                                                  *)

PointCountsOf(p) == [a \in DOMAIN p.sweeps |-> p.sweeps[a].pointCount]

\* What lowering gives planning to work with.
LEMMA CompiledSweeps ==
  ASSUME NEW p \in Compiled
  PROVE  /\ p \in IrPrograms /\ Lowered(p) /\ Accepted(p) /\ p.calibration.named
         /\ \A a \in DOMAIN p.sweeps :
              /\ Planned(p.sweeps[a].bounds)
              /\ p.sweeps[a].pointCount = PointCount(p.sweeps[a].bounds)
              /\ p.sweeps[a].pointCount > 0
              /\ Len(p.sweeps) = 1 => p.sweep.bounds = p.sweeps[a].bounds
         /\ p.totalPointCount = Product(PointCountsOf(p))
         /\ Product(PointCountsOf(p)) <= MaxSweepPoints
  <1>1. PICK script \in Scripts : Analyzed(script) /\ p = Lower(script)
    BY DEF Compiled
  <1> DEFINE n == Len(script.sweeps)
             f == SweptFrequency(script)
  <1>2. p \in IrPrograms /\ Lowered(p)
    BY <1>1, LoweredTyped, LoweringIsAccepted
  <1>3. Accepted(p)
    BY <1>2 DEF Lowered, Accepted
  <1>4. /\ p.sweep.bounds = script.sweeps[f].bounds
        /\ p.sweeps = [a \in 1..n |->
             [value |-> 1 + a, dimension |-> script.sweeps[a].dimension,
              bounds |-> script.sweeps[a].bounds,
              pointCount |-> PointCount(script.sweeps[a].bounds)]]
        /\ p.totalPointCount = Product(PointCounts(script))
        /\ p.calibration.named
    <2> DEFINE q == Lower(script)
    <2>1. /\ q.sweep = [frequency |-> 1 + f, bounds |-> script.sweeps[f].bounds]
          /\ q.sweeps = [a \in 1..n |->
               [value |-> 1 + a, dimension |-> script.sweeps[a].dimension,
                bounds |-> script.sweeps[a].bounds,
                pointCount |-> PointCount(script.sweeps[a].bounds)]]
          /\ q.totalPointCount = Product(PointCounts(script))
          /\ q.calibration =
               [named |-> TRUE, correction |-> CorrectionId(script), type |-> "PowerDelta",
                indexes |-> [a \in 1..n |-> 1 + a],
                indexTypes |-> [a \in 1..n |-> SweepType(script.sweeps[a].dimension)]]
      BY LowerIs
    <2>2. p = q
      BY <1>1
    <2> HIDE DEF q, n, f
    <2>3. QED BY <2>1, <2>2
  <1>5. /\ f \in 1..n
        /\ \A a \in 1..n :
             /\ Planned(script.sweeps[a].bounds)
             /\ PointCounts(script)[a] = PointCount(script.sweeps[a].bounds)
             /\ PointCounts(script)[a] > 0
        /\ Product(PointCounts(script)) <= MaxSweepPoints
    BY <1>1, AnalyzedParts
  <1>6. n \in Nat
    BY <1>1, ScriptParts
  <1> HIDE DEF n, f
  <1>7. DOMAIN p.sweeps = 1..n /\ Len(p.sweeps) = n
    <2>1. p.sweeps = [a \in 1..n |-> p.sweeps[a]]
      BY <1>4
    <2>2. QED BY <1>6, <2>1, FunctionIsSeq
  <1>8. PointCountsOf(p) = PointCounts(script)
    BY <1>4, <1>7 DEF PointCountsOf, PointCounts, n
  <1>9. ASSUME NEW a \in DOMAIN p.sweeps
        PROVE  /\ Planned(p.sweeps[a].bounds)
               /\ p.sweeps[a].pointCount = PointCount(p.sweeps[a].bounds)
               /\ p.sweeps[a].pointCount > 0
               /\ Len(p.sweeps) = 1 => p.sweep.bounds = p.sweeps[a].bounds
    <2>1. a \in 1..n /\ p.sweeps[a].bounds = script.sweeps[a].bounds
          /\ p.sweeps[a].pointCount = PointCount(script.sweeps[a].bounds)
      BY <1>4, <1>7
    <2>2. Len(p.sweeps) = 1 => a = f
      BY <1>5, <1>7, <2>1
    <2>3. QED BY <1>4, <1>5, <2>1, <2>2
  <1>10. QED BY <1>2, <1>3, <1>4, <1>5, <1>8, <1>9

\* The plan follows the counts the analyzer computed.
LEMMA PlanFollows ==
  ASSUME IInv, ShapeInv, program \in Compiled
  PROVE  /\ PointCountsOf(program) \in Seq(Nat)
         /\ Len(PointCountsOf(program)) = Len(program.sweeps)
         /\ Len(plan) \in 0..Len(program.sweeps)
         /\ \A a \in DOMAIN program.sweeps :
              /\ PlannedBounds(a) = program.sweeps[a].bounds
              /\ PointCountsOf(program)[a] = program.sweeps[a].pointCount
              /\ PointCountsOf(program)[a] \in Nat /\ PointCountsOf(program)[a] > 0
         /\ pointCount = Products(PointCountsOf(program))[Len(plan)]
  <1> DEFINE n == Len(program.sweeps)
             all == PointCountsOf(program)
             counts == CountsOf(plan)
  <1>1. /\ program \in IrPrograms
        /\ \A a \in DOMAIN program.sweeps :
             /\ program.sweeps[a].pointCount = PointCount(program.sweeps[a].bounds)
             /\ program.sweeps[a].pointCount > 0
             /\ n = 1 => program.sweep.bounds = program.sweeps[a].bounds
    BY CompiledSweeps
  <1>2. /\ n \in Nat /\ DOMAIN program.sweeps = 1..n
        /\ \A a \in 1..n : program.sweeps[a].pointCount \in Nat
    BY <1>1, SweepsTyped
  <1>3. \A a \in 1..n : PlannedBounds(a) = program.sweeps[a].bounds
    BY <1>1, <1>2 DEF PlannedBounds
  <1>4. all \in [1..n -> Nat] /\ \A a \in 1..n : all[a] = program.sweeps[a].pointCount
    BY <1>2 DEF PointCountsOf
  <1>5. /\ counts \in Seq(Nat) /\ Len(counts) = Len(plan) /\ Len(plan) \in Nat
        /\ \A a \in 1..Len(plan) : counts[a] = plan[a].count
    BY PlanCounts DEF IInv
  <1>6. Len(plan) <= n
    BY DEF IInv, PlanInv
  <1> HIDE DEF n, all, counts
  <1>7. all \in Seq(Nat) /\ Len(all) = n
    BY <1>2, <1>4
  <1>8. ASSUME NEW a \in 1..Len(plan) PROVE all[a] = counts[a]
    <2> DEFINE b == PlannedBounds(a)
    <2>1. a \in 1..n
      BY <1>2, <1>5, <1>6
    <2>2. plan[a] = [dimension |-> program.sweeps[a].dimension,
                     bounds |-> b, count |-> PointCount(b)]
      BY DEF ShapeInv
    <2>3. b = program.sweeps[a].bounds
      BY <1>3, <2>1
    <2> HIDE DEF b
    <2>4. QED BY <1>1, <1>2, <1>4, <1>5, <2>1, <2>2, <2>3, SMTT(60)
  <1>9. pointCount = Products(all)[Len(plan)]
    <2>1. pointCount = Products(counts)[Len(counts)]
      BY DEF ShapeInv, Product, counts
    <2>2. Len(counts) \in 0..Len(counts) /\ Len(counts) <= Len(all)
      BY <1>2, <1>5, <1>6, <1>7
    <2>3. Products(all)[Len(counts)] = Products(counts)[Len(counts)]
      BY <1>5, <1>7, <1>8, <2>2, PrefixProducts
    <2>4. QED BY <1>5, <2>1, <2>3
  <1>10. QED
    BY <1>1, <1>2, <1>3, <1>4, <1>5, <1>6, <1>7, <1>9 DEF n, all

\* Planning a compiled program does not stop it.
LEMMA PlanningSucceeds ==
  ASSUME IInv, ShapeInv, program \in Compiled, PlanSweep \/ CheckProduct
  PROVE  phase' # "rejected"
  <1> DEFINE n == Len(program.sweeps)
             all == PointCountsOf(program)
  <1>1. /\ \A a \in DOMAIN program.sweeps :
             /\ Planned(program.sweeps[a].bounds)
             /\ program.sweeps[a].pointCount = PointCount(program.sweeps[a].bounds)
        /\ program.totalPointCount = Product(all)
        /\ Product(all) <= MaxSweepPoints
        /\ n \in Nat /\ DOMAIN program.sweeps = 1..n
    BY CompiledSweeps, SweepsTyped
  <1>2. /\ all \in Seq(Nat) /\ Len(all) = n /\ Len(plan) \in 0..n
        /\ \A a \in 1..n : /\ PlannedBounds(a) = program.sweeps[a].bounds
                           /\ all[a] = program.sweeps[a].pointCount
                           /\ all[a] > 0
        /\ pointCount = Products(all)[Len(plan)]
    BY <1>1, PlanFollows
  <1> HIDE DEF all
  <1>3. CASE PlanSweep
    <2> DEFINE a == Len(plan) + 1
               b == PlannedBounds(a)
    <2>1. a \in 1..n /\ a - 1 = Len(plan) /\ phase = "plan"
      BY <1>1, <1>2, <1>3 DEF PlanSweep
    <2>2. /\ Planned(b) /\ PointCount(b) = program.sweeps[a].pointCount
          /\ PointCount(b) = all[a]
      BY <1>1, <1>2, <2>1
    <2>3. pointCount * PointCount(b) <= MaxSweepPoints
      <3> HIDE DEF n, a, b
      <3>1. a \in 1..Len(all) /\ a \in 0..Len(all)
        BY <1>2, <2>1
      <3>2. Products(all)[a] = Products(all)[a - 1] * all[a]
        BY <1>2, <3>1, ProductsAre
      <3>3. Products(all)[a] <= Product(all)
        BY <1>2, <3>1, ProductsGrow
      <3>4. pointCount * PointCount(b) = Products(all)[a]
        BY <1>2, <2>1, <2>2, <3>2
      <3>5. Products(all)[a] \in Nat /\ Product(all) \in Nat
        <4>1. Len(all) \in 0..Len(all)
          BY <3>1
        <4>2. QED BY <1>2, <3>1, <4>1, ProductsAre DEF Product
      <3>6. QED BY <1>1, <3>3, <3>4, <3>5
    <2>4. phase' = phase
      <3> HIDE DEF b
      <3>1. QED BY <1>3, <2>2, <2>3 DEF PlanSweep, b
    <2>5. QED BY <2>1, <2>4
  <1>4. CASE CheckProduct
    <2>1. Len(plan) = n /\ phase' = IF n > 1 /\ pointCount # program.totalPointCount
                                    THEN "rejected" ELSE "preflight"
      BY <1>4 DEF CheckProduct
    <2>2. pointCount = program.totalPointCount
      BY <1>1, <1>2, <2>1 DEF Product
    <2>3. QED BY <2>1, <2>2
  <1>5. QED BY <1>3, <1>4

\* A compiled program is refused for want of a capability only.
RefusalInv ==
  program \in Compiled => (phase = "rejected" => ~(Required \subseteq devices))

LEMMA RefusalStep ==
  ASSUME IInv, ShapeInv, RefusalInv, [Next]_vars
  PROVE  RefusalInv'
  <1>1. UNCHANGED <<program, devices>>
    BY DEF Next, RejectInvalid, Validate, PlanSweep, CheckProduct, Preflight, StartPoint,
           SetControl, SetOutputPower, Measure, Compute, EquipmentThrows, ReadMissing,
           FailPoint, FinishPoint, Finish, vars
  <1>2. Required' = Required /\ Compiled' = Compiled
    BY <1>1 DEF Required, Axes
  <1> SUFFICES ASSUME program \in Compiled, phase' = "rejected"
               PROVE  ~(Required \subseteq devices)
    BY <1>1, <1>2 DEF RefusalInv
  <1>3. CASE RejectInvalid
    BY <1>3, CompiledSweeps DEF RejectInvalid
  <1>4. CASE PlanSweep \/ CheckProduct
    BY <1>4, PlanningSucceeds
  <1>5. CASE Preflight
    BY <1>5 DEF Preflight
  <1>6. CASE UNCHANGED vars
    BY <1>6 DEF vars, RefusalInv
  <1>7. CASE \/ Validate \/ StartPoint \/ SetControl \/ SetOutputPower \/ Measure \/ Compute
             \/ EquipmentThrows \/ ReadMissing \/ FailPoint \/ FinishPoint \/ Finish
    <2>1. phase' = phase \/ phase' # "rejected"
      BY <1>7 DEF Validate, StartPoint, SetControl, SetOutputPower, Measure, Compute,
                  EquipmentThrows, ReadMissing, FailPoint, FinishPoint, Finish
    <2>2. QED BY <2>1 DEF RefusalInv
  <1>8. QED BY <1>3, <1>4, <1>5, <1>6, <1>7 DEF Next

LEMMA RefusalInit == Init => RefusalInv
  BY DEF Init, RefusalInv

LEMMA CompiledAreRun == RefusalInv => CompiledProgramsRun
  BY CompiledSweeps DEF RefusalInv, CompiledProgramsRun

\* Whatever is swept, measured and asserted in a script that compiles, and
\* whatever devices are there: the Validator accepts it, every sweep is planned
\* as the analyzer counted it, and a capability is all the runtime can miss
\* (analyzer.cpp:129-156, characterization.cpp:38-93, 251-273).
THEOREM CompiledProgramsAreRun == Spec => []CompiledProgramsRun
  <1>1. Init => ShapeInv /\ RefusalInv
    BY ShapeInit, RefusalInit
  <1>2. IInv /\ ShapeInv /\ RefusalInv /\ [Next]_vars => ShapeInv' /\ RefusalInv'
    BY ShapeStep, RefusalStep
  <1>3. QED BY <1>1, <1>2, CompiledAreRun, Invariance, PTL DEF Spec

-----------------------------------------------------------------------------
(* Operating points: the flat index, decoded axis by axis.                 *)

LEMMA Division ==
  ASSUME NEW x \in Nat, NEW c \in Nat, c > 0
  PROVE  /\ x \div c \in Nat /\ x % c \in 0..(c - 1)
         /\ IF x % c = c - 1
            THEN (x + 1) % c = 0 /\ (x + 1) \div c = x \div c + 1
            ELSE (x + 1) % c = (x % c) + 1 /\ (x + 1) \div c = x \div c
  <1> DEFINE q == x \div c  r == x % c
  <1>1. q \in Nat /\ r \in 0..(c - 1) /\ x = c * q + r
    OBVIOUS
  <1>2. \A p \in Nat : \A d \in 0..(c - 1) : (c * p + d) \div c = p /\ (c * p + d) % c = d
    OBVIOUS
  <1> HIDE DEF q, r
  <1>3. CASE r = c - 1
    <2>1. x + 1 = c * (q + 1) + 0
      <3>1. c * (q + 1) = c * q + c
        BY <1>1
      <3>2. c * q \in Nat /\ c * q + c \in Nat
        BY <1>1
      <3>3. QED BY <1>1, <1>3, <3>1, <3>2
    <2>2. (c * (q + 1) + 0) \div c = q + 1 /\ (c * (q + 1) + 0) % c = 0
      <3>1. q + 1 \in Nat /\ 0 \in 0..(c - 1)
        BY <1>1
      <3>2. QED BY <1>2, <3>1
    <2>3. QED BY <1>1, <1>3, <2>1, <2>2 DEF q, r
  <1>4. CASE r # c - 1
    <2>1. x + 1 = c * q + (r + 1) /\ r + 1 \in 0..(c - 1)
      BY <1>1, <1>4
    <2>2. (c * q + (r + 1)) \div c = q /\ (c * q + (r + 1)) % c = r + 1
      BY <1>1, <1>2, <2>1
    <2>3. QED BY <1>1, <1>4, <2>1, <2>2 DEF q, r
  <1>5. QED BY <1>3, <1>4

\* What is left of the flat index, from the last axis down.
LEMMA RemainderIs ==
  ASSUME PlanInv, ShapeInv, NEW flat \in Nat, Len(plan) > 0
  PROVE  /\ Remainder(flat) \in [1..Len(plan) -> Nat]
         /\ Remainder(flat)[Len(plan)] = flat
         /\ \A a \in 1..(Len(plan) - 1) :
              Remainder(flat)[a] = Remainder(flat)[a + 1] \div plan[a + 1].count
  <1> DEFINE n == Len(plan)
             step == [k \in 1..(n - 1) |-> [v \in Nat |-> v \div plan[n - k + 1].count]]
             Defines(g) ==
               g = [a \in DOMAIN plan |->
                      IF a = n THEN flat ELSE g[a + 1] \div plan[a + 1].count]
  <1>1. /\ n \in Nat /\ n > 0 /\ DOMAIN plan = 1..n
        /\ \A a \in 1..n : plan[a].count \in Nat /\ plan[a].count > 0
    BY PlanCounts, PlannedAxis
  <1>2. \A v, c \in Nat : c > 0 => v \div c \in Nat
    BY Division
  <1>3. step \in [1..(n - 1) -> [Nat -> Nat]]
    <2> HIDE DEF n
    <2>1. \A k \in 1..(n - 1) : n - k + 1 \in 1..n
      BY <1>1
    <2>2. \A k \in 1..(n - 1) : \A v \in Nat : v \div plan[n - k + 1].count \in Nat
      BY <1>1, <1>2, <2>1
    <2>3. QED BY <2>2
  <1>4. PICK f \in [0..(n - 1) -> Nat] :
          f[0] = flat /\ \A k \in 1..(n - 1) : f[k] = step[k][f[k - 1]]
    <2> HIDE DEF step, n
    <2>1. n - 1 \in Nat
      BY <1>1
    <2>2. \E f \in [0..(n - 1) -> Nat] : Recurs(f, n - 1, flat, step)
      BY <1>3, <2>1, RecursionTo
    <2>3. QED BY <2>2 DEF Recurs
  <1>5. ASSUME NEW k \in 1..(n - 1) PROVE f[k] = f[k - 1] \div plan[n - k + 1].count
    <2>1. f[k - 1] \in Nat /\ f[k] = step[k][f[k - 1]]
      <3> HIDE DEF step, n
      <3>1. k - 1 \in 0..(n - 1)
        BY <1>1
      <3>2. QED BY <1>4, <3>1
    <2> HIDE DEF n
    <2>2. step[k] = [v \in Nat |-> v \div plan[n - k + 1].count]
      OBVIOUS
    <2> HIDE DEF step
    <2>3. QED BY <2>1, <2>2
  <1> DEFINE g == [a \in 1..n |-> f[n - a]]
  <1>6. Defines(g)
    <2> HIDE DEF n, step
    <2>1. g[n] = flat
      BY <1>1, <1>4
    <2>2. ASSUME NEW a \in 1..n, a # n PROVE g[a] = g[a + 1] \div plan[a + 1].count
      <3> DEFINE k == n - a
      <3>1. k \in 1..(n - 1) /\ k - 1 = n - (a + 1) /\ n - k + 1 = a + 1 /\ a + 1 \in 1..n
        BY <1>1, <2>2
      <3>2. g[a] = f[k] /\ g[a + 1] = f[k - 1]
        BY <3>1
      <3> HIDE DEF g, k
      <3>3. QED BY <1>5, <3>1, <3>2
    <2>3. g = [a \in 1..n |-> g[a]]
      OBVIOUS
    <2> HIDE DEF g
    <2>4. g = [a \in 1..n |-> IF a = n THEN flat ELSE g[a + 1] \div plan[a + 1].count]
      BY <2>1, <2>2, <2>3
    <2>5. QED BY <1>1, <2>4
  <1>7. Remainder(flat) = CHOOSE h : Defines(h)
    BY DEF Remainder
  <1>8. Defines(Remainder(flat))
    <2> HIDE DEF Defines, g
    <2>1. QED BY <1>6, <1>7, Zenon
  <1> DEFINE rest == Remainder(flat)
  <1>9. rest = [a \in 1..n |-> IF a = n THEN flat ELSE rest[a + 1] \div plan[a + 1].count]
    BY <1>1, <1>8
  <1> HIDE DEF rest, n
  <1>10. /\ rest[n] = flat
         /\ \A a \in 1..(n - 1) : rest[a] = rest[a + 1] \div plan[a + 1].count
    BY <1>1, <1>9
  <1> DEFINE T == {k \in 0..(n - 1) : rest[n - k] \in Nat}
  <1>11. 0 \in T
    BY <1>1, <1>10
  <1>12. ASSUME NEW k \in 1..(n - 1), k - 1 \in T PROVE k \in T
    <2> DEFINE a == n - k
    <2>1. a \in 1..(n - 1) /\ a + 1 = n - (k - 1) /\ a + 1 \in 1..n /\ k \in 0..(n - 1)
      BY <1>1
    <2>2. rest[n - (k - 1)] \in Nat
      BY <1>12
    <2> HIDE DEF a
    <2>3. rest[a + 1] \in Nat
      BY <2>1, <2>2
    <2>4. rest[a] \in Nat
      BY <1>1, <1>2, <1>10, <2>1, <2>3
    <2>5. QED BY <2>1, <2>4 DEF a
  <1>13. 0..(n - 1) \subseteq T
    <2> HIDE DEF T
    <2>1. n - 1 \in Nat
      BY <1>1
    <2>2. QED BY <1>11, <1>12, <2>1, InductionTo
  <1>14. ASSUME NEW a \in 1..n PROVE rest[a] \in Nat
    <2>1. n - a \in 0..(n - 1) /\ n - (n - a) = a
      BY <1>1
    <2>2. n - a \in T
      <3> HIDE DEF T
      <3>1. QED BY <1>13, <2>1
    <2>3. QED BY <2>1, <2>2
  <1>15. rest \in [1..n -> Nat]
    BY <1>9, <1>14
  <1>16. QED BY <1>10, <1>15 DEF rest, n

\* A decoded coordinate is a value of its axis.
LEMMA Coordinate ==
  ASSUME PlanInv, ShapeInv, NEW flat \in Nat, NEW a \in 1..Len(plan)
  PROVE  LET digit == Remainder(flat)[a] % plan[a].count
         IN  /\ Remainder(flat)[a] \in Nat
             /\ digit \in 0..(plan[a].count - 1)
             /\ Decode(flat)[a].dimension = plan[a].dimension
             /\ Decode(flat)[a].value = ValueAt(plan[a].bounds, digit)
             /\ Decode(flat)[a] = [dimension |-> plan[a].dimension,
                                   value |-> ValueAt(plan[a].bounds, digit)]
             /\ ValueAt(plan[a].bounds, digit) \in Int
  <1> DEFINE r == Remainder(flat)[a]
             c == plan[a].count
             b == plan[a].bounds
  <1>1. Len(plan) > 0 /\ DOMAIN plan = 1..Len(plan)
    BY PlanCounts
  <1>2. r \in Nat
    BY <1>1, RemainderIs
  <1>3. /\ b \in Bounds /\ ValidSweep(b) /\ c \in Nat /\ c > 0 /\ LastIndex(b) = c - 1
    BY PlannedAxis
  <1>4. Decode(flat)[a] = [dimension |-> plan[a].dimension, value |-> ValueAt(b, r % c)]
    BY <1>1 DEF Decode
  <1> HIDE DEF r, c, b
  <1>5. r % c \in 0..(c - 1)
    BY <1>2, <1>3, Division
  <1>6. ValueAt(b, r % c) \in Int
    BY <1>3, <1>5, ValuesSpaced
  <1> DEFINE v == ValueAt(b, r % c)
  <1>7. v \in Int /\ Decode(flat)[a] = [dimension |-> plan[a].dimension, value |-> v]
    BY <1>4, <1>6
  <1> HIDE DEF v
  <1>8. Decode(flat)[a].dimension = plan[a].dimension /\ Decode(flat)[a].value = v
    BY <1>7
  <1>9. QED BY <1>2, <1>5, <1>7, <1>8 DEF r, c, b, v

LEMMA DecodeDomain ==
  ASSUME PlanInv, ShapeInv, NEW flat
  PROVE  /\ IsSeq(Decode(flat)) /\ Len(Decode(flat)) = Len(plan)
         /\ DOMAIN Decode(flat) = 1..Len(plan)
  <1>1. DOMAIN plan = 1..Len(plan) /\ Len(plan) \in Nat
    BY PlanCounts
  <1>2. Decode(flat) = [a \in 1..Len(plan) |-> Decode(flat)[a]]
    BY <1>1 DEF Decode
  <1>3. QED BY <1>1, <1>2, FunctionIsSeq

LEMMA DecodeIsPoint ==
  ASSUME IInv, ShapeInv, NEW flat \in Nat
  PROVE  IsPoint(Decode(flat)) /\ Decode(flat) \in Points
  <1>1. PlanInv /\ DOMAIN plan = 1..Len(plan) /\ Len(plan) \in Nat
    BY PlanCounts DEF IInv
  <1>2. DOMAIN Decode(flat) = DOMAIN plan
    BY <1>1, DecodeDomain
  <1>3. ASSUME NEW a \in DOMAIN plan
        PROVE  /\ Decode(flat)[a].dimension = plan[a].dimension
               /\ Decode(flat)[a].value \in AxisValues(a)
               /\ Decode(flat)[a] \in [dimension : Dimensions, value : Int]
    <2> DEFINE digit == Remainder(flat)[a] % plan[a].count
               v == ValueAt(plan[a].bounds, digit)
    <2>1. /\ digit \in 0..(plan[a].count - 1) /\ v \in Int
          /\ Decode(flat)[a] = [dimension |-> plan[a].dimension, value |-> v]
      BY <1>1, Coordinate
    <2>2. v \in AxisValues(a)
      <3> HIDE DEF digit
      <3>1. QED BY <2>1 DEF AxisValues
    <2>3. plan[a].dimension \in Dimensions
      <3>1. program \in IrPrograms /\ a \in 1..Len(program.sweeps)
        BY <1>1, ExecutedTyped, SweepsTyped DEF IInv, ChecksInv, PlanInv
      <3>2. plan[a].dimension = program.sweeps[a].dimension
        BY <1>1, PlannedAxis
      <3>3. QED BY <3>1, <3>2, SweepsTyped
    <2> HIDE DEF v
    <2>4. QED BY <2>1, <2>2, <2>3
  <1>4. Decode(flat) \in Points
    <2>1. Decode(flat) = [a \in 1..Len(plan) |-> Decode(flat)[a]]
      BY <1>1, DecodeDomain DEF IsSeq
    <2> DEFINE Coordinates == [dimension : Dimensions, value : Int]
    <2>2. \A a \in 1..Len(plan) : Decode(flat)[a] \in Coordinates
      BY <1>1, <1>3
    <2> HIDE DEF Coordinates
    <2>3. Decode(flat) \in [1..Len(plan) -> Coordinates]
      BY <2>1, <2>2
    <2>4. Decode(flat) \in Seq(Coordinates)
      BY <1>1, <2>3
    <2>5. QED BY <2>4 DEF Points, Coordinates
  <1>5. QED BY <1>2, <1>3, <1>4 DEF IsPoint

LEMMA QuotientBound ==
  ASSUME NEW x \in Nat, NEW c \in Nat, c > 0, NEW m \in Nat, x < m * c
  PROVE  x \div c < m
  <1> DEFINE q == x \div c
  <1>1. q \in Nat /\ q * c <= x
    OBVIOUS
  <1> HIDE DEF q
  <1>2. ASSUME q >= m PROVE FALSE
    <2> DEFINE d == q - m
    <2>1. d \in Nat /\ q = m + d
      BY <1>1, <1>2
    <2> HIDE DEF d
    <2>2. q * c = m * c + d * c /\ m * c \in Int
      BY <2>1, Distributes
    <2>3. d * c \in Nat
      <3>1. \A u, v \in Nat : u * v \in Nat
        OBVIOUS
      <3>2. QED BY <2>1, <3>1
    <2>4. QED BY <1>1, <2>2, <2>3
  <1>3. q < m
    BY <1>1, <1>2
  <1>4. QED BY <1>3 DEF q

\* Within the product, what is left for the first axis is one of its indexes.
LEMMA FirstRemainder ==
  ASSUME PlanInv, ShapeInv, NEW flat \in Nat, flat < pointCount, Len(plan) > 0
  PROVE  Remainder(flat)[1] < plan[1].count
  <1> DEFINE n == Len(plan)
             rest == Remainder(flat)
             counts == CountsOf(plan)
             T == {k \in 0..(n - 1) : rest[n - k] < Products(counts)[n - k]}
  <1>1. /\ counts \in Seq(Nat) /\ Len(counts) = n /\ n \in Nat /\ n > 0
        /\ \A a \in 1..n : counts[a] = plan[a].count /\ counts[a] \in Nat /\ counts[a] > 0
    BY PlanCounts
  <1>2. /\ rest \in [1..n -> Nat] /\ rest[n] = flat
        /\ \A a \in 1..(n - 1) : rest[a] = rest[a + 1] \div plan[a + 1].count
    BY RemainderIs
  <1>3. pointCount = Products(counts)[n]
    BY <1>1 DEF ShapeInv, Product
  <1> HIDE DEF n, rest, counts
  <1>4. /\ Products(counts) \in [0..n -> Nat] /\ Products(counts)[0] = 1
        /\ \A a \in 1..n : Products(counts)[a] = Products(counts)[a - 1] * counts[a]
    BY <1>1, ProductsAre
  <1>5. 0 \in T
    BY <1>1, <1>2, <1>3
  <1>6. ASSUME NEW k \in 1..(n - 1), k - 1 \in T PROVE k \in T
    <2> DEFINE a == n - k
    <2>1. /\ a \in 1..(n - 1) /\ a + 1 = n - (k - 1) /\ a + 1 \in 1..n /\ (a + 1) - 1 = a
          /\ a \in 0..n /\ k \in 0..(n - 1)
      BY <1>1
    <2>2. rest[n - (k - 1)] < Products(counts)[n - (k - 1)]
      BY <1>6
    <2> HIDE DEF a
    <2>3. rest[a + 1] < Products(counts)[a + 1]
      BY <2>1, <2>2
    <2>4. Products(counts)[a + 1] = Products(counts)[a] * counts[a + 1]
      <3>1. Products(counts)[a + 1] = Products(counts)[(a + 1) - 1] * counts[a + 1]
        BY <1>4, <2>1
      <3>2. QED BY <2>1, <3>1
    <2>5. rest[a] = rest[a + 1] \div counts[a + 1]
      BY <1>1, <1>2, <2>1
    <2>6. /\ rest[a + 1] \in Nat /\ counts[a + 1] \in Nat /\ counts[a + 1] > 0
          /\ Products(counts)[a] \in Nat
      BY <1>1, <1>2, <1>4, <2>1
    <2>7. rest[a + 1] \div counts[a + 1] < Products(counts)[a]
      BY <2>3, <2>4, <2>6, QuotientBound
    <2>8. rest[a] < Products(counts)[a]
      BY <2>5, <2>7
    <2>9. QED BY <2>1, <2>8 DEF a
  <1>7. n - 1 \in T
    <2> HIDE DEF T
    <2>1. n - 1 \in Nat /\ n - 1 \in 0..(n - 1)
      BY <1>1
    <2>2. 0..(n - 1) \subseteq T
      BY <1>5, <1>6, <2>1, InductionTo
    <2>3. QED BY <2>1, <2>2
  <1>8. n - (n - 1) = 1
    BY <1>1
  <1>9. rest[1] < Products(counts)[1]
    BY <1>7, <1>8
  <1>10. Products(counts)[1] = plan[1].count
    <2>1. 1 \in 1..n /\ 1 - 1 = 0
      BY <1>1
    <2>2. Products(counts)[1] = Products(counts)[0] * counts[1]
      BY <1>4, <2>1
    <2>3. QED BY <1>1, <1>4, <2>1, <2>2
  <1>11. QED BY <1>9, <1>10 DEF rest

\* Counting on by one changes one index by one, sets those after it to 0 and
\* leaves those before it: the points come in the order of the product.
LEMMA SuccessorFollows ==
  ASSUME PlanInv, ShapeInv, NEW flat \in Nat, flat + 1 < pointCount, Distinct
  PROVE  Before(Decode(flat), Decode(flat + 1))
  <1> DEFINE n == Len(plan)
             r == Remainder(flat)
             s == Remainder(flat + 1)
             Moves(a) == s[a] = r[a] \/ s[a] = r[a] + 1
             U == {a \in 1..n : s[a] # r[a]}
  <1>1. /\ n \in Nat /\ DOMAIN plan = 1..n
        /\ \A a \in 1..n : plan[a].count \in Nat /\ plan[a].count > 0
    BY PlanCounts, PlannedAxis
  <1>2. n > 0
    <2>1. CASE n = 0
      <3>1. pointCount = 1
        BY <2>1, PlanCounts, ProductsAre DEF ShapeInv, Product
      <3>2. QED BY <3>1
    <2>2. QED BY <1>1, <2>1
  <1>3. /\ r \in [1..n -> Nat] /\ r[n] = flat
        /\ \A a \in 1..(n - 1) : r[a] = r[a + 1] \div plan[a + 1].count
    BY <1>2, RemainderIs
  <1>4. /\ s \in [1..n -> Nat] /\ s[n] = flat + 1
        /\ \A a \in 1..(n - 1) : s[a] = s[a + 1] \div plan[a + 1].count
    <2>1. flat + 1 \in Nat
      OBVIOUS
    <2>2. QED BY <1>2, <2>1, RemainderIs
  <1>5. s[1] < plan[1].count
    <2>1. flat + 1 \in Nat
      OBVIOUS
    <2>2. QED BY <1>2, <2>1, FirstRemainder
  <1> HIDE DEF n, r, s
  <1>6. \A a \in 1..n : Moves(a)
    <2> DEFINE T == {k \in 0..(n - 1) : Moves(n - k)}
    <2>1. 0 \in T
      BY <1>1, <1>2, <1>3, <1>4
    <2>2. ASSUME NEW k \in 1..(n - 1), k - 1 \in T PROVE k \in T
      <3> DEFINE a == n - k
      <3>1. /\ a \in 1..(n - 1) /\ a + 1 = n - (k - 1) /\ a + 1 \in 1..n
            /\ k \in 0..(n - 1)
        BY <1>1
      <3>2. Moves(n - (k - 1))
        BY <2>2
      <3> HIDE DEF a
      <3>3. s[a + 1] = r[a + 1] \/ s[a + 1] = r[a + 1] + 1
        BY <3>1, <3>2
      <3> DEFINE x == r[a + 1]  c == plan[a + 1].count
      <3>4. /\ x \in Nat /\ c \in Nat /\ c > 0
            /\ r[a] = x \div c /\ s[a] = s[a + 1] \div c
        BY <1>1, <1>3, <1>4, <3>1
      <3> HIDE DEF x, c
      <3>5. (x + 1) \div c = x \div c \/ (x + 1) \div c = x \div c + 1
        BY <3>4, Division
      <3>6. s[a + 1] = x \/ s[a + 1] = x + 1
        BY <3>3 DEF x
      <3>7. s[a] = r[a] \/ s[a] = r[a] + 1
        BY <3>4, <3>5, <3>6
      <3>8. QED BY <3>1, <3>7 DEF a
    <2>3. 0..(n - 1) \subseteq T
      <3> HIDE DEF T
      <3>1. n - 1 \in Nat
        BY <1>1, <1>2
      <3>2. QED BY <2>1, <2>2, <3>1, InductionTo
    <2>4. ASSUME NEW a \in 1..n PROVE Moves(a)
      <3>1. n - a \in 0..(n - 1) /\ n - (n - a) = a
        BY <1>1
      <3>2. n - a \in T
        <4> HIDE DEF T
        <4>1. QED BY <2>3, <3>1
      <3>3. QED BY <3>1, <3>2
    <2>5. QED BY <2>4
  <1>7. PICK a \in U : \A b \in U : a <= b
    <2>1. n \in U
      BY <1>1, <1>2, <1>3, <1>4
    <2>2. U \in SUBSET Nat /\ U # {}
      BY <1>1, <2>1
    <2> HIDE DEF U
    <2>3. QED BY <2>2, LeastNatural
  <1>8. a \in 1..n /\ s[a] = r[a] + 1
    BY <1>6, <1>7
  <1>9. \A b \in 1..(a - 1) : b \in 1..n /\ s[b] = r[b]
    BY <1>1, <1>7, <1>8
  <1> DEFINE c == plan[a].count
             b0 == plan[a].bounds
  <1>10. r[a] \in Nat /\ c \in Nat /\ c > 0
    BY <1>1, <1>3, <1>8
  <1>11. r[a] % c # c - 1
    <2> SUFFICES ASSUME r[a] % c = c - 1 PROVE FALSE
      OBVIOUS
    <2>1. CASE a = 1
      <3>1. r[a] < c /\ r[a] + 1 < c
        BY <1>5, <1>8, <1>10, <2>1
      <3>2. r[a] % c = r[a]
        <4> HIDE DEF c
        <4>1. QED BY <1>10, <3>1
      <3> HIDE DEF c
      <3>3. QED BY <1>10, <3>1, <3>2
    <2>2. CASE a # 1
      <3> DEFINE b == a - 1
      <3>1. b \in 1..(a - 1) /\ b \in 1..(n - 1) /\ b + 1 = a
        BY <1>1, <1>8, <2>2
      <3> HIDE DEF b
      <3>2. r[b] = r[a] \div c /\ s[b] = s[a] \div c
        BY <1>3, <1>4, <3>1
      <3> HIDE DEF c
      <3>3. (r[a] + 1) \div c = r[a] \div c + 1
        BY <1>10, Division
      <3>4. r[a] \div c \in Nat
        BY <1>10, Division
      <3>5. s[b] = r[b]
        BY <1>9, <3>1
      <3>6. QED BY <1>8, <3>2, <3>3, <3>4, <3>5
    <2>3. QED BY <2>1, <2>2
  <1>12. s[a] % c = (r[a] % c) + 1 /\ s[a] % c \in 0..(c - 1)
    <2> HIDE DEF c
    <2>1. s[a] \in Nat
      BY <1>4, <1>8
    <2>2. QED BY <1>8, <1>10, <1>11, <2>1, Division, ZenonT(60)
  <1>13. Decode(flat)[a].value < Decode(flat + 1)[a].value
    <2> DEFINE i == r[a] % c  j == s[a] % c
    <2>1. /\ Decode(flat)[a].value = ValueAt(b0, i)
          /\ Decode(flat + 1)[a].value = ValueAt(b0, j)
          /\ i \in 0..(c - 1)
      <3>1. flat + 1 \in Nat
        OBVIOUS
      <3>2. QED BY <1>8, <3>1, Coordinate DEF n, r, s
    <2>2. b0 \in Bounds /\ ValidSweep(b0) /\ LastIndex(b0) = c - 1
      BY <1>8, PlannedAxis DEF n
    <2>3. b0.step > Tolerance(b0)
      BY <1>1, <1>8 DEF Distinct
    <2>4. j = i + 1 /\ j \in 0..(c - 1)
      BY <1>12
    <2> HIDE DEF i, j, b0, c
    <2>5. j - 1 = i /\ j > 0
      BY <2>1, <2>4
    <2>6. ValueAt(b0, j - 1) < ValueAt(b0, j)
      BY <2>2, <2>3, <2>4, <2>5, ValuesSpaced
    <2>7. QED BY <2>1, <2>5, <2>6
  <1>14. ASSUME NEW b \in 1..(a - 1) PROVE Decode(flat)[b].value = Decode(flat + 1)[b].value
    <2>1. b \in 1..n /\ s[b] = r[b]
      BY <1>9
    <2>2. /\ Decode(flat)[b].value = ValueAt(plan[b].bounds, r[b] % plan[b].count)
          /\ Decode(flat + 1)[b].value = ValueAt(plan[b].bounds, s[b] % plan[b].count)
      <3>1. flat + 1 \in Nat
        OBVIOUS
      <3>2. QED BY <2>1, <3>1, Coordinate DEF n, r, s
    <2>3. QED BY <2>1, <2>2
  <1>15. QED BY <1>1, <1>8, <1>13, <1>14 DEF Before

-----------------------------------------------------------------------------
(* The points measured so far are the first of the product.                *)

PointsInv ==
  /\ phase \in Untouched => samples = <<>>
  /\ Len(samples) <= pointCount
  /\ phase = "evaluate" =>
       Len(samples) < pointCount /\ coordinates = Decode(Len(samples)) /\ HasFrequency(coordinates)
  /\ phase = "done" => Len(samples) = pointCount
  /\ \A i \in 1..Len(samples) : samples[i].point = Decode(i - 1)

LEMMA PointsInit == Init => PointsInv
  <1> SUFFICES ASSUME Init PROVE PointsInv
    OBVIOUS
  <1>1. samples = <<>> /\ Len(samples) = 0 /\ phase = "validate" /\ pointCount = 1
    BY DEF Init
  <1>2. QED BY <1>1 DEF PointsInv

\* Points are decoded alike as long as the plan stays.
LEMMA DecodedAlike ==
  ASSUME UNCHANGED plan
  PROVE  \A flat : Decode(flat)' = Decode(flat)
  BY DEF Decode, Remainder

LEMMA PointsStep ==
  ASSUME IInv, ShapeInv, ShapeInv', PointsInv, [Next]_vars
  PROVE  PointsInv'
  <1>1. /\ IsSeq(samples) /\ Len(samples) \in Nat
        /\ pointCount \in 1..MaxSweepPoints /\ pointCount' \in 1..MaxSweepPoints
        /\ MaxSweepPoints \in Nat
    BY DEF IInv, PointInv, IsSeq, ShapeInv
  <1>2. CASE RejectInvalid \/ Validate \/ PlanSweep \/ CheckProduct \/ Preflight
    <2>1. samples' = samples /\ phase \in Untouched
          /\ phase' \in Untouched \cup {"start"}
      BY <1>2 DEF RejectInvalid, Validate, PlanSweep, CheckProduct, Preflight, artifacts,
                  Untouched
    <2>2. samples' = <<>> /\ Len(samples') = 0
      BY <2>1 DEF PointsInv
    <2>3. QED BY <1>1, <2>1, <2>2 DEF PointsInv, Untouched
  <1>3. CASE StartPoint
    <2>1. /\ phase = "start" /\ Len(samples) < pointCount
          /\ coordinates' = Decode(Len(samples))
          /\ phase' = IF HasFrequency(coordinates') THEN "evaluate" ELSE "thrown"
          /\ UNCHANGED <<plan, pointCount, samples>>
      BY <1>3 DEF StartPoint, artifacts
    <2>2. \A flat : Decode(flat)' = Decode(flat)
      BY <2>1, DecodedAlike
    <2>3. Decode(Len(samples))' = Decode(Len(samples))
      BY <2>1, <2>2 DEF Decode, Remainder
    <2>4. HasFrequency(coordinates)' <=> HasFrequency(coordinates')
      BY DEF HasFrequency
    <2>5. \A i \in 1..Len(samples') : samples'[i].point = Decode(i - 1)'
      BY <2>1, <2>2 DEF PointsInv
    <2>6. QED BY <2>1, <2>3, <2>4, <2>5 DEF PointsInv, Untouched
  <1>4. CASE FinishPoint
    <2>1. /\ phase = "evaluate" /\ phase' = "start" /\ UNCHANGED <<plan, pointCount>>
          /\ \E s : s.point = coordinates /\ samples' = Append(samples, s)
      BY <1>4 DEF FinishPoint, Evaluated, Evaluating, Record
    <2>2. PICK s : s.point = coordinates /\ samples' = Append(samples, s)
      BY <2>1
    <2>3. /\ Len(samples') = Len(samples) + 1
          /\ \A i \in 1..Len(samples) : samples'[i] = samples[i]
          /\ samples'[Len(samples) + 1] = s
      BY <1>1, <2>2, AppendIsSeq
    <2>4. Len(samples) < pointCount /\ coordinates = Decode(Len(samples))
      BY <2>1 DEF PointsInv
    <2>5. \A flat : Decode(flat)' = Decode(flat)
      BY <2>1, DecodedAlike
    <2>6. ASSUME NEW i \in 1..Len(samples')
          PROVE  samples'[i].point = Decode(i - 1)
      <3>1. CASE i \in 1..Len(samples)
        BY <2>3, <3>1 DEF PointsInv
      <3>2. CASE i = Len(samples) + 1
        <4>1. i - 1 = Len(samples)
          BY <1>1, <3>2
        <4>2. QED BY <2>2, <2>3, <2>4, <3>2, <4>1
      <3>3. QED BY <1>1, <2>3, <3>1, <3>2
    <2>7. \A i \in 1..Len(samples') : samples'[i].point = Decode(i - 1)'
      BY <2>5, <2>6
    <2>8. Len(samples') <= pointCount'
      BY <1>1, <2>1, <2>3, <2>4
    <2>9. QED BY <2>1, <2>7, <2>8 DEF PointsInv, Untouched
  <1>5. CASE \/ SetControl \/ SetOutputPower \/ Measure \/ Compute
             \/ EquipmentThrows \/ ReadMissing \/ FailPoint \/ Finish \/ UNCHANGED vars
    <2>1. /\ UNCHANGED <<plan, pointCount, samples, coordinates>>
          /\ \/ phase' = phase
             \/ phase' \in {"thrown", "undefined", "notFinite"}
             \/ phase' = "done" /\ Len(samples) = pointCount
      BY <1>5 DEF SetControl, SetOutputPower, Measure, Compute, EquipmentThrows,
                  ReadMissing, FailPoint, Finish, vars, artifacts, point
    <2>2. \A flat : Decode(flat)' = Decode(flat)
      BY <2>1, DecodedAlike
    <2>3. Decode(Len(samples))' = Decode(Len(samples))
      BY <2>1, <2>2 DEF Decode, Remainder
    <2>4. HasFrequency(coordinates)' <=> HasFrequency(coordinates)
      BY <2>1 DEF HasFrequency
    <2>5. \A i \in 1..Len(samples') : samples'[i].point = Decode(i - 1)'
      BY <2>1, <2>2 DEF PointsInv
    <2>6. QED BY <2>1, <2>3, <2>4, <2>5 DEF PointsInv, Untouched
  <1>6. QED BY <1>2, <1>3, <1>4, <1>5 DEF Next

\* The operating points are those of the product, in its order.
LEMMA Rectangular ==
  ASSUME IInv, ShapeInv, PointsInv
  PROVE  ResultIsRectangular
  <1>1. /\ IsSeq(samples) /\ Len(samples) \in Nat /\ DOMAIN samples = 1..Len(samples)
        /\ PlanInv
    <2>1. IsSeq(samples)
      BY DEF IInv, PointInv
    <2>2. QED BY <2>1 DEF IInv, IsSeq
  <1>2. ASSUME NEW i \in DOMAIN samples PROVE IsPoint(samples[i].point)
    <2>1. i - 1 \in Nat /\ samples[i].point = Decode(i - 1)
      BY <1>1 DEF PointsInv
    <2>2. QED BY <2>1, DecodeIsPoint
  <1>3. ASSUME Distinct, NEW i \in DOMAIN samples, i > 1
        PROVE  Before(samples[i - 1].point, samples[i].point)
    <2> DEFINE flat == i - 2
    <2>1. /\ flat \in Nat /\ flat + 1 = i - 1 /\ (i - 1) - 1 = flat /\ i - 1 \in 1..Len(samples)
          /\ i \in 1..Len(samples)
      BY <1>1, <1>3
    <2>2. pointCount \in Nat /\ Len(samples) <= pointCount
      BY DEF ShapeInv, PointsInv
    <2> HIDE DEF flat
    <2>3. samples[i - 1].point = Decode((i - 1) - 1) /\ samples[i].point = Decode(i - 1)
      BY <2>1 DEF PointsInv
    <2>4. flat + 1 < pointCount
      BY <1>1, <2>1, <2>2
    <2>5. Before(Decode(flat), Decode(flat + 1))
      BY <1>1, <1>3, <2>1, <2>4, SuccessorFollows
    <2>6. QED BY <2>1, <2>3, <2>5
  <1>4. phase = "done" => Len(samples) = Product([a \in DOMAIN plan |-> plan[a].count])
    BY DEF PointsInv, ShapeInv, CountsOf
  <1>5. QED BY <1>2, <1>3, <1>4 DEF ResultIsRectangular

-----------------------------------------------------------------------------
(* Types: of the point, then of what is recorded.                          *)

LEMMA AppendTyped ==
  ASSUME NEW S, NEW v \in Seq(S), NEW x \in S
  PROVE  Append(v, x) \in Seq(S)
  OBVIOUS

LEMMA FunctionTyped ==
  ASSUME NEW S, NEW n \in Nat, NEW v \in [1..n -> S]
  PROVE  v \in Seq(S) /\ Len(v) = n
  OBVIOUS

EquipmentTyped ==
  /\ devices \subseteq Capabilities /\ finite \in BOOLEAN
  /\ coordinates \in Points /\ values \in Seq(Settings) /\ settings \in Settings
  /\ calls \in Seq(Calls)

\* A setting made leaves the settings typed.
LEMMA SettingMade ==
  ASSUME settings \in Settings, NEW c \in [dimension : Dimensions, value : Int]
  PROVE  /\ [settings EXCEPT ![c.dimension] = c.value] \in Settings
         /\ [settings EXCEPT !.power = "reference"] \in Settings
  <1>1. c.value \in Int /\ (c.dimension = "frequency" \/ c.dimension = "temperature")
    BY DEF Dimensions
  <1>2. CASE c.dimension = "frequency"
    BY <1>1, <1>2 DEF Settings
  <1>3. CASE c.dimension = "temperature"
    BY <1>1, <1>3 DEF Settings
  <1>4. [settings EXCEPT !.power = "reference"] \in Settings
    BY DEF Settings
  <1>5. QED BY <1>1, <1>2, <1>3, <1>4

LEMMA EquipmentInit == Init => EquipmentTyped
  <1> SUFFICES ASSUME Init PROVE EquipmentTyped
    OBVIOUS
  <1>1. \A S : <<>> \in Seq(S)
    OBVIOUS
  <1>2. NoReading \in Settings
    BY DEF NoReading, Settings
  <1>3. QED BY <1>1, <1>2 DEF Init, EquipmentTyped, Points

LEMMA EquipmentStep ==
  ASSUME IInv, ShapeInv, EquipmentTyped, [Next]_vars
  PROVE  EquipmentTyped'
  <1>1. PointInv
    BY DEF IInv
  <1>2. NoReading \in Settings
    BY DEF NoReading, Settings
  <1>3. CASE StartPoint
    <2>1. /\ coordinates' = Decode(Len(samples)) /\ values' = <<>> /\ finite' = TRUE
          /\ calls' = <<>> /\ UNCHANGED <<devices, settings>>
      BY <1>3 DEF StartPoint
    <2>2. Len(samples) \in Nat
      BY <1>1 DEF PointInv, IsSeq
    <2>3. coordinates' \in Points
      BY <2>1, <2>2, DecodeIsPoint
    <2>4. \A S : <<>> \in Seq(S)
      OBVIOUS
    <2>5. values' \in Seq(Settings) /\ calls' \in Seq(Calls)
      BY <2>1, <2>4
    <2>6. QED BY <2>1, <2>3, <2>5 DEF EquipmentTyped
  <1>4. CASE SetControl
    <2> DEFINE c == coordinates[axis + 1]
    <2>1. /\ axis < Len(coordinates) /\ settings' = [settings EXCEPT ![c.dimension] = c.value]
          /\ \E call \in {"setFrequency", "setTemperature"} : calls' = Append(calls, call)
          /\ UNCHANGED <<devices, finite, coordinates, values>>
      BY <1>4 DEF SetControl
    <2>2. c \in [dimension : Dimensions, value : Int]
      <3>1. axis + 1 \in DOMAIN coordinates
        BY <1>1, <2>1, AppendIsSeq DEF PointInv, IsSeq
      <3>2. coordinates \in Seq([dimension : Dimensions, value : Int])
        BY DEF EquipmentTyped, Points
      <3>3. QED BY <3>1, <3>2, ElementOf
    <2>3. settings' \in Settings
      BY <2>1, <2>2, SettingMade DEF EquipmentTyped
    <2>4. {"setFrequency", "setTemperature"} \subseteq Calls
      BY DEF Calls
    <2>5. calls' \in Seq(Calls)
      BY <2>1, <2>4, AppendTyped DEF EquipmentTyped
    <2>6. QED BY <2>1, <2>3, <2>5 DEF EquipmentTyped
  <1>5. CASE SetOutputPower
    <2>1. /\ settings' = [settings EXCEPT !.power = "reference"]
          /\ calls' = Append(calls, "setOutputPower")
          /\ UNCHANGED <<devices, finite, coordinates, values>>
      BY <1>5 DEF SetOutputPower
    <2>2. "setOutputPower" \in Calls
      BY DEF Calls
    <2>3. calls' \in Seq(Calls)
      BY <2>1, <2>2, AppendTyped DEF EquipmentTyped
    <2>4. settings' \in Settings
      BY <2>1 DEF EquipmentTyped, Settings
    <2>5. QED BY <2>1, <2>3, <2>4 DEF EquipmentTyped
  <1>6. CASE Measure
    <2>1. /\ values' = Append(values, settings)
          /\ calls' = Append(calls, program.values[Upcoming].op)
          /\ finite' \in {finite, FALSE}
          /\ UNCHANGED <<devices, coordinates, settings>>
      BY <1>6 DEF Measure
    <2>2. program.values[Upcoming].op \in Calls
      <3>1. axis = Len(coordinates) /\ CallDue /\ ~PowerDue
        BY <1>6 DEF Measure, Evaluating
      <3>2. Len(coordinates) \in Nat
        BY <1>1 DEF PointInv, IsSeq
      <3>3. IsMeasure(program.values[Upcoming])
        BY <3>1, <3>2 DEF CallDue
      <3>4. QED BY <3>3 DEF IsMeasure, Calls
    <2>3. calls' \in Seq(Calls)
      BY <2>1, <2>2, AppendTyped DEF EquipmentTyped
    <2>4. values' \in Seq(Settings)
      BY <2>1, AppendTyped DEF EquipmentTyped
    <2>5. QED BY <2>1, <2>3, <2>4 DEF EquipmentTyped
  <1>7. CASE Compute
    <2>1. /\ values' = Append(values, NoReading) /\ finite' \in {finite, FALSE}
          /\ UNCHANGED <<devices, coordinates, settings, calls>>
      BY <1>7 DEF Compute
    <2>2. values' \in Seq(Settings)
      BY <1>2, <2>1, AppendTyped DEF EquipmentTyped
    <2>3. QED BY <2>1, <2>2 DEF EquipmentTyped
  <1>8. CASE EquipmentThrows
    <2>1. /\ CallDue /\ UNCHANGED <<devices, point>>
          /\ settings' \in {settings} \cup
               (IF axis < Len(coordinates)
                THEN {[settings EXCEPT ![coordinates[axis + 1].dimension] =
                         coordinates[axis + 1].value]}
                ELSE IF PowerDue THEN {[settings EXCEPT !.power = "reference"]} ELSE {})
      BY <1>8 DEF EquipmentThrows
    <2>2. settings' \in Settings
      <3>1. CASE axis < Len(coordinates)
        <4>1. axis + 1 \in DOMAIN coordinates
          BY <1>1, <3>1, AppendIsSeq DEF PointInv, IsSeq
        <4>2. coordinates \in Seq([dimension : Dimensions, value : Int])
          BY DEF EquipmentTyped, Points
        <4>3. coordinates[axis + 1] \in [dimension : Dimensions, value : Int]
          BY <4>1, <4>2, ElementOf
        <4> DEFINE made == [settings EXCEPT ![coordinates[axis + 1].dimension] =
                              coordinates[axis + 1].value]
        <4>4. made \in Settings
          BY <4>3, SettingMade DEF EquipmentTyped
        <4>5. settings' \in {settings} \cup {made}
          BY <2>1, <3>1
        <4> HIDE DEF made
        <4>6. QED BY <4>4, <4>5 DEF EquipmentTyped
      <3>2. CASE ~(axis < Len(coordinates))
        <4>1. [settings EXCEPT !.power = "reference"] \in Settings
          BY DEF EquipmentTyped, Settings
        <4>2. QED BY <2>1, <3>2, <4>1 DEF EquipmentTyped
      <3>3. QED BY <3>1, <3>2
    <2>3. QED BY <2>1, <2>2 DEF EquipmentTyped, point
  <1>9. CASE \/ RejectInvalid \/ Validate \/ PlanSweep \/ CheckProduct \/ Preflight
             \/ ReadMissing \/ FailPoint \/ FinishPoint \/ Finish \/ UNCHANGED vars
    <2>1. UNCHANGED <<devices, finite, coordinates, values, settings, calls>>
      BY <1>9 DEF RejectInvalid, Validate, PlanSweep, CheckProduct, Preflight, ReadMissing,
                  FailPoint, FinishPoint, Finish, vars, point
    <2>2. QED BY <2>1 DEF EquipmentTyped
  <1>10. QED BY <1>3, <1>4, <1>5, <1>6, <1>7, <1>8, <1>9 DEF Next

\* The frequency of a point.
LEMMA FrequencyTyped ==
  ASSUME NEW pt \in Points, HasFrequency(pt)
  PROVE  Frequency(pt) \in Int
  <1> DEFINE Coordinates == [dimension : Dimensions, value : Int]
             F == {a \in DOMAIN pt : pt[a].dimension = "frequency"}
  <1>1. pt \in Seq(Coordinates)
    BY DEF Points
  <1>2. DOMAIN pt = 1..Len(pt) /\ \A a \in DOMAIN pt : pt[a] \in Coordinates
    <2> HIDE DEF Coordinates
    <2>1. QED BY <1>1
  <1>3. PICK m \in F : \A a \in F : m <= a
    <2>1. F \in SUBSET Nat /\ F # {}
      BY <1>2 DEF HasFrequency
    <2> HIDE DEF F
    <2>2. QED BY <2>1, LeastNatural
  <1>4. m \in DOMAIN pt /\ pt[m].dimension = "frequency"
        /\ \A b \in 1..(m - 1) : pt[b].dimension # "frequency"
    BY <1>2, <1>3
  <1> DEFINE a == CHOOSE a \in DOMAIN pt :
                    /\ pt[a].dimension = "frequency"
                    /\ \A b \in 1..(a - 1) : pt[b].dimension # "frequency"
  <1>5. a \in DOMAIN pt
    BY <1>4
  <1>6. Frequency(pt) = pt[a].value
    BY DEF Frequency
  <1> HIDE DEF a
  <1>7. pt[a] \in Coordinates
    BY <1>2, <1>5
  <1>8. QED BY <1>6, <1>7

Samples ==
  [point : Points, observations : Seq(Settings), measured : Settings,
   outcomes : Seq(BOOLEAN), status : Statuses]

\* What is recorded has its type, and a sample's status is that of its outcomes.
RecordsInv ==
  /\ samples \in Seq(Samples)
  /\ calibration \in [dimensions : Seq(Int), corrections : Seq(Points),
                      operatingPoints : Seq(Points)]
  /\ qualification \in [points : Tally, assertions : Seq(Tally), status : Statuses]
  /\ phase \in {"start", "evaluate"} =>
       DOMAIN qualification.assertions = DOMAIN program.assertions
  /\ \A i \in DOMAIN samples :
       /\ samples[i].outcomes \in [DOMAIN program.assertions -> BOOLEAN]
       /\ samples[i].status = Status(samples[i].outcomes)

LEMMA RecordsInit == Init => RecordsInv
  <1> SUFFICES ASSUME Init PROVE RecordsInv
    OBVIOUS
  <1>1. \A S : <<>> \in Seq(S)
    OBVIOUS
  <1>2. samples = <<>> /\ phase = "validate" /\ DOMAIN samples = {}
    BY DEF Init
  <1>3. [passed |-> 0, failed |-> 0] \in Tally
    BY DEF Tally
  <1>4. qualification \in [points : Tally, assertions : Seq(Tally), status : Statuses]
    BY <1>1, <1>3 DEF Init, Statuses
  <1>5. calibration \in [dimensions : Seq(Int), corrections : Seq(Points),
                         operatingPoints : Seq(Points)]
    BY <1>1 DEF Init
  <1>6. QED BY <1>1, <1>2, <1>4, <1>5 DEF RecordsInv

\* The outcomes of a point: one of every assertion.
LEMMA OutcomesTyped ==
  ASSUME NEW p \in IrPrograms, NEW outcomes \in [DOMAIN p.assertions -> BOOLEAN]
  PROVE  /\ outcomes \in Seq(BOOLEAN) /\ Status(outcomes) \in Statuses
         /\ outcomes = <<>> <=> p.assertions = <<>>
         /\ Status(outcomes) = IF p.assertions = <<>> THEN "notEvaluated"
                               ELSE IF \A k \in DOMAIN p.assertions : outcomes[k]
                                    THEN "pass" ELSE "fail"
  <1> DEFINE Assertions == [value : Nat, left : Nat, right : Nat, of : ValueTypes]
             n == Len(p.assertions)
  <1>1. p.assertions \in Seq(Assertions)
    BY DEF IrPrograms
  <1>2. n \in Nat /\ DOMAIN p.assertions = 1..n
        /\ (p.assertions = <<>> <=> n = 0)
    <2> HIDE DEF Assertions
    <2>1. QED BY <1>1
  <1> HIDE DEF n
  <1>3. outcomes \in [1..n -> BOOLEAN]
    BY <1>2
  <1>4. outcomes \in Seq(BOOLEAN) /\ Len(outcomes) = n
    BY <1>2, <1>3, FunctionTyped
  <1>5. outcomes = <<>> <=> n = 0
    BY <1>4
  <1>6. DOMAIN outcomes = DOMAIN p.assertions
    OBVIOUS
  <1>7. QED BY <1>2, <1>4, <1>5, <1>6 DEF Status, Statuses

LEMMA TallyTyped ==
  ASSUME NEW tally \in Tally, NEW passed \in BOOLEAN
  PROVE  /\ Count(tally, passed) \in Tally
         /\ Count(tally, passed).passed = tally.passed + IF passed THEN 1 ELSE 0
         /\ Count(tally, passed).failed = tally.failed + IF passed THEN 0 ELSE 1
  <1> DEFINE p == tally.passed  f == tally.failed
  <1>1. tally = [passed |-> p, failed |-> f] /\ p \in Nat /\ f \in Nat
    BY DEF Tally
  <1>2. Count(tally, passed) = IF passed THEN [passed |-> p + 1, failed |-> f]
                                         ELSE [passed |-> p, failed |-> f + 1]
    BY <1>1 DEF Count
  <1> HIDE DEF p, f
  <1>3. CASE passed
    <2>1. Count(tally, passed) = [passed |-> p + 1, failed |-> f]
      BY <1>2, <1>3
    <2>2. Count(tally, passed).passed = p + 1 /\ Count(tally, passed).failed = f
      BY <2>1
    <2>3. Count(tally, passed) \in Tally
      BY <1>1, <2>1 DEF Tally
    <2>4. (IF passed THEN 1 ELSE 0) = 1 /\ (IF passed THEN 0 ELSE 1) = 0
      BY <1>3, Zenon
    <2>5. f = f + 0
      BY <1>1
    <2>6. QED BY <2>2, <2>3, <2>4, <2>5, Zenon DEF p, f
  <1>4. CASE ~passed
    <2>1. Count(tally, passed) = [passed |-> p, failed |-> f + 1]
      BY <1>2, <1>4
    <2>2. Count(tally, passed).passed = p /\ Count(tally, passed).failed = f + 1
      BY <2>1
    <2>3. Count(tally, passed) \in Tally
      BY <1>1, <2>1 DEF Tally
    <2>4. (IF passed THEN 1 ELSE 0) = 0 /\ (IF passed THEN 0 ELSE 1) = 1
      BY <1>4, Zenon
    <2>5. p = p + 0
      BY <1>1
    <2>6. QED BY <2>2, <2>3, <2>4, <2>5, Zenon DEF p, f
  <1>5. QED BY <1>3, <1>4

\* The qualification and its parts.
LEMMA QualificationParts ==
  ASSUME NEW q \in [points : Tally, assertions : Seq(Tally), status : Statuses]
  PROVE  /\ q = [points |-> q.points, assertions |-> q.assertions, status |-> q.status]
         /\ q.points \in Tally /\ q.assertions \in Seq(Tally) /\ q.status \in Statuses
  <1> DEFINE T == Seq(Tally)
  <1>1. q \in [points : Tally, assertions : T, status : Statuses]
    OBVIOUS
  <1> HIDE DEF T
  <1>2. /\ q = [points |-> q.points, assertions |-> q.assertions, status |-> q.status]
        /\ q.points \in Tally /\ q.assertions \in T /\ q.status \in Statuses
    BY <1>1
  <1>3. QED BY <1>2 DEF T

\* What a point adds to the results.
LEMMA PointRecorded ==
  ASSUME IInv, PointsInv, EquipmentTyped, RecordsInv, FinishPoint
  PROVE  \E outcomes \in [DOMAIN program.assertions -> BOOLEAN], sample \in Samples :
           /\ sample.point = coordinates /\ sample.outcomes = outcomes
           /\ sample.status = Status(outcomes)
           /\ samples' = Append(samples, sample)
           /\ Frequency(coordinates) \in Int
           /\ calibration' =
                [dimensions |-> Append(calibration.dimensions, Frequency(coordinates)),
                 corrections |-> Append(calibration.corrections, coordinates),
                 operatingPoints |-> Append(calibration.operatingPoints, coordinates)]
           /\ qualification' =
                [points |-> IF outcomes = <<>> THEN qualification.points
                            ELSE Count(qualification.points, Status(outcomes) = "pass"),
                 assertions |-> [k \in DOMAIN qualification.assertions |->
                                   Count(qualification.assertions[k], outcomes[k])],
                 status |-> qualification.status]
           /\ DOMAIN qualification.assertions = DOMAIN program.assertions
           /\ phase = "evaluate" /\ phase' = "start" /\ program' = program
  <1>1. program \in IrPrograms
    BY ExecutedTyped DEF IInv, ChecksInv
  <1>2. PICK outcomes \in [DOMAIN program.assertions -> BOOLEAN] : Record(outcomes)
    BY DEF FinishPoint
  <1>3. outcomes \in Seq(BOOLEAN) /\ Status(outcomes) \in Statuses
    BY <1>1, OutcomesTyped
  <1> DEFINE observations == [k \in DOMAIN program.measurements |->
                                values[program.measurements[k].value]]
             measured == values[program.measurement]
             status == Status(outcomes)
             sample == [point |-> coordinates, observations |-> observations,
                        measured |-> measured, outcomes |-> outcomes, status |-> status]
  <1>4. DOMAIN values = Ids(program) /\ \A id \in Ids(program) : values[id] \in Settings
    <2>1. Len(values) = Len(program.values) /\ values \in Seq(Settings)
      BY DEF FinishPoint, Evaluated, EquipmentTyped
    <2>2. DOMAIN values = 1..Len(values)
      BY <2>1, SeqIsSeq
    <2>3. QED BY <2>1, <2>2, ElementOf DEF Ids
  <1>5. measured \in Settings
    BY <1>4 DEF FinishPoint, SlotsThere, Has
  <1>6. observations \in Seq(Settings)
    <2>1. Len(program.measurements) \in Nat
          /\ DOMAIN program.measurements = 1..Len(program.measurements)
      BY <1>1, AssembledWellFormed DEF WellFormed, IsSeq
    <2>2. \A k \in DOMAIN program.measurements : program.measurements[k].value \in Ids(program)
      BY DEF FinishPoint, SlotsThere, Has
    <2>3. observations \in [1..Len(program.measurements) -> Settings]
      BY <1>4, <2>1, <2>2
    <2> HIDE DEF observations
    <2>4. QED BY <2>1, <2>3, FunctionTyped
  <1>7. samples' = Append(samples, sample)
    BY <1>2 DEF Record
  <1>8. sample \in Samples /\ sample.point = coordinates /\ sample.outcomes = outcomes
        /\ sample.status = Status(outcomes)
    <2> HIDE DEF observations, measured
    <2>1. status \in Statuses /\ coordinates \in Points
      BY <1>3 DEF EquipmentTyped
    <2>2. sample.status = status
      OBVIOUS
    <2>3. QED BY <1>3, <1>5, <1>6, <2>1, <2>2 DEF Samples
  <1>9. Frequency(coordinates) \in Int
    <2>1. phase = "evaluate"
      BY DEF FinishPoint, Evaluated, Evaluating
    <2>2. QED BY <2>1, FrequencyTyped DEF PointsInv, EquipmentTyped
  <1>10. qualification' =
           [points |-> IF outcomes = <<>> THEN qualification.points
                       ELSE Count(qualification.points, Status(outcomes) = "pass"),
            assertions |-> [k \in DOMAIN qualification.assertions |->
                              Count(qualification.assertions[k], outcomes[k])],
            status |-> qualification.status]
    <2> DEFINE newPoints == IF outcomes = <<>> THEN qualification.points
                            ELSE Count(qualification.points, Status(outcomes) = "pass")
               newAssertions == [k \in DOMAIN qualification.assertions |->
                                   Count(qualification.assertions[k], outcomes[k])]
    <2>1. qualification' = [qualification EXCEPT !.points = newPoints,
                                                 !.assertions = newAssertions]
      BY <1>2 DEF Record
    <2>2. qualification = [points |-> qualification.points,
                           assertions |-> qualification.assertions,
                           status |-> qualification.status]
      BY QualificationParts DEF RecordsInv
    <2> HIDE DEF newPoints, newAssertions
    <2>3. qualification' = [points |-> newPoints, assertions |-> newAssertions,
                            status |-> qualification.status]
      BY <2>1, <2>2
    <2>4. QED BY <2>3 DEF newPoints, newAssertions
  <1>11. calibration' =
           [dimensions |-> Append(calibration.dimensions, Frequency(coordinates)),
            corrections |-> Append(calibration.corrections, coordinates),
            operatingPoints |-> Append(calibration.operatingPoints, coordinates)]
    BY <1>2 DEF Record
  <1>12. phase = "evaluate" /\ phase' = "start" /\ program' = program
    BY DEF FinishPoint, Evaluated, Evaluating
  <1>13. DOMAIN qualification.assertions = DOMAIN program.assertions
    BY <1>12 DEF RecordsInv
  <1> HIDE DEF sample
  <1>14. QED BY <1>7, <1>8, <1>9, <1>10, <1>11, <1>12, <1>13

LEMMA RecordsStep ==
  ASSUME IInv, PointsInv, EquipmentTyped, RecordsInv, [Next]_vars
  PROVE  RecordsInv'
  <1>1. program \in IrPrograms
    BY ExecutedTyped DEF IInv, ChecksInv
  <1>2. CASE Preflight
    <2> DEFINE zero == [passed |-> 0, failed |-> 0]
               assertions == [k \in DOMAIN program.assertions |-> zero]
    <2>1. UNCHANGED <<program, samples, calibration>> /\ phase = "preflight"
      BY <1>2 DEF Preflight
    <2>2. zero \in Tally
      BY DEF Tally
    <2>3. Len(program.assertions) \in Nat
          /\ DOMAIN program.assertions = 1..Len(program.assertions)
      <3> DEFINE Assertions == [value : Nat, left : Nat, right : Nat, of : ValueTypes]
      <3>1. program.assertions \in Seq(Assertions)
        BY <1>1 DEF IrPrograms
      <3> HIDE DEF Assertions
      <3>2. QED BY <3>1
    <2>4. assertions \in Seq(Tally) /\ DOMAIN assertions = DOMAIN program.assertions
      <3> HIDE DEF zero
      <3>1. assertions \in [1..Len(program.assertions) -> Tally]
        BY <2>2, <2>3
      <3>2. DOMAIN assertions = DOMAIN program.assertions
        OBVIOUS
      <3> HIDE DEF assertions
      <3>3. QED BY <2>3, <3>1, <3>2, FunctionTyped
    <2>5. /\ qualification' \in [points : Tally, assertions : Seq(Tally), status : Statuses]
          /\ phase' \in {"start", "evaluate"} =>
               DOMAIN qualification'.assertions = DOMAIN program.assertions
      <3>1. CASE Required \subseteq devices
        <4>1. qualification' = [qualification EXCEPT !.assertions = assertions]
          BY <1>2, <3>1 DEF Preflight
        <4>2. /\ qualification = [points |-> qualification.points,
                                  assertions |-> qualification.assertions,
                                  status |-> qualification.status]
              /\ qualification.points \in Tally /\ qualification.status \in Statuses
          BY QualificationParts DEF RecordsInv
        <4> HIDE DEF assertions
        <4>3. qualification' = [points |-> qualification.points, assertions |-> assertions,
                                status |-> qualification.status]
          BY <4>1, <4>2
        <4>4. QED BY <2>4, <4>2, <4>3
      <3>2. CASE ~(Required \subseteq devices)
        <4>1. phase' = "rejected" /\ qualification' = qualification
          BY <1>2, <3>2 DEF Preflight
        <4>2. QED BY <4>1 DEF RecordsInv
      <3>3. QED BY <3>1, <3>2
    <2>6. QED BY <2>1, <2>5 DEF RecordsInv
  <1>3. CASE FinishPoint
    <2>1. PICK outcomes \in [DOMAIN program.assertions -> BOOLEAN], sample \in Samples :
            /\ sample.point = coordinates /\ sample.outcomes = outcomes
            /\ sample.status = Status(outcomes)
            /\ samples' = Append(samples, sample)
            /\ Frequency(coordinates) \in Int
            /\ calibration' =
                 [dimensions |-> Append(calibration.dimensions, Frequency(coordinates)),
                  corrections |-> Append(calibration.corrections, coordinates),
                  operatingPoints |-> Append(calibration.operatingPoints, coordinates)]
            /\ qualification' =
                 [points |-> IF outcomes = <<>> THEN qualification.points
                             ELSE Count(qualification.points, Status(outcomes) = "pass"),
                  assertions |-> [k \in DOMAIN qualification.assertions |->
                                    Count(qualification.assertions[k], outcomes[k])],
                  status |-> qualification.status]
            /\ DOMAIN qualification.assertions = DOMAIN program.assertions
            /\ phase = "evaluate" /\ phase' = "start" /\ program' = program
      BY <1>3, PointRecorded
    <2>2. samples \in Seq(Samples)
      BY DEF RecordsInv
    <2>3. samples' \in Seq(Samples)
      BY <2>1, <2>2, AppendTyped
    <2>4. \A i \in DOMAIN samples' :
            /\ samples'[i].outcomes \in [DOMAIN program.assertions -> BOOLEAN]
            /\ samples'[i].status = Status(samples'[i].outcomes)
      <3>1. IsSeq(samples)
        BY <2>2, SeqIsSeq
      <3>2. /\ DOMAIN samples = 1..Len(samples) /\ Len(samples) \in Nat
            /\ DOMAIN samples' = 1..(Len(samples) + 1)
            /\ \A i \in 1..Len(samples) : samples'[i] = samples[i]
            /\ samples'[Len(samples) + 1] = sample
        BY <2>1, <3>1, AppendIsSeq DEF IsSeq
      <3>3. ASSUME NEW i \in DOMAIN samples'
            PROVE  /\ samples'[i].outcomes \in [DOMAIN program.assertions -> BOOLEAN]
                   /\ samples'[i].status = Status(samples'[i].outcomes)
        <4>1. CASE i \in DOMAIN samples
          BY <3>2, <4>1 DEF RecordsInv
        <4>2. CASE i \notin DOMAIN samples
          <5>1. samples'[i] = sample
            BY <3>2, <4>2
          <5>2. QED BY <2>1, <5>1
        <4>3. QED BY <4>1, <4>2
      <3>4. QED BY <3>3
    <2>5. calibration' \in [dimensions : Seq(Int), corrections : Seq(Points),
                            operatingPoints : Seq(Points)]
      <3> DEFINE d == Append(calibration.dimensions, Frequency(coordinates))
                 c == Append(calibration.corrections, coordinates)
                 o == Append(calibration.operatingPoints, coordinates)
                 SI == Seq(Int)
                 SP == Seq(Points)
      <3>1. calibration \in [dimensions : SI, corrections : SP, operatingPoints : SP]
        BY DEF RecordsInv
      <3>2. /\ calibration.dimensions \in SI /\ calibration.corrections \in SP
            /\ calibration.operatingPoints \in SP
        <4> HIDE DEF SI, SP
        <4>1. QED BY <3>1
      <3>3. d \in SI
        BY <2>1, <3>2, AppendTyped
      <3>4. c \in SP /\ o \in SP
        BY <3>2, AppendTyped DEF EquipmentTyped
      <3>5. calibration' = [dimensions |-> d, corrections |-> c, operatingPoints |-> o]
        BY <2>1
      <3> HIDE DEF d, c, o
      <3>6. QED BY <3>3, <3>4, <3>5
    <2>6. /\ qualification' \in [points : Tally, assertions : Seq(Tally), status : Statuses]
          /\ DOMAIN qualification'.assertions = DOMAIN program.assertions
      <3> DEFINE q == qualification
                 newPoints == IF outcomes = <<>> THEN q.points
                              ELSE Count(q.points, Status(outcomes) = "pass")
                 newAssertions == [k \in DOMAIN q.assertions |->
                                     Count(q.assertions[k], outcomes[k])]
      <3>1. q.points \in Tally /\ q.assertions \in Seq(Tally) /\ q.status \in Statuses
        BY QualificationParts DEF RecordsInv
      <3>2. newPoints \in Tally
        <4>1. (Status(outcomes) = "pass") \in BOOLEAN
          OBVIOUS
        <4>2. Count(q.points, Status(outcomes) = "pass") \in Tally
          BY <3>1, <4>1, TallyTyped
        <4>3. QED BY <3>1, <4>2
      <3>3. newAssertions \in Seq(Tally) /\ DOMAIN newAssertions = DOMAIN program.assertions
        <4>1. DOMAIN q.assertions = 1..Len(q.assertions) /\ Len(q.assertions) \in Nat
              /\ \A k \in DOMAIN q.assertions : q.assertions[k] \in Tally
          BY <3>1, SeqIsSeq, ElementOf DEF IsSeq
        <4>2. \A k \in DOMAIN q.assertions : outcomes[k] \in BOOLEAN
          BY <2>1
        <4>3. \A k \in DOMAIN q.assertions : Count(q.assertions[k], outcomes[k]) \in Tally
          BY <4>1, <4>2, TallyTyped
        <4>4. newAssertions \in [1..Len(q.assertions) -> Tally]
          BY <4>1, <4>3
        <4>5. DOMAIN newAssertions = DOMAIN program.assertions
          BY <2>1
        <4> HIDE DEF newAssertions
        <4>6. QED BY <4>1, <4>4, <4>5, FunctionTyped
      <3>4. q' = [points |-> newPoints, assertions |-> newAssertions, status |-> q.status]
        BY <2>1
      <3> HIDE DEF newPoints, newAssertions
      <3>5. QED BY <3>1, <3>2, <3>3, <3>4
    <2>7. QED BY <2>1, <2>3, <2>4, <2>5, <2>6 DEF RecordsInv
  <1>4. CASE Finish
    <2> DEFINE status == IF program.assertions = <<>> THEN "notEvaluated"
                         ELSE IF qualification.points.failed = 0 THEN "pass" ELSE "fail"
    <2>1. /\ UNCHANGED <<program, samples, calibration>> /\ phase' = "done"
          /\ qualification' = [qualification EXCEPT !.status = status]
      BY <1>4 DEF Finish
    <2>2. status \in Statuses
      BY DEF Statuses
    <2>3. /\ qualification = [points |-> qualification.points,
                              assertions |-> qualification.assertions,
                              status |-> qualification.status]
          /\ qualification.points \in Tally /\ qualification.assertions \in Seq(Tally)
      BY QualificationParts DEF RecordsInv
    <2> HIDE DEF status
    <2>4. qualification' = [points |-> qualification.points,
                            assertions |-> qualification.assertions, status |-> status]
      BY <2>1, <2>3
    <2>5. qualification' \in [points : Tally, assertions : Seq(Tally), status : Statuses]
      BY <2>2, <2>3, <2>4
    <2>6. QED BY <2>1, <2>5 DEF RecordsInv
  <1>5. CASE \/ RejectInvalid \/ Validate \/ PlanSweep \/ CheckProduct \/ StartPoint
             \/ SetControl \/ SetOutputPower \/ Measure \/ Compute \/ EquipmentThrows
             \/ ReadMissing \/ FailPoint \/ UNCHANGED vars
    <2>1. /\ UNCHANGED <<program, samples, calibration, qualification>>
          /\ \/ phase' = phase \/ phase' \notin {"start", "evaluate"} \/ phase = "start"
      BY <1>5 DEF RejectInvalid, Validate, PlanSweep, CheckProduct, StartPoint, SetControl,
                  SetOutputPower, Measure, Compute, EquipmentThrows, ReadMissing, FailPoint,
                  vars, artifacts
    <2>2. QED BY <2>1 DEF RecordsInv
  <1>6. QED BY <1>2, <1>3, <1>4, <1>5 DEF Next

-----------------------------------------------------------------------------
(* The counts of the qualification and the entries of the calibration.     *)

\* The samples whose k-th assertion passed or failed, and those of a status.
PassedIn(k) == {i \in DOMAIN samples : samples[i].outcomes[k]}
FailedIn(k) == {i \in DOMAIN samples : ~samples[i].outcomes[k]}
PointsOf(status) == {i \in DOMAIN samples : samples[i].status = status}

AgreeInv ==
  /\ \A k \in DOMAIN qualification.assertions :
       /\ qualification.assertions[k].passed = Cardinality(PassedIn(k))
       /\ qualification.assertions[k].failed = Cardinality(FailedIn(k))
  /\ qualification.points.passed = Cardinality(PointsOf("pass"))
  /\ qualification.points.failed = Cardinality(PointsOf("fail"))
  /\ phase = "done" =>
       qualification.status =
         IF program.assertions = <<>> THEN "notEvaluated"
         ELSE IF \A i \in DOMAIN samples, k \in DOMAIN program.assertions :
                   samples[i].outcomes[k]
              THEN "pass" ELSE "fail"
  /\ calibration.operatingPoints = [i \in DOMAIN samples |-> samples[i].point]
  /\ calibration.corrections = [i \in DOMAIN samples |-> samples[i].point]
  /\ calibration.dimensions = [i \in DOMAIN samples |-> Frequency(samples[i].point)]

LEMMA AgreeInit == Init => AgreeInv
  <1> SUFFICES ASSUME Init PROVE AgreeInv
    OBVIOUS
  <1>1. samples = <<>> /\ DOMAIN samples = {} /\ phase = "validate"
    BY DEF Init
  <1>2. PointsOf("pass") = {} /\ PointsOf("fail") = {} /\ Cardinality({}) = 0
    BY <1>1, FS_EmptySet DEF PointsOf
  <1>3. /\ qualification.points.passed = 0 /\ qualification.points.failed = 0
        /\ qualification.assertions = <<>> /\ DOMAIN qualification.assertions = {}
    BY DEF Init
  <1>4. /\ calibration.operatingPoints = <<>> /\ calibration.corrections = <<>>
        /\ calibration.dimensions = <<>>
    BY DEF Init
  <1>5. /\ [i \in DOMAIN samples |-> samples[i].point] = <<>>
        /\ [i \in DOMAIN samples |-> Frequency(samples[i].point)] = <<>>
    BY <1>1
  <1>6. /\ Cardinality(PointsOf("pass")) = 0 /\ Cardinality(PointsOf("fail")) = 0
    BY <1>2, Zenon
  <1>7. QED BY <1>1, <1>3, <1>4, <1>5, <1>6 DEF AgreeInv

LEMMA CountGrows ==
  ASSUME NEW n \in Nat, NEW A \in SUBSET (1..n), NEW b \in BOOLEAN
  PROVE  /\ Cardinality(A) \in Nat
         /\ Cardinality(A \cup IF b THEN {n + 1} ELSE {}) =
              Cardinality(A) + IF b THEN 1 ELSE 0
  <1>1. IsFiniteSet(A)
    <2>1. IsFiniteSet(1..n)
      BY FS_Interval
    <2>2. QED BY <2>1, FS_Subset
  <1>2. Cardinality(A) \in Nat
    BY <1>1, FS_CardinalityType
  <1>3. n + 1 \notin A
    OBVIOUS
  <1>4. CASE b
    <2>1. Cardinality(A \cup {n + 1}) = Cardinality(A) + 1
      BY <1>1, <1>3, FS_AddElement
    <2>2. (IF b THEN {n + 1} ELSE {}) = {n + 1} /\ (IF b THEN 1 ELSE 0) = 1
      BY <1>4, Zenon
    <2>3. QED BY <1>2, <2>1, <2>2, Zenon
  <1>5. CASE ~b
    <2>1. A \cup {} = A /\ Cardinality(A) = Cardinality(A) + 0
      <3>1. \A x \in Nat : x = x + 0
        OBVIOUS
      <3>2. QED BY <1>2, <3>1
    <2>2. (IF b THEN {n + 1} ELSE {}) = {} /\ (IF b THEN 1 ELSE 0) = 0
      BY <1>5, Zenon
    <2>3. QED BY <1>2, <2>1, <2>2, Zenon
  <1>6. QED BY <1>4, <1>5

LEMMA EntryAppended ==
  ASSUME NEW n \in Nat, NEW f, f = [i \in 1..(n + 1) |-> f[i]]
  PROVE  Append([i \in 1..n |-> f[i]], f[n + 1]) = f
  <1> DEFINE v == [i \in 1..n |-> f[i]]
             w == Append(v, f[n + 1])
  <1>1. IsSeq(v) /\ Len(v) = n
    <2>1. v = [i \in 1..n |-> v[i]]
      OBVIOUS
    <2> HIDE DEF v
    <2>2. QED BY <2>1, FunctionIsSeq
  <1>2. \A i \in 1..n : v[i] = f[i]
    OBVIOUS
  <1> HIDE DEF v
  <1>3. /\ IsSeq(w) /\ Len(w) = n + 1
        /\ \A i \in 1..n : w[i] = v[i]
        /\ w[n + 1] = f[n + 1]
    BY <1>1, AppendIsSeq
  <1> HIDE DEF w
  <1>4. w = [i \in 1..(n + 1) |-> w[i]]
    BY <1>3 DEF IsSeq
  <1>5. ASSUME NEW i \in 1..(n + 1) PROVE w[i] = f[i]
    <2>1. CASE i = n + 1
      BY <1>3, <2>1
    <2>2. CASE i \in 1..n
      BY <1>2, <1>3, <2>2
    <2>3. QED BY <2>1, <2>2
  <1>6. w = f
    <2> DEFINE g == [i \in 1..(n + 1) |-> f[i]]
    <2>1. w = g
      BY <1>4, <1>5
    <2>2. f = g
      OBVIOUS
    <2> HIDE DEF g
    <2>3. QED BY <2>1, <2>2
  <1>7. QED BY <1>6 DEF w, v

\* One sample more: a count grows by one when the sample is one of the counted.
LEMMA PointCounted ==
  ASSUME IInv, PointsInv, EquipmentTyped, RecordsInv, AgreeInv, FinishPoint
  PROVE  AgreeInv'
  <1> DEFINE n == Len(samples)
             q == qualification
  <1>1. PICK outcomes \in [DOMAIN program.assertions -> BOOLEAN], sample \in Samples :
          /\ sample.point = coordinates /\ sample.outcomes = outcomes
          /\ sample.status = Status(outcomes)
          /\ samples' = Append(samples, sample)
          /\ Frequency(coordinates) \in Int
          /\ calibration' =
               [dimensions |-> Append(calibration.dimensions, Frequency(coordinates)),
                corrections |-> Append(calibration.corrections, coordinates),
                operatingPoints |-> Append(calibration.operatingPoints, coordinates)]
          /\ qualification' =
               [points |-> IF outcomes = <<>> THEN qualification.points
                           ELSE Count(qualification.points, Status(outcomes) = "pass"),
                assertions |-> [k \in DOMAIN qualification.assertions |->
                                  Count(qualification.assertions[k], outcomes[k])],
                status |-> qualification.status]
          /\ DOMAIN qualification.assertions = DOMAIN program.assertions
          /\ phase = "evaluate" /\ phase' = "start" /\ program' = program
    BY PointRecorded
  <1>2. IsSeq(samples) /\ n \in Nat
    BY DEF IInv, PointInv, IsSeq
  <1>3. /\ DOMAIN samples = 1..n /\ DOMAIN samples' = 1..(n + 1)
        /\ \A i \in 1..n : samples'[i] = samples[i]
        /\ samples'[n + 1] = sample
    BY <1>1, <1>2, AppendIsSeq
  <1> HIDE DEF n
  <1>4. q.points \in Tally /\ q.assertions \in Seq(Tally)
    BY QualificationParts DEF RecordsInv
  <1>5. ASSUME NEW k \in DOMAIN program.assertions
        PROVE  /\ q'.assertions[k].passed = Cardinality(PassedIn(k)')
               /\ q'.assertions[k].failed = Cardinality(FailedIn(k)')
    <2> DEFINE b == outcomes[k]  c == ~outcomes[k]
    <2>1. b \in BOOLEAN /\ c \in BOOLEAN
      OBVIOUS
    <2>2. /\ PassedIn(k) \in SUBSET (1..n) /\ FailedIn(k) \in SUBSET (1..n)
      BY <1>3 DEF PassedIn, FailedIn
    <2>3. PassedIn(k)' = PassedIn(k) \cup IF b THEN {n + 1} ELSE {}
      <3>1. PassedIn(k)' = {i \in 1..(n + 1) : samples'[i].outcomes[k]}
        BY <1>3 DEF PassedIn
      <3>2. PassedIn(k) = {i \in 1..n : samples'[i].outcomes[k]}
        BY <1>3 DEF PassedIn
      <3>3. samples'[n + 1].outcomes[k] = b
        BY <1>1, <1>3
      <3>4. QED BY <1>2, <3>1, <3>2, <3>3
    <2>4. FailedIn(k)' = FailedIn(k) \cup IF c THEN {n + 1} ELSE {}
      <3>1. FailedIn(k)' = {i \in 1..(n + 1) : ~samples'[i].outcomes[k]}
        BY <1>3 DEF FailedIn
      <3>2. FailedIn(k) = {i \in 1..n : ~samples'[i].outcomes[k]}
        BY <1>3 DEF FailedIn
      <3>3. samples'[n + 1].outcomes[k] = b
        BY <1>1, <1>3
      <3>4. QED BY <1>2, <3>1, <3>2, <3>3
    <2>5. q.assertions[k] \in Tally
      BY <1>1, <1>4, ElementOf
    <2>6. q'.assertions[k] = Count(q.assertions[k], b)
      BY <1>1
    <2>7. /\ q'.assertions[k].passed = q.assertions[k].passed + IF b THEN 1 ELSE 0
          /\ q'.assertions[k].failed = q.assertions[k].failed + IF b THEN 0 ELSE 1
      BY <2>1, <2>5, <2>6, TallyTyped
    <2>8. /\ q.assertions[k].passed = Cardinality(PassedIn(k))
          /\ q.assertions[k].failed = Cardinality(FailedIn(k))
      BY <1>1 DEF AgreeInv
    <2>9. (IF b THEN 0 ELSE 1) = (IF c THEN 1 ELSE 0)
      OBVIOUS
    <2>10. Cardinality(PassedIn(k)') = Cardinality(PassedIn(k)) + IF b THEN 1 ELSE 0
      <3> DEFINE A == PassedIn(k)
      <3>1. A \in SUBSET (1..n)
        BY <2>2
      <3> HIDE DEF b, A
      <3>2. Cardinality(A \cup IF b THEN {n + 1} ELSE {}) =
              Cardinality(A) + IF b THEN 1 ELSE 0
        BY <1>2, <2>1, <3>1, CountGrows
      <3>3. QED BY <2>3, <3>2, Zenon DEF A
    <2>11. Cardinality(FailedIn(k)') = Cardinality(FailedIn(k)) + IF c THEN 1 ELSE 0
      <3> DEFINE A == FailedIn(k)
      <3>1. A \in SUBSET (1..n)
        BY <2>2
      <3> HIDE DEF c, A
      <3>2. Cardinality(A \cup IF c THEN {n + 1} ELSE {}) =
              Cardinality(A) + IF c THEN 1 ELSE 0
        BY <1>2, <2>1, <3>1, CountGrows
      <3>3. QED BY <2>4, <3>2, Zenon DEF A
    <2> HIDE DEF b, c, q
    <2>12. QED BY <2>7, <2>8, <2>9, <2>10, <2>11
  <1>6. /\ q'.points.passed = Cardinality(PointsOf("pass")')
        /\ q'.points.failed = Cardinality(PointsOf("fail")')
    <2> DEFINE st == Status(outcomes)
               b == st = "pass"
               c == st = "fail"
    <2>1. b \in BOOLEAN /\ c \in BOOLEAN
      OBVIOUS
    <2>2. \A status : PointsOf(status) \in SUBSET (1..n)
      BY <1>3 DEF PointsOf
    <2>3. samples'[n + 1].status = st
      BY <1>1, <1>3
    <2>4. ASSUME NEW status
          PROVE  PointsOf(status)' = PointsOf(status) \cup IF st = status THEN {n + 1} ELSE {}
      <3> HIDE DEF st
      <3>1. PointsOf(status)' = {i \in 1..(n + 1) : samples'[i].status = status}
        BY <1>3 DEF PointsOf
      <3>2. PointsOf(status) = {i \in 1..n : samples'[i].status = status}
        BY <1>3 DEF PointsOf
      <3>3. QED BY <1>2, <2>3, <3>1, <3>2
    <2>5. /\ Cardinality(PointsOf("pass")') = Cardinality(PointsOf("pass")) + IF b THEN 1 ELSE 0
          /\ Cardinality(PointsOf("pass")) \in Nat
      <3>1. PointsOf("pass")' = PointsOf("pass") \cup IF b THEN {n + 1} ELSE {}
        BY <2>4
      <3>2. PointsOf("pass") \in SUBSET (1..n)
        BY <2>2
      <3> DEFINE A == PointsOf("pass")
      <3> HIDE DEF b
      <3>3. A \in SUBSET (1..n)
        BY <3>2
      <3> HIDE DEF A
      <3>4. /\ Cardinality(A \cup IF b THEN {n + 1} ELSE {}) =
                 Cardinality(A) + IF b THEN 1 ELSE 0
            /\ Cardinality(A) \in Nat
        BY <1>2, <2>1, <3>3, CountGrows
      <3>5. QED BY <3>1, <3>4, Zenon DEF A
    <2>6. /\ Cardinality(PointsOf("fail")') = Cardinality(PointsOf("fail")) + IF c THEN 1 ELSE 0
          /\ Cardinality(PointsOf("fail")) \in Nat
      <3>1. PointsOf("fail")' = PointsOf("fail") \cup IF c THEN {n + 1} ELSE {}
        BY <2>4
      <3>2. PointsOf("fail") \in SUBSET (1..n)
        BY <2>2
      <3> DEFINE A == PointsOf("fail")
      <3> HIDE DEF c
      <3>3. A \in SUBSET (1..n)
        BY <3>2
      <3> HIDE DEF A
      <3>4. /\ Cardinality(A \cup IF c THEN {n + 1} ELSE {}) =
                 Cardinality(A) + IF c THEN 1 ELSE 0
            /\ Cardinality(A) \in Nat
        BY <1>2, <2>1, <3>3, CountGrows
      <3>5. QED BY <3>1, <3>4, Zenon DEF A
    <2>7. /\ q.points.passed = Cardinality(PointsOf("pass"))
          /\ q.points.failed = Cardinality(PointsOf("fail"))
      BY DEF AgreeInv
    <2>8. CASE outcomes = <<>>
      <3>1. ~b /\ ~c
        BY <2>8 DEF Status
      <3>2. q'.points = q.points
        BY <1>1, <2>8
      <3>3. \A x \in Nat : x + 0 = x
        OBVIOUS
      <3>4. (IF b THEN 1 ELSE 0) = 0 /\ (IF c THEN 1 ELSE 0) = 0
        BY <3>1, Zenon
      <3> HIDE DEF b, c, q
      <3>5. QED BY <2>5, <2>6, <2>7, <3>2, <3>3, <3>4
    <2>9. CASE outcomes # <<>>
      <3>1. c <=> ~b
        BY <2>9 DEF Status
      <3>2. q'.points = Count(q.points, b)
        BY <1>1, <2>9
      <3>3. /\ q'.points.passed = q.points.passed + IF b THEN 1 ELSE 0
            /\ q'.points.failed = q.points.failed + IF b THEN 0 ELSE 1
        BY <1>4, <2>1, <3>2, TallyTyped
      <3>4. (IF b THEN 0 ELSE 1) = (IF c THEN 1 ELSE 0)
        BY <3>1, Zenon
      <3> HIDE DEF b, c, q
      <3>5. QED BY <2>5, <2>6, <2>7, <3>3, <3>4
    <2>10. QED BY <2>8, <2>9
  <1> DEFINE pts == [i \in 1..(n + 1) |-> samples'[i].point]
             freqs == [i \in 1..(n + 1) |-> Frequency(samples'[i].point)]
  <1>7. /\ Append([i \in 1..n |-> samples[i].point], coordinates) = pts
        /\ Append([i \in 1..n |-> Frequency(samples[i].point)], Frequency(coordinates)) = freqs
    <2>1. pts = [i \in 1..(n + 1) |-> pts[i]] /\ freqs = [i \in 1..(n + 1) |-> freqs[i]]
      OBVIOUS
    <2>2. n + 1 \in 1..(n + 1)
      BY <1>2
    <2>3. pts[n + 1] = coordinates /\ freqs[n + 1] = Frequency(coordinates)
      BY <1>1, <1>3, <2>2
    <2>4. /\ [i \in 1..n |-> samples[i].point] = [i \in 1..n |-> pts[i]]
          /\ [i \in 1..n |-> Frequency(samples[i].point)] = [i \in 1..n |-> freqs[i]]
      <3>1. \A i \in 1..n : i \in 1..(n + 1)
        BY <1>2
      <3>2. \A i \in 1..n : /\ pts[i] = samples[i].point
                            /\ freqs[i] = Frequency(samples[i].point)
        BY <1>3, <3>1
      <3> HIDE DEF pts, freqs
      <3>3. QED BY <3>2
    <2> HIDE DEF pts, freqs
    <2>5. /\ Append([i \in 1..n |-> pts[i]], pts[n + 1]) = pts
          /\ Append([i \in 1..n |-> freqs[i]], freqs[n + 1]) = freqs
      BY <1>2, <2>1, EntryAppended
    <2>6. QED BY <2>3, <2>4, <2>5
  <1>8. \A pt : Frequency(pt)' = Frequency(pt)
    BY DEF Frequency
  <1>9. /\ calibration'.operatingPoints = pts /\ calibration'.corrections = pts
        /\ calibration'.dimensions = freqs
    <2>1. /\ calibration.operatingPoints = [i \in 1..n |-> samples[i].point]
          /\ calibration.corrections = [i \in 1..n |-> samples[i].point]
          /\ calibration.dimensions = [i \in 1..n |-> Frequency(samples[i].point)]
      BY <1>3 DEF AgreeInv
    <2>2. /\ calibration'.operatingPoints = Append(calibration.operatingPoints, coordinates)
          /\ calibration'.corrections = Append(calibration.corrections, coordinates)
          /\ calibration'.dimensions = Append(calibration.dimensions, Frequency(coordinates))
      BY <1>1
    <2> HIDE DEF pts, freqs
    <2>3. QED BY <1>7, <2>1, <2>2
  <1>10. /\ pts = [i \in DOMAIN samples' |-> samples'[i].point]
         /\ freqs = [i \in DOMAIN samples' |-> Frequency(samples'[i].point)]
    BY <1>3
  <1>11. DOMAIN q'.assertions = DOMAIN program.assertions
    BY <1>1
  <1> HIDE DEF pts, freqs, q
  <1>12. phase' # "done"
    BY <1>1
  <1>13. QED BY <1>5, <1>6, <1>8, <1>9, <1>10, <1>11, <1>12 DEF AgreeInv, q

\* No point failed exactly when every assertion passed at every point.
LEMMA VerdictIsRight ==
  ASSUME IInv, RecordsInv, AgreeInv, program.assertions # <<>>
  PROVE  qualification.points.failed = 0 <=>
           \A i \in DOMAIN samples, k \in DOMAIN program.assertions : samples[i].outcomes[k]
  <1>1. program \in IrPrograms
    BY ExecutedTyped DEF IInv, ChecksInv
  <1>2. ASSUME NEW i \in DOMAIN samples
        PROVE  samples[i].status = "fail" <=>
                 ~(\A k \in DOMAIN program.assertions : samples[i].outcomes[k])
    <2>1. /\ samples[i].outcomes \in [DOMAIN program.assertions -> BOOLEAN]
          /\ samples[i].status = Status(samples[i].outcomes)
      BY DEF RecordsInv
    <2>2. Status(samples[i].outcomes) =
            IF \A k \in DOMAIN program.assertions : samples[i].outcomes[k]
            THEN "pass" ELSE "fail"
      BY <1>1, <2>1, OutcomesTyped
    <2>3. QED BY <2>1, <2>2
  <1>3. IsFiniteSet(PointsOf("fail"))
    <2>1. Len(samples) \in Nat /\ DOMAIN samples = 1..Len(samples)
      <3>1. IsSeq(samples)
        BY DEF IInv, PointInv
      <3>2. QED BY <3>1 DEF IsSeq
    <2>2. IsFiniteSet(1..Len(samples))
      BY <2>1, FS_Interval
    <2>3. PointsOf("fail") \in SUBSET (1..Len(samples))
      BY <2>1 DEF PointsOf
    <2>4. QED BY <2>2, <2>3, FS_Subset
  <1>4. qualification.points.failed = Cardinality(PointsOf("fail"))
    BY DEF AgreeInv
  <1>5. qualification.points.failed = 0 <=> PointsOf("fail") = {}
    BY <1>3, <1>4, FS_EmptySet
  <1>6. PointsOf("fail") = {} <=> \A i \in DOMAIN samples : samples[i].status # "fail"
    BY DEF PointsOf
  <1>7. QED BY <1>2, <1>5, <1>6

LEMMA AgreeStep ==
  ASSUME IInv, PointsInv, EquipmentTyped, RecordsInv, AgreeInv, [Next]_vars
  PROVE  AgreeInv'
  <1>1. CASE FinishPoint
    BY <1>1, PointCounted
  <1>2. \A pt : Frequency(pt)' = Frequency(pt)
    BY DEF Frequency
  <1>3. ASSUME UNCHANGED samples
        PROVE  /\ \A k : PassedIn(k)' = PassedIn(k) /\ FailedIn(k)' = FailedIn(k)
               /\ \A status : PointsOf(status)' = PointsOf(status)
    BY <1>3 DEF PassedIn, FailedIn, PointsOf
  <1>4. CASE Preflight
    <2>1. UNCHANGED <<program, samples, calibration>> /\ phase' # "done"
          /\ phase = "preflight"
      BY <1>4 DEF Preflight
    <2>2. samples = <<>> /\ DOMAIN samples = {}
      BY <2>1 DEF PointsInv, Untouched
    <2>3. \A k : PassedIn(k)' = {} /\ FailedIn(k)' = {}
      BY <2>1, <2>2 DEF PassedIn, FailedIn
    <2>4. \A k : Cardinality(PassedIn(k)') = 0 /\ Cardinality(FailedIn(k)') = 0
      BY <2>3, FS_EmptySet
    <2>5. /\ \A k \in DOMAIN qualification'.assertions :
               /\ qualification'.assertions[k].passed = Cardinality(PassedIn(k)')
               /\ qualification'.assertions[k].failed = Cardinality(FailedIn(k)')
          /\ qualification'.points = qualification.points
      <3>1. CASE Required \subseteq devices
        <4> DEFINE zero == [passed |-> 0, failed |-> 0]
                   assertions == [k \in DOMAIN program.assertions |-> zero]
        <4>1. qualification' = [qualification EXCEPT !.assertions = assertions]
          BY <1>4, <3>1 DEF Preflight
        <4>2. qualification = [points |-> qualification.points,
                               assertions |-> qualification.assertions,
                               status |-> qualification.status]
          BY QualificationParts DEF RecordsInv
        <4>3. zero.passed = 0 /\ zero.failed = 0
          OBVIOUS
        <4> HIDE DEF zero
        <4>4. \A k \in DOMAIN assertions : assertions[k] = zero
          OBVIOUS
        <4> HIDE DEF assertions
        <4>5. qualification'.assertions = assertions
              /\ qualification'.points = qualification.points
          BY <4>1, <4>2
        <4>6. QED BY <2>4, <4>3, <4>4, <4>5
      <3>2. CASE ~(Required \subseteq devices)
        <4>1. qualification' = qualification
          BY <1>4, <3>2 DEF Preflight
        <4>2. \A k : PassedIn(k)' = PassedIn(k) /\ FailedIn(k)' = FailedIn(k)
          BY <1>3, <2>1
        <4>3. QED BY <4>1, <4>2 DEF AgreeInv
      <3>3. QED BY <3>1, <3>2
    <2>6. /\ PointsOf("pass")' = PointsOf("pass") /\ PointsOf("fail")' = PointsOf("fail")
      BY <1>3, <2>1
    <2>7. /\ [i \in DOMAIN samples' |-> samples'[i].point] =
               [i \in DOMAIN samples |-> samples[i].point]
          /\ [i \in DOMAIN samples' |-> Frequency(samples'[i].point)] =
               [i \in DOMAIN samples |-> Frequency(samples[i].point)]
      BY <2>1
    <2>8. QED BY <1>2, <2>1, <2>5, <2>6, <2>7 DEF AgreeInv
  <1>5. CASE Finish
    <2> DEFINE status == IF program.assertions = <<>> THEN "notEvaluated"
                         ELSE IF qualification.points.failed = 0 THEN "pass" ELSE "fail"
    <2>1. /\ UNCHANGED <<program, samples, calibration>> /\ phase' = "done"
          /\ qualification' = [qualification EXCEPT !.status = status]
      BY <1>5 DEF Finish
    <2>2. qualification = [points |-> qualification.points,
                           assertions |-> qualification.assertions,
                           status |-> qualification.status]
      BY QualificationParts DEF RecordsInv
    <2>3. /\ qualification'.status = status /\ qualification'.points = qualification.points
          /\ qualification'.assertions = qualification.assertions
      <3> HIDE DEF status
      <3>1. QED BY <2>1, <2>2
    <2>4. status = IF program.assertions = <<>> THEN "notEvaluated"
                   ELSE IF \A i \in DOMAIN samples, k \in DOMAIN program.assertions :
                             samples[i].outcomes[k]
                        THEN "pass" ELSE "fail"
      <3>1. CASE program.assertions = <<>>
        BY <3>1
      <3>2. CASE program.assertions # <<>>
        BY <3>2, VerdictIsRight
      <3>3. QED BY <3>1, <3>2
    <2>5. /\ \A k : PassedIn(k)' = PassedIn(k) /\ FailedIn(k)' = FailedIn(k)
          /\ \A st : PointsOf(st)' = PointsOf(st)
      BY <1>3, <2>1
    <2>6. /\ [i \in DOMAIN samples' |-> samples'[i].point] =
               [i \in DOMAIN samples |-> samples[i].point]
          /\ [i \in DOMAIN samples' |-> Frequency(samples'[i].point)] =
               [i \in DOMAIN samples |-> Frequency(samples[i].point)]
      BY <2>1
    <2> HIDE DEF status
    <2>7. QED BY <1>2, <2>1, <2>3, <2>4, <2>5, <2>6 DEF AgreeInv
  <1>6. CASE \/ RejectInvalid \/ Validate \/ PlanSweep \/ CheckProduct \/ StartPoint
             \/ SetControl \/ SetOutputPower \/ Measure \/ Compute \/ EquipmentThrows
             \/ ReadMissing \/ FailPoint \/ UNCHANGED vars
    <2>1. /\ UNCHANGED <<program, samples, calibration, qualification>>
          /\ phase' = phase \/ phase' # "done"
      BY <1>6 DEF RejectInvalid, Validate, PlanSweep, CheckProduct, StartPoint, SetControl,
                  SetOutputPower, Measure, Compute, EquipmentThrows, ReadMissing, FailPoint,
                  vars, artifacts
    <2>2. /\ \A k : PassedIn(k)' = PassedIn(k) /\ FailedIn(k)' = FailedIn(k)
          /\ \A status : PointsOf(status)' = PointsOf(status)
      BY <1>3, <2>1
    <2>3. /\ [i \in DOMAIN samples' |-> samples'[i].point] =
               [i \in DOMAIN samples |-> samples[i].point]
          /\ [i \in DOMAIN samples' |-> Frequency(samples'[i].point)] =
               [i \in DOMAIN samples |-> Frequency(samples[i].point)]
      BY <2>1
    <2>4. QED BY <1>2, <2>1, <2>2, <2>3 DEF AgreeInv
  <1>7. QED BY <1>1, <1>4, <1>5, <1>6 DEF Next

LEMMA ArtifactsFollow == AgreeInv => ArtifactsAgree
  <1> SUFFICES ASSUME AgreeInv PROVE ArtifactsAgree
    OBVIOUS
  <1>1. \A k : Number(LAMBDA s : s.outcomes[k]) = Cardinality(PassedIn(k))
    BY DEF Number, PassedIn
  <1>2. \A k : Number(LAMBDA s : ~s.outcomes[k]) = Cardinality(FailedIn(k))
    BY DEF Number, FailedIn
  <1>3. /\ Number(LAMBDA s : s.status = "pass") = Cardinality(PointsOf("pass"))
        /\ Number(LAMBDA s : s.status = "fail") = Cardinality(PointsOf("fail"))
    BY DEF Number, PointsOf
  <1>4. QED BY <1>1, <1>2, <1>3 DEF AgreeInv, ArtifactsAgree

-----------------------------------------------------------------------------
(* The results.                                                            *)

\* All that is kept of a characterization, from the checks to its results.
WholeInv ==
  /\ IInv /\ ShapeInv /\ RefusalInv /\ PointsInv /\ EquipmentTyped /\ RecordsInv
  /\ AgreeInv

LEMMA WholeInit == Init => WholeInv
  BY InitInv, ShapeInit, RefusalInit, PointsInit, EquipmentInit, RecordsInit, AgreeInit
     DEF WholeInv

LEMMA WholeStep ==
  ASSUME WholeInv, [Next]_vars
  PROVE  WholeInv'
  <1>1. /\ IInv /\ ShapeInv /\ RefusalInv /\ PointsInv /\ EquipmentTyped /\ RecordsInv
        /\ AgreeInv
    BY DEF WholeInv
  <1>2. IInv' /\ ShapeInv' /\ RefusalInv'
    BY <1>1, StepKeepsInv, ShapeStep, RefusalStep
  <1>3. PointsInv'
    BY <1>1, <1>2, PointsStep
  <1>4. EquipmentTyped' /\ RecordsInv' /\ AgreeInv'
    BY <1>1, EquipmentStep, RecordsStep, AgreeStep
  <1>5. QED BY <1>2, <1>3, <1>4 DEF WholeInv

\* The invariant of the results is kept by every step.
THEOREM WholeInvariance == Spec => []WholeInv
  <1>1. QED BY WholeInit, WholeStep, PTL DEF Spec

LEMMA PlanTyped ==
  ASSUME IInv, ShapeInv
  PROVE  plan \in Seq([dimension : Dimensions, bounds : Bounds, count : Nat])
  <1> DEFINE Axis == [dimension : Dimensions, bounds : Bounds, count : Nat]
  <1>1. program \in IrPrograms /\ PlanInv
    BY ExecutedTyped DEF IInv, ChecksInv
  <1>2. Len(plan) \in Nat /\ plan = [a \in 1..Len(plan) |-> plan[a]]
    BY <1>1 DEF PlanInv, IsSeq
  <1>3. ASSUME NEW a \in 1..Len(plan) PROVE plan[a] \in Axis
    <2> DEFINE d == program.sweeps[a].dimension
               b == PlannedBounds(a)
               c == PointCount(b)
    <2>1. plan[a] = [dimension |-> d, bounds |-> b, count |-> c] /\ b \in Bounds
      BY DEF ShapeInv
    <2>2. d \in Dimensions
      BY <1>1, <1>2, SweepsTyped DEF PlanInv
    <2>3. c \in Nat
      <3>1. plan[a].count \in Nat
        BY <1>1, PlannedAxis
      <3> HIDE DEF d, b, c
      <3>2. QED BY <2>1, <3>1
    <2> HIDE DEF d, b, c
    <2>4. QED BY <2>1, <2>2, <2>3
  <1> HIDE DEF Axis
  <1>4. plan \in [1..Len(plan) -> Axis]
    BY <1>2, <1>3
  <1>5. plan \in Seq(Axis)
    BY <1>2, <1>4, FunctionTyped
  <1>6. QED BY <1>5 DEF Axis

LEMMA WholeIsTyped == WholeInv => TypeOK
  <1> SUFFICES ASSUME WholeInv PROVE TypeOK
    OBVIOUS
  <1>1. program \in Executed /\ phase \in Phases
    BY DEF WholeInv, IInv, ChecksInv
  <1>2. plan \in Seq([dimension : Dimensions, bounds : Bounds, count : Nat])
    BY PlanTyped DEF WholeInv
  <1>3. pointCount \in 1..MaxSweepPoints
    BY DEF WholeInv, ShapeInv
  <1>4. axis \in 0..Len(coordinates) /\ powered \in BOOLEAN
    BY DEF WholeInv, IInv, PointInv
  <1>5. /\ devices \subseteq Capabilities /\ finite \in BOOLEAN
        /\ coordinates \in Points /\ values \in Seq(Settings) /\ settings \in Settings
        /\ calls \in Seq(Calls)
    BY DEF WholeInv, EquipmentTyped
  <1>6. /\ samples \in Seq([point : Points, observations : Seq(Settings),
                            measured : Settings, outcomes : Seq(BOOLEAN), status : Statuses])
        /\ calibration \in [dimensions : Seq(Int), corrections : Seq(Points),
                            operatingPoints : Seq(Points)]
        /\ qualification \in [points : Tally, assertions : Seq(Tally), status : Statuses]
    BY DEF WholeInv, RecordsInv, Samples
  <1>7. QED BY <1>1, <1>2, <1>3, <1>4, <1>5, <1>6 DEF TypeOK

LEMMA WholeResults == WholeInv => ResultIsWhole
  BY Rectangular, ArtifactsFollow DEF WholeInv, ResultIsWhole

\* Whatever programs, devices and settings: the variables keep their types; in
\* particular the plan is never longer than the limit allows
\* (characterization.cpp:38-93), and every point decoded is a point of the sweeps.
THEOREM TypeCorrect == Spec => []TypeOK
  <1>1. QED BY WholeIsTyped, WholeInvariance, PTL

\* Whatever is swept and asserted, however many axes and points: the points of a
\* result are those of the product, in its order and each once, and the counts,
\* the verdict and the calibration are those of the samples
\* (characterization.cpp:96-146, 384-425).
THEOREM ResultsAreWhole == Spec => []ResultIsWhole
  <1>1. QED BY WholeResults, WholeInvariance, PTL

-----------------------------------------------------------------------------
(* The command line.                                                       *)

\* A step of the command line is one of the characterization, or none.
LEMMA RunsTheRuntime ==
  ASSUME [CliNext]_cliVars
  PROVE  [Next]_vars
  BY DEF CliNext, CliStep, CheckArguments, ReadSource, Compile, Executes, OpenOutput,
         WriteFails, WriteRest, RemoveOutput, Report, keep, cliVars

(***************************************************************************)
(* The invariant of the results file: what is at the output path at each   *)
(* stage, and why it may not be the results.                               *)
(***************************************************************************)
FileInv ==
  /\ stage \in {"start", "read", "compile", "execute", "open"} =>
       output = before /\ reason = "none"
  /\ stage \in {"open", "write", "remove"} => mode \in Formats
  /\ stage \in {"open", "write", "report"} => phase = "done"
  /\ stage = "write" => output = "empty" /\ reason = "none"
  /\ stage = "remove" => reason # "none"
  /\ stage # "ended" => ~removed
  /\ stage = "report" /\ mode \in Formats => output = "whole"
  /\ stage = "library" => mode \notin Formats
  /\ mode \notin Formats => output = before
  /\ target = "source" =>
       output = before /\ (mode \in Formats => stage \in {"start", "ended"})

\* A run that writes CSV has points the format has columns for.
ColumnsInv ==
  /\ stage \in {"start", "read", "compile"} => samples = <<>>
  /\ mode = "csv" /\ stage \in {"execute", "open", "write"} =>
       /\ Representable(program)
       /\ \A i \in DOMAIN samples : HasColumns(samples[i].point)

CliInv == IInv /\ FileInv /\ ColumnsInv /\ OutputIsHonest

LEMMA CliInitInv == CliInit => CliInv
  <1> SUFFICES ASSUME CliInit PROVE CliInv
    OBVIOUS
  <1>1. IInv
    BY InitInv DEF CliInit
  <1>2. FileInv
    BY DEF CliInit, FileInv, Formats
  <1>3. ColumnsInv
    BY DEF CliInit, ColumnsInv, Init
  <1>4. OutputIsHonest
    BY DEF CliInit, OutputIsHonest, Formats
  <1>5. QED BY <1>1, <1>2, <1>3, <1>4 DEF CliInv

\* The points of a program with one sweep, of frequency, have one coordinate.
LEMMA PointHasColumns ==
  ASSUME IInv, phase = "evaluate", Representable(program)
  PROVE  HasColumns(coordinates)
  <1>1. /\ Len(coordinates) = 1
        /\ \A a \in 1..Len(coordinates) :
             coordinates[a].dimension = program.sweeps[a].dimension
    BY DEF IInv, PlanInv, Representable
  <1>2. coordinates[1].dimension = "frequency"
    BY <1>1 DEF Representable
  <1>3. QED BY <1>1, <1>2 DEF HasColumns

LEMMA RuntimeKeepsColumns ==
  ASSUME CliInv, Next, UNCHANGED cli, stage \in {"library", "execute"}
  PROVE  ColumnsInv'
  <1>1. UNCHANGED <<stage, mode, program>>
    BY DEF cli, Next, RejectInvalid, Validate, PlanSweep, CheckProduct, Preflight,
           StartPoint, SetControl, SetOutputPower, Measure, Compute, EquipmentThrows,
           ReadMissing, FailPoint, FinishPoint, Finish
  <1> SUFFICES ASSUME mode = "csv", stage = "execute"
               PROVE  \A i \in DOMAIN samples' : HasColumns(samples'[i].point)
    BY <1>1 DEF CliInv, ColumnsInv, Representable
  <1>2. Representable(program) /\ \A i \in DOMAIN samples : HasColumns(samples[i].point)
    BY DEF CliInv, ColumnsInv
  <1>3. CASE samples' = samples
    BY <1>2, <1>3
  <1>4. CASE FinishPoint
    <2>1. PICK outcomes \in [DOMAIN program.assertions -> BOOLEAN] : Record(outcomes)
      BY <1>4 DEF FinishPoint
    <2> DEFINE new == [point |-> coordinates,
                       observations |-> [k \in DOMAIN program.measurements |->
                                           values[program.measurements[k].value]],
                       measured |-> values[program.measurement],
                       outcomes |-> outcomes, status |-> Status(outcomes)]
    <2>2. samples' = Append(samples, new) /\ new.point = coordinates
      BY <2>1 DEF Record
    <2> HIDE DEF new
    <2>3. HasColumns(new.point)
      BY <1>2, <1>4, <2>2, PointHasColumns
         DEF CliInv, FinishPoint, Evaluated, Evaluating
    <2>4. /\ Len(samples) \in Nat /\ DOMAIN samples = 1..Len(samples)
          /\ DOMAIN samples' = 1..(Len(samples) + 1)
          /\ \A i \in 1..Len(samples) : samples'[i] = samples[i]
          /\ samples'[Len(samples) + 1] = new
      BY <2>2, AppendIsSeq DEF CliInv, IInv, PointInv, IsSeq
    <2>5. QED BY <1>2, <2>3, <2>4
  <1>5. QED
    BY <1>3, <1>4
    DEF Next, RejectInvalid, Validate, PlanSweep, CheckProduct, Preflight, StartPoint,
        SetControl, SetOutputPower, Measure, Compute, EquipmentThrows, ReadMissing,
        FailPoint, Finish, artifacts

(***************************************************************************)
(* One step per stage.                                                     *)
(***************************************************************************)
LEMMA CliStepInv == CliInv /\ [CliNext]_cliVars => CliInv'
  <1> SUFFICES ASSUME CliInv, [CliNext]_cliVars PROVE CliInv'
    OBVIOUS
  <1> USE DEF cli, keep, Formats
  <1>0. IInv'
    BY RunsTheRuntime, StepKeepsInv DEF CliInv
  <1> SUFFICES FileInv' /\ ColumnsInv' /\ OutputIsHonest'
    BY <1>0 DEF CliInv
  <1>1. CASE CheckArguments \/ ReadSource
    <2>1. FileInv'
      BY <1>1 DEF CliInv, FileInv, CheckArguments, ReadSource, Exit, vars
    <2>2. ColumnsInv'
      BY <1>1 DEF CliInv, ColumnsInv, CheckArguments, ReadSource, Exit, vars
    <2>3. OutputIsHonest'
      BY <1>1 DEF CliInv, FileInv, OutputIsHonest, Success, CheckArguments, ReadSource,
                  Exit, vars
    <2>4. QED BY <2>1, <2>2, <2>3
  <1>2. CASE Compile
    <2>1. FileInv'
      BY <1>2 DEF CliInv, FileInv, Compile, Exit, vars
    <2>2. ColumnsInv'
      BY <1>2 DEF CliInv, ColumnsInv, Compile, Exit, vars, Representable
    <2>3. OutputIsHonest'
      BY <1>2 DEF CliInv, FileInv, OutputIsHonest, Success, Compile, Exit, vars
    <2>4. QED BY <2>1, <2>2, <2>3
  <1>3. CASE Executes
    <2>1. FileInv'
      BY <1>3 DEF CliInv, FileInv, Executes, Exit, vars
    <2>2. ColumnsInv'
      BY <1>3 DEF CliInv, ColumnsInv, Executes, Exit, vars, Representable
    <2>3. OutputIsHonest'
      BY <1>3 DEF CliInv, FileInv, OutputIsHonest, Success, Executes, Exit, vars
    <2>4. QED BY <2>1, <2>2, <2>3
  <1>4. CASE OpenOutput \/ WriteFails
    <2>1. FileInv'
      BY <1>4 DEF CliInv, FileInv, OpenOutput, WriteFails, GiveUp, vars
    <2>2. ColumnsInv'
      BY <1>4 DEF CliInv, ColumnsInv, OpenOutput, WriteFails, GiveUp, vars, Representable
    <2>3. OutputIsHonest'
      BY <1>4 DEF CliInv, FileInv, OutputIsHonest, OpenOutput, WriteFails, GiveUp, vars
    <2>4. QED BY <2>1, <2>2, <2>3
  <1>5. CASE WriteRest
    <2>1. ~(mode = "csv" /\ \E i \in DOMAIN samples : ~HasColumns(samples[i].point))
      BY <1>5 DEF CliInv, ColumnsInv, WriteRest
    <2>2. /\ stage = "write" /\ stage' = "report" /\ output' = "whole"
          /\ UNCHANGED <<exit, keep, reason, removed>>
      BY <1>5, <2>1 DEF WriteRest
    <2>3. FileInv' /\ ColumnsInv'
      BY <2>2 DEF CliInv, FileInv, ColumnsInv, vars
    <2>4. OutputIsHonest'
      BY <2>2 DEF CliInv, FileInv, OutputIsHonest, vars
    <2>5. QED BY <2>3, <2>4
  <1>6. CASE RemoveOutput \/ Report
    <2>1. FileInv' /\ ColumnsInv'
      BY <1>6 DEF CliInv, FileInv, ColumnsInv, RemoveOutput, Report, Exit, vars
    <2>2. OutputIsHonest'
      BY <1>6 DEF CliInv, FileInv, OutputIsHonest, Success, RemoveOutput, Report, Exit, vars
    <2>3. QED BY <2>1, <2>2
  <1>7. CASE stage \in {"library", "execute"} /\ Next /\ UNCHANGED cli
    <2>1. ColumnsInv'
      BY <1>7, RuntimeKeepsColumns
    <2>2. FileInv' /\ OutputIsHonest'
      BY <1>7 DEF CliInv, FileInv, OutputIsHonest
    <2>3. QED BY <2>1, <2>2
  <1>8. CASE UNCHANGED cliVars
    BY <1>8 DEF cliVars, vars, CliInv, FileInv, ColumnsInv, OutputIsHonest, Representable
  <1>9. QED
    BY <1>1, <1>2, <1>3, <1>4, <1>5, <1>6, <1>7, <1>8 DEF CliNext, CliStep

LEMMA CliInvariance == CliSpec => []CliInv
  <1>1. QED BY CliInitInv, CliStepInv, PTL DEF CliSpec

-----------------------------------------------------------------------------
\* The exit status tells what is at the output path, wherever a run stops: all
\* the results, or nothing of them unless they could not be removed, and never
\* in place of the script (main.cpp:136-168, 217-309).
THEOREM OutputHonest == CliSpec => []OutputIsHonest
  <1>1. CliInv => OutputIsHonest
    BY DEF CliInv
  <1>2. QED BY <1>1, CliInvariance, PTL

\* A results file is never given up for want of columns: what the command line
\* lets pass to the CSV writer has one coordinate, of frequency, at every point
\* (main.cpp:251-263, csv.cpp:38-47).
THEOREM CsvHasColumns == CliSpec => []ColumnsInv
  <1>1. CliInv => ColumnsInv
    BY DEF CliInv
  <1>2. QED BY <1>1, CliInvariance, PTL

\* What is proved of a characterization by itself holds of the one the command
\* line or a library's caller runs: nothing is touched before the checks, what
\* compiles is run, the calls are the documented ones at the settings of their
\* point, and the results are whole (main.cpp:265-278, characterization.cpp:233-425).
THEOREM RuntimePromisesKept ==
  CliSpec => [](/\ TypeOK
                /\ PreflightSuffices
                /\ CompiledProgramsRun
                /\ DocumentedOrder
                /\ MeasuredAsConfigured
                /\ ResultIsWhole)
  <1>1. CliInit => WholeInv
    BY WholeInit DEF CliInit
  <1>2. WholeInv /\ [CliNext]_cliVars => WholeInv'
    BY RunsTheRuntime, WholeStep
  <1>3. WholeInv => /\ TypeOK
                    /\ PreflightSuffices
                    /\ CompiledProgramsRun
                    /\ DocumentedOrder
                    /\ MeasuredAsConfigured
                    /\ ResultIsWhole
    <2>1. ASSUME WholeInv PROVE IInv /\ RefusalInv
      BY <2>1 DEF WholeInv
    <2>2. IInv => MeasuredAsConfigured
      BY DEF IInv
    <2>3. QED
      BY <2>1, <2>2, WholeIsTyped, PreflightIsEnough, CompiledAreRun, CallsFollowTheOrder,
         WholeResults
  <1>4. QED BY <1>1, <1>2, <1>3, PTL DEF CliSpec
=============================================================================
