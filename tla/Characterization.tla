-------------------------- MODULE Characterization --------------------------
(***************************************************************************)
(* execute_characterization: validation, planning and preflight of a       *)
(* program, then one evaluation per operating point on equipment the       *)
(* caller owns.  Every call to the equipment is an action and may throw.   *)
(***************************************************************************)
EXTENDS IrProgram

CONSTANTS
  Written,    \* scripts
  Assembled,  \* programs a caller of the runtime builds without a script
  Unset       \* a setting of the equipment nobody made

ASSUME ProgramsAssumption == Written \subseteq Scripts /\ Assembled \subseteq IrPrograms

Compiled == {Lower(script) : script \in {s \in Written : Analyzed(s)}}

Executed == Compiled \cup Assembled

Capabilities == {"power", "evm", "frequencyError", "temperature"}

VARIABLES
  program,
  devices,        \* the capabilities supplied; the RfDevice always is
  phase,
  plan,           \* sweeps: [dimension, bounds, count] of the axes planned
  pointCount,
  coordinates,    \* of the point being evaluated
  axis,           \* its coordinates set on the equipment so far
  powered,        \* setOutputPower has been called at this point
  values,         \* PointEvaluation: the values evaluated so far; of a
                  \* measurement the settings it was taken at
  finite,         \* all of them are
  samples,        \* result.samples
  calibration,    \* result.calibration
  qualification,  \* result.qualification
  settings,       \* the equipment (external)
  calls           \* calls made at this point (history variable)

vars == <<program, devices, phase, plan, pointCount, coordinates, axis, powered, values,
          finite, samples, calibration, qualification, settings, calls>>

point == <<coordinates, axis, powered, values, finite, calls>>
artifacts == <<samples, calibration, qualification>>

\* "rejected", "notFinite": diagnostics.  "thrown": an exception passes through.
\* "undefined": a slot is read that is not there.
Ended == {"rejected", "notFinite", "thrown", "undefined", "done"}
Phases == {"validate", "plan", "preflight", "start", "evaluate"} \cup Ended

Settings == [frequency : Int \cup {Unset}, temperature : Int \cup {Unset},
             power : {"reference", Unset}]

NoReading == [frequency |-> Unset, temperature |-> Unset, power |-> Unset]

Points == Seq([dimension : Dimensions, value : Int])
Calls == {"setFrequency", "setTemperature", "setOutputPower"} \cup MeasureOps
Statuses == {"notEvaluated", "pass", "fail"}
Tally == [passed : Nat, failed : Nat]

TypeOK ==
  /\ program \in Executed /\ devices \subseteq Capabilities /\ phase \in Phases
  /\ plan \in Seq([dimension : Dimensions, bounds : Bounds, count : Nat])
  /\ pointCount \in 1..MaxSweepPoints
  /\ coordinates \in Points /\ axis \in 0..Len(coordinates)
  /\ powered \in BOOLEAN /\ finite \in BOOLEAN
  /\ values \in Seq(Settings) /\ settings \in Settings
  /\ calls \in Seq(Calls)
  /\ samples \in Seq([point : Points, observations : Seq(Settings), measured : Settings,
                      outcomes : Seq(BOOLEAN), status : Statuses])
  /\ calibration \in [dimensions : Seq(Int), corrections : Seq(Points),
                      operatingPoints : Seq(Points)]
  /\ qualification \in [points : Tally, assertions : Seq(Tally), status : Statuses]

-----------------------------------------------------------------------------
(* Before the equipment is touched.                                        *)

RejectInvalid ==
  /\ phase = "validate"
  /\ ~Accepted(program) \/ ~program.calibration.named
  /\ phase' = "rejected"
  /\ UNCHANGED <<program, devices, plan, pointCount, point, artifacts, settings>>

Validate ==
  /\ phase = "validate"
  /\ Accepted(program) /\ program.calibration.named
  /\ phase' = "plan"
  /\ UNCHANGED <<program, devices, plan, pointCount, point, artifacts, settings>>

\* A single sweep of frequency is run with the bounds of the older field.
PlannedBounds(a) ==
  IF Len(program.sweeps) = 1 /\ program.sweeps[a].dimension = "frequency"
  THEN program.sweep.bounds
  ELSE program.sweeps[a].bounds

PlanSweepUnlimited ==                            \* mutant: axes are limited one by one
  LET a == Len(plan) + 1
      bounds == PlannedBounds(a)
  IN  /\ phase = "plan" /\ a \in DOMAIN program.sweeps
      /\ IF Planned(bounds)
         THEN /\ plan' = Append(plan, [dimension |-> program.sweeps[a].dimension,
                                       bounds |-> bounds, count |-> PointCount(bounds)])
              /\ pointCount' = pointCount * PointCount(bounds)
              /\ UNCHANGED phase
         ELSE phase' = "rejected" /\ UNCHANGED <<plan, pointCount>>
      /\ UNCHANGED <<program, devices, point, artifacts, settings>>

PlanSweep ==
  LET a == Len(plan) + 1
      bounds == PlannedBounds(a)
  IN  /\ phase = "plan" /\ a \in DOMAIN program.sweeps
      /\ IF /\ Planned(bounds)
            /\ Len(program.sweeps) > 1 => PointCount(bounds) = program.sweeps[a].pointCount
            /\ pointCount * PointCount(bounds) <= MaxSweepPoints
         THEN /\ plan' = Append(plan, [dimension |-> program.sweeps[a].dimension,
                                       bounds |-> bounds, count |-> PointCount(bounds)])
              /\ pointCount' = pointCount * PointCount(bounds)
              /\ UNCHANGED phase
         ELSE phase' = "rejected" /\ UNCHANGED <<plan, pointCount>>
      /\ UNCHANGED <<program, devices, point, artifacts, settings>>

\* The product is compared with what the analyzer computed.
CheckProduct ==
  /\ phase = "plan" /\ Len(plan) = Len(program.sweeps)
  /\ phase' = IF Len(program.sweeps) > 1 /\ pointCount # program.totalPointCount
              THEN "rejected" ELSE "preflight"
  /\ UNCHANGED <<program, devices, plan, pointCount, point, artifacts, settings>>

Capability == [MeasurePower |-> "power", MeasureEvm |-> "evm",
               MeasureFrequencyError |-> "frequencyError"]

RequiredByMeasurements ==                        \* mutant: controls are not checked
  {Capability[program.measurements[k].op] : k \in DOMAIN program.measurements}

Required ==
  {Capability[program.measurements[k].op] : k \in DOMAIN program.measurements}
  \cup IF Axes(program, "temperature") = {} THEN {} ELSE {"temperature"}

\* All capabilities are there before the first call; the result is laid out.
Preflight ==
  /\ phase = "preflight"
  /\ IF Required \subseteq devices
     THEN /\ phase' = "start"
          /\ qualification' =
               [qualification EXCEPT !.assertions =
                  [k \in DOMAIN program.assertions |-> [passed |-> 0, failed |-> 0]]]
     ELSE phase' = "rejected" /\ UNCHANGED qualification
  /\ UNCHANGED <<program, devices, plan, pointCount, point, samples, calibration, settings>>

-----------------------------------------------------------------------------
(* One operating point.                                                    *)

RemainderFirstFastest(flat) ==                   \* mutant: the axes the other way round
  LET rest[a \in 1..Len(plan)] ==
        IF a = 1 THEN flat ELSE rest[a - 1] \div plan[a - 1].count
  IN  rest

\* Mixed radix, the last axis fastest: what remains of the flat index once
\* the axes after a are taken off.
Remainder(flat) ==
  LET rest[a \in DOMAIN plan] ==
        IF a = Len(plan) THEN flat ELSE rest[a + 1] \div plan[a + 1].count
  IN  rest

Decode(flat) ==
  [a \in DOMAIN plan |->
     [dimension |-> plan[a].dimension,
      value |-> ValueAt(plan[a].bounds, Remainder(flat)[a] % plan[a].count)]]

HasFrequency(pt) == \E a \in DOMAIN pt : pt[a].dimension = "frequency"

Frequency(pt) == pt[CHOOSE a \in DOMAIN pt :
                      /\ pt[a].dimension = "frequency"
                      /\ \A b \in 1..(a - 1) : pt[b].dimension # "frequency"].value

StartPointKeepingPower ==                        \* mutant: the power is set once
  /\ phase = "start" /\ Len(samples) < pointCount
  /\ coordinates' = Decode(Len(samples))
  /\ axis' = 0 /\ values' = <<>> /\ finite' = TRUE /\ calls' = <<>>
  /\ phase' = IF HasFrequency(coordinates') THEN "evaluate" ELSE "thrown"
  /\ UNCHANGED <<program, devices, plan, pointCount, powered, artifacts, settings>>

StartPoint ==
  /\ phase = "start" /\ Len(samples) < pointCount
  /\ coordinates' = Decode(Len(samples))
  /\ axis' = 0 /\ powered' = FALSE /\ values' = <<>> /\ finite' = TRUE /\ calls' = <<>>
  /\ phase' = IF HasFrequency(coordinates') THEN "evaluate" ELSE "thrown"
  /\ UNCHANGED <<program, devices, plan, pointCount, artifacts, settings>>

Evaluating == phase = "evaluate" /\ axis = Len(coordinates)

Upcoming == Len(values) + 1

\* The next value is the one before which the output power is set.
PowerDueLast ==                                  \* mutant: before the last reading
  ~powered /\ Upcoming = program.measurements[Len(program.measurements)].value

PowerDue == ~powered /\ Upcoming = program.measurements[1].value

\* What is asked of the equipment next: a coordinate, the power or a reading.
CallDue ==
  \/ phase = "evaluate" /\ axis < Len(coordinates)
  \/ /\ Evaluating /\ Upcoming \in Ids(program)
     /\ PowerDue \/ IsMeasure(program.values[Upcoming])

\* A device that was not supplied, or the reference before it is evaluated.
Missing ==
  IF axis < Len(coordinates)
  THEN coordinates[axis + 1].dimension = "temperature" /\ "temperature" \notin devices
  ELSE IF PowerDue THEN program.reference >= Upcoming
  ELSE Capability[program.values[Upcoming].op] \notin devices

ReadMissing ==
  /\ CallDue /\ Missing
  /\ phase' = "undefined"
  /\ UNCHANGED <<program, devices, plan, pointCount, point, artifacts, settings>>

SetControl ==
  LET c == coordinates[axis + 1]
  IN  /\ phase = "evaluate" /\ axis < Len(coordinates) /\ ~Missing
      /\ settings' = [settings EXCEPT ![c.dimension] = c.value]
      /\ axis' = axis + 1
      /\ calls' = Append(calls, IF c.dimension = "frequency" THEN "setFrequency"
                                ELSE "setTemperature")
      /\ UNCHANGED <<program, devices, phase, plan, pointCount, coordinates, powered,
                     values, finite, artifacts>>

SetOutputPower ==
  /\ Evaluating /\ CallDue /\ PowerDue /\ ~Missing
  /\ settings' = [settings EXCEPT !.power = "reference"]
  /\ powered' = TRUE
  /\ calls' = Append(calls, "setOutputPower")
  /\ UNCHANGED <<program, devices, phase, plan, pointCount, coordinates, axis, values,
                 finite, artifacts>>

\* A reading may be infinite or NaN.
Measure ==
  /\ Evaluating /\ CallDue /\ ~PowerDue /\ ~Missing
  /\ values' = Append(values, settings)
  /\ calls' = Append(calls, program.values[Upcoming].op)
  /\ finite' \in {finite, FALSE}
  /\ UNCHANGED <<program, devices, phase, plan, pointCount, coordinates, axis, powered,
                 artifacts, settings>>

\* So may what is computed from them, except for comparisons.
Compute ==
  /\ Evaluating /\ Upcoming \in Ids(program) /\ ~CallDue
  /\ values' = Append(values, NoReading)
  /\ finite' \in {finite} \cup
       IF program.values[Upcoming].op \in {"Compare", "Constant", "ReferencePower"} \cup SweepOps
       THEN {} ELSE {FALSE}
  /\ UNCHANGED <<program, devices, phase, plan, pointCount, coordinates, axis, powered,
                 artifacts, settings, calls>>

\* The equipment throws instead: it may have taken the setting or not.
EquipmentThrows ==
  /\ CallDue /\ ~Missing
  /\ phase' = "thrown"
  /\ settings' \in
       {settings} \cup
       (IF axis < Len(coordinates)
        THEN {[settings EXCEPT ![coordinates[axis + 1].dimension] = coordinates[axis + 1].value]}
        ELSE IF PowerDue THEN {[settings EXCEPT !.power = "reference"]} ELSE {})
  /\ UNCHANGED <<program, devices, plan, pointCount, point, artifacts>>

\* The slots a sample is made of.  at() throws for those the Validator let
\* through without looking.
SlotsThere ==
  /\ Has(program, program.measurement, "Power")
  /\ Has(program, program.calibration.correction, "PowerDelta")
  /\ \A k \in DOMAIN program.measurements :
       Has(program, program.measurements[k].value, program.measurements[k].type)
  /\ \A k \in DOMAIN program.namedValues : program.namedValues[k].value \in Ids(program)
  /\ \A k \in DOMAIN program.assertions :
       /\ Has(program, program.assertions[k].value, "Boolean")
       /\ program.assertions[k].left \in Ids(program)
       /\ program.assertions[k].right \in Ids(program)

Evaluated == Evaluating /\ Len(values) = Len(program.values)

FailPointRetrying ==                             \* mutant: measure the point again
  /\ Evaluated
  /\ ~finite \/ ~SlotsThere
  /\ phase' = IF ~finite THEN "start" ELSE "thrown"
  /\ UNCHANGED <<program, devices, plan, pointCount, point, artifacts, settings>>

FailPoint ==
  /\ Evaluated
  /\ ~finite \/ ~SlotsThere
  /\ phase' = IF ~finite THEN "notFinite" ELSE "thrown"
  /\ UNCHANGED <<program, devices, plan, pointCount, point, artifacts, settings>>

Status(outcomes) ==
  IF outcomes = <<>> THEN "notEvaluated"
  ELSE IF \A k \in DOMAIN outcomes : outcomes[k] THEN "pass" ELSE "fail"

Count(tally, passed) ==
  IF passed THEN [tally EXCEPT !.passed = @ + 1] ELSE [tally EXCEPT !.failed = @ + 1]

Record(outcomes) ==
  /\ samples' = Append(samples,
       [point |-> coordinates,
        observations |-> [k \in DOMAIN program.measurements |->
                            values[program.measurements[k].value]],
        measured |-> values[program.measurement],
        outcomes |-> outcomes, status |-> Status(outcomes)])
  /\ calibration' =
       [dimensions |-> Append(calibration.dimensions, Frequency(coordinates)),
        corrections |-> Append(calibration.corrections, coordinates),
        operatingPoints |-> Append(calibration.operatingPoints, coordinates)]
  /\ qualification' =
       [qualification EXCEPT
          !.points = IF outcomes = <<>> THEN @ ELSE Count(@, Status(outcomes) = "pass"),
          !.assertions = [k \in DOMAIN @ |-> Count(@[k], outcomes[k])]]

FinishPoint ==
  /\ Evaluated /\ finite /\ SlotsThere
  /\ \E outcomes \in [DOMAIN program.assertions -> BOOLEAN] : Record(outcomes)
  /\ phase' = "start"
  /\ UNCHANGED <<program, devices, plan, pointCount, point, settings>>

Finish ==
  /\ phase = "start" /\ Len(samples) = pointCount
  /\ phase' = "done"
  /\ qualification' =
       [qualification EXCEPT !.status =
          IF program.assertions = <<>> THEN "notEvaluated"
          ELSE IF qualification.points.failed = 0 THEN "pass" ELSE "fail"]
  /\ UNCHANGED <<program, devices, plan, pointCount, point, samples, calibration, settings>>

-----------------------------------------------------------------------------
Init ==
  /\ program \in Executed /\ devices \in SUBSET Capabilities
  /\ phase = "validate" /\ plan = <<>> /\ pointCount = 1
  /\ coordinates = <<>> /\ axis = 0 /\ powered = FALSE /\ values = <<>>
  /\ finite = TRUE /\ calls = <<>>
  /\ samples = <<>>
  /\ calibration = [dimensions |-> <<>>, corrections |-> <<>>, operatingPoints |-> <<>>]
  /\ qualification = [points |-> [passed |-> 0, failed |-> 0], assertions |-> <<>>,
                      status |-> "notEvaluated"]
  /\ settings = NoReading

Next ==
  \/ RejectInvalid \/ Validate \/ PlanSweep \/ CheckProduct \/ Preflight
  \/ StartPoint \/ SetControl \/ SetOutputPower \/ Measure \/ Compute
  \/ EquipmentThrows \/ ReadMissing
  \/ FailPoint \/ FinishPoint \/ Finish

Spec == Init /\ [][Next]_vars

\* One thread runs the program, and each call to the equipment returns or throws.
FairSpec == Spec /\ WF_vars(Next)

-----------------------------------------------------------------------------
(* Properties.                                                             *)

\* What a program without diagnostics may still be wrong in: everything the
\* Validator was to check when it stopped in silence, a reference defined after
\* the first measurement, and a measurement that no declaration names.
Unchecked(p) ==
  \/ StopsSilently(p)
  \/ p.reference >= p.measurements[1].value
  \/ \E i \in Ids(p) :
       /\ IsMeasure(p.values[i])
       /\ \A k \in DOMAIN p.measurements : p.measurements[k].value # i

\* What is rejected never reached the equipment, and what passes the checks
\* needs nothing that is not there: no capability turns out to be missing, and
\* no slot to be empty, once the first control has been set, but for what the
\* checks leave out; of a program laid out as lowering does they leave out
\* nothing (docs/architecture.md:306, characterization.cpp:274-301,
\* executor.cpp:326-357, 619).
PreflightSuffices ==
  /\ phase = "rejected" => settings = NoReading
  /\ phase = "undefined" => Unchecked(program)
  /\ Lowered(program) => phase # "undefined"

\* Analyzer, lowering and runtime agree: a program that compiles passes the
\* Validator because every check of it was made, the Validator never having
\* stopped in silence (executor.cpp:328), and is planned as the analyzer counted
\* it; the runtime refuses it only for want of a capability (analyzer.cpp:129-156,
\* characterization.cpp:38-93, 251-273).
CompiledProgramsRun ==
  program \in Compiled =>
    /\ Lowered(program)
    /\ phase = "rejected" => ~(Required \subseteq devices)

Distinct == \A a \in DOMAIN plan : plan[a].bounds.step > Tolerance(plan[a].bounds)

AxisValues(a) == {ValueAt(plan[a].bounds, i) : i \in 0..(plan[a].count - 1)}

IsPoint(pt) ==
  /\ DOMAIN pt = DOMAIN plan
  /\ \A a \in DOMAIN plan :
       pt[a].dimension = plan[a].dimension /\ pt[a].value \in AxisValues(a)

Before(p, q) ==
  \E a \in DOMAIN plan :
    p[a].value < q[a].value /\ \A b \in 1..(a - 1) : p[b].value = q[b].value

\* The operating points are those of the Cartesian product, in the order in
\* which the last axis varies fastest, none left out and none repeated; a result
\* is returned only when all of them have been measured
\* (docs/architecture.md:306-312).
ResultIsRectangular ==
  /\ \A i \in DOMAIN samples : IsPoint(samples[i].point)
  /\ Distinct => \A i \in DOMAIN samples :
                   i > 1 => Before(samples[i - 1].point, samples[i].point)
  /\ phase = "done" =>
       Len(samples) = Product([a \in DOMAIN plan |-> plan[a].count])

\* docs/architecture.md:305, 316, docs/dsl-evolution.md:268-271: at each point the
\* controls are set in the order the sweeps are declared, then the output power,
\* then every measurement is taken once, in the order they are declared.
DocumentedCalls ==
  [a \in DOMAIN coordinates |-> IF coordinates[a].dimension = "frequency"
                                THEN "setFrequency" ELSE "setTemperature"]
  \o <<"setOutputPower">>
  \o [k \in DOMAIN program.measurements |-> program.measurements[k].op]

DocumentedOrder ==
  Lowered(program) =>
    /\ Len(calls) <= Len(DocumentedCalls)
    /\ calls = SubSeq(DocumentedCalls, 1, Len(calls))
    /\ Evaluated => calls = DocumentedCalls

\* Each reading of a sample was taken with the equipment set to the sample's own
\* coordinates and the reference power, whatever earlier points left behind.
MeasuredAsConfigured ==
  Lowered(program) =>
    \A i \in DOMAIN samples :
      \A r \in {samples[i].observations[k] : k \in DOMAIN program.measurements}
               \cup {samples[i].measured} :
        /\ r.power = "reference"
        /\ \A a \in DOMAIN samples[i].point :
             r[samples[i].point[a].dimension] = samples[i].point[a].value

Number(P(_)) == Cardinality({i \in DOMAIN samples : P(samples[i])})

\* The qualification summary and the calibration artifact agree with the
\* samples: every count, the verdict, and each entry's point
\* (characterization.cpp:384-425, docs/architecture.md:303-304).
ArtifactsAgree ==
  /\ \A k \in DOMAIN qualification.assertions :
       /\ qualification.assertions[k].passed = Number(LAMBDA s : s.outcomes[k])
       /\ qualification.assertions[k].failed = Number(LAMBDA s : ~s.outcomes[k])
  /\ qualification.points.passed = Number(LAMBDA s : s.status = "pass")
  /\ qualification.points.failed = Number(LAMBDA s : s.status = "fail")
  /\ phase = "done" =>
       qualification.status =
         IF program.assertions = <<>> THEN "notEvaluated"
         ELSE IF \A i \in DOMAIN samples, k \in DOMAIN program.assertions :
                   samples[i].outcomes[k]
              THEN "pass" ELSE "fail"
  /\ calibration.operatingPoints = [i \in DOMAIN samples |-> samples[i].point]
  /\ calibration.corrections = calibration.operatingPoints
  /\ calibration.dimensions = [i \in DOMAIN samples |-> Frequency(samples[i].point)]

\* A result is complete and consistent in itself.
ResultIsWhole == ResultIsRectangular /\ ArtifactsAgree

\* Every run ends: equipment that fails, or readings that are not finite, are
\* not tried again (docs/architecture.md:306-307).
Terminates == <>(phase \in Ended)

\* docs/archive/slice-4-plan.md:40: "Hand-assembled malformed IR must fail safely
\* rather than indexing an invalid slot, extracting the wrong variant
\* alternative, or partially configuring a device."
MalformedIrFailsSafely == phase # "undefined"
=============================================================================
