------------------------------ MODULE IrProgram ------------------------------
(***************************************************************************)
(* ir::Program, what lowering makes of an analysed script, and the         *)
(* runtime's Validator.  A ValueId is a position in `values`, counted from *)
(* 1 where the code counts from 0; names, spans and the numbers constants  *)
(* and comparisons carry are left out.                                     *)
(***************************************************************************)
EXTENDS SweepPlan, Sequences, FiniteSets

Deltas == {"FrequencyDelta", "Ratio", "TemperatureDelta"}

ValueTypes == Deltas \cup {"Frequency", "Temperature", "Power", "PowerDelta", "Boolean"}

MeasureOps == {"MeasurePower", "MeasureEvm", "MeasureFrequencyError"}
SweepOps == {"SweepFrequency", "SweepTemperature"}

\* The types a definition may produce.
ResultTypes ==
  [Constant |-> ValueTypes, ReferencePower |-> {"Power"},
   SweepFrequency |-> {"Frequency"}, SweepTemperature |-> {"Temperature"},
   MeasurePower |-> {"Power"}, MeasureEvm |-> {"Ratio"},
   MeasureFrequencyError |-> {"FrequencyDelta"},
   NegateDelta |-> Deltas, AddDelta |-> Deltas, SubtractDelta |-> Deltas,
   Alias |-> ValueTypes, NegatePowerDelta |-> {"PowerDelta"},
   AddPowerDelta |-> {"PowerDelta"}, ApplyPowerDelta |-> {"Power"},
   PowerDifference |-> {"PowerDelta"}, AbsoluteValue |-> Deltas \cup {"PowerDelta"},
   Compare |-> {"Boolean"}]

Ops == DOMAIN ResultTypes

\* Value: operands are the ids a definition reads, `of` the operand_type of a
\* Compare (any other definition repeats its type there).
Values == [id : Nat, op : Ops, type : ValueTypes, operands : Seq(Nat), of : ValueTypes]

Dimensions == {"frequency", "temperature"}
SweepOp(d) == IF d = "frequency" THEN "SweepFrequency" ELSE "SweepTemperature"
SweepType(d) == IF d = "frequency" THEN "Frequency" ELSE "Temperature"

IrPrograms ==
  [values : Seq(Values), reference : Nat, measurement : Nat,
   sweep : [frequency : Nat, bounds : Bounds],
   sweeps : Seq([value : Nat, dimension : Dimensions, bounds : Bounds, pointCount : Nat]),
   totalPointCount : Nat,
   measurements : Seq([value : Nat, op : MeasureOps, type : ValueTypes,
                        legacy : BOOLEAN]),
   namedValues : Seq([value : Nat, type : ValueTypes]),
   assertions : Seq([value : Nat, left : Nat, right : Nat, of : ValueTypes]),
   calibration : [named : BOOLEAN, correction : Nat, type : ValueTypes,
                  indexes : Seq(Nat), indexTypes : Seq(ValueTypes)]]

Ids(p) == 1..Len(p.values)

IsMeasure(v) == v.op \in MeasureOps

\* An id that can be read, of a value of the given type.
Has(p, id, type) == id \in Ids(p) /\ p.values[id].type = type

\* product *= point_count, one sweep after the other.
Products(counts) ==
  LET product[a \in 0..Len(counts)] ==
        IF a = 0 THEN 1 ELSE product[a - 1] * counts[a]
  IN  product

Product(counts) == Products(counts)[Len(counts)]

-----------------------------------------------------------------------------
(* Scripts, as far as the equipment sees them: their sweeps, measurements  *)
(* and assertions.  The calibration is reference - measured; measured -    *)
(* reference may be derived, and each assertion compares it with a         *)
(* constant.  The older form measures one power and gives it no name.      *)

Scripts ==
  [sweeps : Seq([dimension : Dimensions, bounds : Bounds]),
   measurements : Seq(MeasureOps), legacy : BOOLEAN, derived : {0, 1}, assertions : Nat]

AnalyzedByAxis(script) ==                        \* mutant: the product is not limited
  /\ \A a, b \in DOMAIN script.sweeps :
       script.sweeps[a].dimension = script.sweeps[b].dimension => a = b
  /\ \E a \in DOMAIN script.sweeps : script.sweeps[a].dimension = "frequency"
  /\ \A a \in DOMAIN script.sweeps : Planned(script.sweeps[a].bounds)
  /\ \E k \in DOMAIN script.measurements : script.measurements[k] = "MeasurePower"
  /\ script.legacy => Len(script.measurements) = 1
  /\ script.assertions > 0 => script.derived = 1

\* The analyzer: each dimension is swept at most once and frequency is, every
\* sweep and their product keep within the limit, a power is measured, the
\* unnamed form is used once, and what an assertion names is derived.
Analyzed(script) ==
  /\ \A a, b \in DOMAIN script.sweeps :
       script.sweeps[a].dimension = script.sweeps[b].dimension => a = b
  /\ \E a \in DOMAIN script.sweeps : script.sweeps[a].dimension = "frequency"
  /\ \A a \in DOMAIN script.sweeps : Planned(script.sweeps[a].bounds)
  /\ Product([a \in DOMAIN script.sweeps |-> PointCount(script.sweeps[a].bounds)])
       <= MaxSweepPoints
  /\ \E k \in DOMAIN script.measurements : script.measurements[k] = "MeasurePower"
  /\ script.legacy => Len(script.measurements) = 1
  /\ script.assertions > 0 => script.derived = 1

TypeOf(op) == IF op = "Constant" THEN "PowerDelta" ELSE CHOOSE t \in ResultTypes[op] : TRUE

Value(i, op, operands) ==
  [id |-> i, op |-> op, type |-> TypeOf(op), operands |-> operands,
   of |-> IF op = "Compare" THEN "PowerDelta" ELSE TypeOf(op)]

\* run emits the reference, the sweeps and the measurements in the order they
\* are declared, then what is computed from them.  The first power measurement
\* is the one calibrated.
Lower(script) ==
  LET n == Len(script.sweeps)
      m == Len(script.measurements)
      power == {k \in 1..m : script.measurements[k] = "MeasurePower"}
      measured == 1 + n + CHOOSE k \in power : \A j \in power : k <= j
      error == n + m + 1 + script.derived
      correction == error + 2 * script.assertions + 1
      frequency == CHOOSE a \in 1..n : script.sweeps[a].dimension = "frequency"
      count(a) == PointCount(script.sweeps[a].bounds)
  IN  [values |->
         << Value(1, "ReferencePower", <<>>) >>
         \o [a \in 1..n |-> Value(1 + a, SweepOp(script.sweeps[a].dimension), <<>>)]
         \o [k \in 1..m |-> Value(1 + n + k, script.measurements[k], <<>>)]
         \o [i \in 1..script.derived |-> Value(error, "PowerDifference", <<measured, 1>>)]
         \o [i \in 1..(2 * script.assertions) |->
               IF i % 2 = 1 THEN Value(error + i, "Constant", <<>>)
               ELSE Value(error + i, "Compare", <<error, error + i - 1>>)]
         \o << Value(correction, "PowerDifference", <<1, measured>>) >>,
       reference |-> 1,
       measurement |-> measured,
       sweep |-> [frequency |-> 1 + frequency, bounds |-> script.sweeps[frequency].bounds],
       sweeps |-> [a \in 1..n |->
                     [value |-> 1 + a, dimension |-> script.sweeps[a].dimension,
                      bounds |-> script.sweeps[a].bounds, pointCount |-> count(a)]],
       totalPointCount |-> Product([a \in 1..n |-> count(a)]),
       measurements |-> [k \in 1..m |->
                           [value |-> 1 + n + k, op |-> script.measurements[k],
                            type |-> TypeOf(script.measurements[k]),
                            legacy |-> script.legacy]],
       namedValues |-> [i \in 1..script.derived |-> [value |-> error, type |-> "PowerDelta"]],
       assertions |-> [k \in 1..script.assertions |->
                         [value |-> error + 2 * k, left |-> error,
                          right |-> error + 2 * k - 1, of |-> "PowerDelta"]],
       calibration |-> [named |-> TRUE, correction |-> correction, type |-> "PowerDelta",
                        indexes |-> [a \in 1..n |-> 1 + a],
                        indexTypes |-> [a \in 1..n |-> SweepType(script.sweeps[a].dimension)]]]

-----------------------------------------------------------------------------
(* The Validator, check by check in the order of its run.                  *)

\* What an operation requires of the k-th id it reads.
OperandType(v, k) ==
  CASE v.op = "Compare" -> v.of
    [] v.op = "PowerDifference" -> "Power"
    [] v.op = "ApplyPowerDelta" /\ k = 1 -> "Power"
    [] v.op = "ApplyPowerDelta" /\ k = 2 -> "PowerDelta"
    [] OTHER -> v.type

DefinitionsValid(p) ==
  \A i \in Ids(p) :
    LET v == p.values[i]
    IN  /\ v.id = i
        /\ v.type \in ResultTypes[v.op]
        /\ v.op = "Compare" => v.of # "Boolean"
        /\ \A k \in DOMAIN v.operands :
             v.operands[k] < i /\ Has(p, v.operands[k], OperandType(v, k))

Binding(p, id, type, op) == Has(p, id, type) /\ p.values[id].op = op

Counted(p, ops) == Cardinality({i \in Ids(p) : p.values[i].op \in ops})

SweepsValid(p) ==
  /\ \A a \in DOMAIN p.sweeps :
       LET s == p.sweeps[a]
       IN  Binding(p, s.value, SweepType(s.dimension), SweepOp(s.dimension))
  /\ \A a \in DOMAIN p.sweeps : p.sweeps[a].pointCount > 0
  /\ LET product == Product([a \in DOMAIN p.sweeps |-> p.sweeps[a].pointCount])
     IN  product <= MaxSweepPoints /\ product = p.totalPointCount

BaseCountsValid(p) ==
  /\ Counted(p, {"ReferencePower"}) = 1
  /\ Counted(p, SweepOps) = Len(p.sweeps) /\ p.sweeps # <<>>
  /\ Counted(p, MeasureOps) = Len(p.measurements) /\ p.measurements # <<>>
  /\ Binding(p, p.reference, "Power", "ReferencePower")

Axes(p, d) == {a \in DOMAIN p.sweeps : p.sweeps[a].dimension = d}

\* The shapes of sweeps for which validate_base_bindings returns false and
\* reports nothing: run stops, and the empty list of diagnostics says "valid".
StopsSilently(p) ==
  \/ Cardinality(Axes(p, "frequency")) # 1
  \/ Cardinality(Axes(p, "temperature")) > 1
  \/ \E a \in Axes(p, "frequency") : p.sweeps[a].value # p.sweep.frequency

MeasurementsValid(p) ==
  /\ Binding(p, p.measurement, "Power", "MeasurePower")
  /\ \A k \in DOMAIN p.measurements :
       LET m == p.measurements[k]
       IN  Binding(p, m.value, m.type, m.op) /\ m.type \in ResultTypes[m.op]

NamedValuesValid(p) ==
  \A k \in DOMAIN p.namedValues : Has(p, p.namedValues[k].value, p.namedValues[k].type)

\* The comparison a Boolean value stands for, through aliases of it.
Resolved(p, id) ==
  LET under[i \in Ids(p)] ==
        IF p.values[i].op = "Alias" THEN under[p.values[i].operands[1]] ELSE i
  IN  p.values[under[id]]

AssertionsValid(p) ==
  \A k \in DOMAIN p.assertions :
    LET a == p.assertions[k]
    IN  /\ Has(p, a.value, "Boolean")
        /\ Resolved(p, a.value).op = "Compare"
        /\ Resolved(p, a.value).operands = <<a.left, a.right>>
        /\ Resolved(p, a.value).of = a.of

CalibrationValid(p) ==
  LET c == p.calibration
  IN  /\ c.type = "PowerDelta" /\ Has(p, c.correction, "PowerDelta")
      /\ c.indexes = [a \in DOMAIN p.sweeps |-> p.sweeps[a].value]
      /\ c.indexTypes = [a \in DOMAIN p.sweeps |-> SweepType(p.sweeps[a].dimension)]

BaseValid(p) == DefinitionsValid(p) /\ BaseCountsValid(p) /\ SweepsValid(p)

RestValid(p) ==
  MeasurementsValid(p) /\ NamedValuesValid(p) /\ AssertionsValid(p) /\ CalibrationValid(p)

\* validate_program returns no diagnostics.
Accepted(p) == BaseValid(p) /\ (StopsSilently(p) \/ RestValid(p))

\* The layout lowering gives a program: what is measured comes after the
\* reference, in the order the measurements are declared.
Lowered(p) ==
  /\ BaseValid(p) /\ ~StopsSilently(p) /\ RestValid(p)
  /\ \A k \in DOMAIN p.measurements :
       /\ p.reference < p.measurements[k].value
       /\ \A j \in DOMAIN p.measurements :
            j < k => p.measurements[j].value < p.measurements[k].value
  /\ \A i \in Ids(p) : IsMeasure(p.values[i]) =>
       \E k \in DOMAIN p.measurements : p.measurements[k].value = i
=============================================================================
