------------------------ MODULE RequirementVerification ------------------------
(***************************************************************************)
(* What a request asks for and whether a program does it: the support      *)
(* assessment of an instruction, the clauses extracted from it, the facts  *)
(* projected from a compiled program with its expressions normalised, and  *)
(* the verdict.  An instruction is the record of what the patterns of      *)
(* src/ai find in its text, in text order; numbers are in canonical units. *)
(***************************************************************************)
EXTENDS Integers, Sequences, FiniteSets, SequencesExt


CONSTANT SweepDimensions   \* the dimensions the compiler can sweep

Has(s, P(_)) == \E k \in DOMAIN s : P(s[k])

-----------------------------------------------------------------------------
(* Support: clauses name operations, of which the compiler knows the       *)
(* sweeps in SweepDimensions; a power range may mean a sweep or a limit.   *)

ClauseStatus(operation) ==
  CASE operation = "range.power" -> "Uncertain"
    [] operation \in {"sweep." \o d : d \in SweepDimensions} -> "Supported"
    [] operation = "fixed.frequency" /\ "frequency" \in SweepDimensions -> "Supported"
    [] OTHER -> "Unsupported"

Assess(operations) ==
  LET with(status) == {o \in operations : ClauseStatus(o) = status}
      primary == with("Supported") \ {"fixed.frequency"}
  IN  CASE with("Unsupported") # {} /\ primary = {} /\ with("Uncertain") = {} -> "Unsupported"
        [] with("Unsupported") # {} -> "PartiallySupported"
        [] with("Uncertain") # {} ->
             IF with("Supported") # {} THEN "PartiallySupported" ELSE "Uncertain"
        [] OTHER -> "Supported"

-----------------------------------------------------------------------------
(* Facts of a program.  Its values are ir::Program::values: an operand is  *)
(* the position of an earlier value.  An expression is normalised to the   *)
(* non-zero coefficients of its leaves; a leaf is named by what it is, and *)
(* by its position only where the code has no better name.                 *)

Leaf(v, i) ==
  IF v.op \in {"Constant", "ReferencePower"} THEN <<v.op, v.number>>
  ELSE IF v.op \in {"SweepFrequency", "SweepTemperature", "MeasurePower", "MeasureEvm",
                    "MeasureFrequencyError"}
  THEN <<v.op>>
  ELSE <<"value", i>>

One(term) == [t \in {term} |-> 1]

\* add_scaled: terms that cancel are erased.
AddScaled(f, g, scale) ==
  LET coefficient(h, t) == IF t \in DOMAIN h THEN h[t] ELSE 0
      sum(t) == coefficient(f, t) + scale * coefficient(g, t)
  IN  [t \in {t \in DOMAIN f \cup DOMAIN g : sum(t) # 0} |-> sum(t)]

\* Normalizer::linear and normalize: they differ where a power has a delta applied.
Normalized(values) ==
  LET N[i \in DOMAIN values] ==
        LET v == values[i]
            x == N[v.operands[1]]
            y == N[v.operands[2]]
            same(f) == [linear |-> f, value |-> f]
        IN  CASE v.op = "Alias" -> x
              [] v.op \in {"NegateDelta", "NegatePowerDelta"} ->
                   same(AddScaled(<<>>, x.linear, -1))
              [] v.op \in {"AddDelta", "AddPowerDelta"} ->
                   same(AddScaled(x.linear, y.linear, 1))
              [] v.op \in {"SubtractDelta", "PowerDifference"} ->
                   same(AddScaled(x.linear, y.linear, -1))
              [] v.op = "AbsoluteValue" -> same(One(<<"absolute", x.value>>))
              [] v.op = "ApplyPowerDelta" ->
                   [linear |-> One(Leaf(v, i)), value |-> One(<<"apply", x.value, y.value>>)]
              [] OTHER -> same(One(Leaf(v, i)))
  IN  [i \in DOMAIN values |-> N[i].value]

IsAbsolute(expression) ==
  \E t \in DOMAIN expression : t[1] = "absolute"

Facts(p) ==
  LET expression == Normalized(p.values)
  IN  [reference |-> p.values[p.reference].number,
       sweeps |-> p.sweeps,
       measurements |-> p.measurements,
       derived |-> [k \in DOMAIN p.derived |-> expression[p.derived[k]]],
       assertions |-> [k \in DOMAIN p.assertions |->
                         [op |-> p.assertions[k].op, type |-> p.assertions[k].type,
                          left |-> expression[p.assertions[k].left],
                          right |-> expression[p.assertions[k].right]]],
       correction |-> expression[p.correction],
       indexes |-> [k \in DOMAIN p.indexes |-> p.sweeps[p.indexes[k]].dimension]]

\* compare_script_semantics: names of measurements, derived values and
\* assertions do not count, nor does the order they are declared in.
SameSemantics(f, g) ==
  LET bag(s) == [x \in Range(s) |-> Cardinality({k \in DOMAIN s : s[k] = x})]
      operations(h) == [k \in DOMAIN h.measurements |-> h.measurements[k].op]
  IN  /\ f.reference = g.reference /\ f.sweeps = g.sweeps
      /\ bag(operations(f)) = bag(operations(g))
      /\ bag(f.derived) = bag(g.derived) /\ bag(f.assertions) = bag(g.assertions)
      /\ f.indexes = g.indexes /\ f.correction = g.correction

-----------------------------------------------------------------------------
(* Clauses: what is wanted and which parts of it are constrained.  An      *)
(* untyped clause says that something was asked and not understood.        *)

Clause(kind, want, constrain) ==
  [kind |-> kind, typed |-> TRUE, confidence |-> "High", want |-> want,
   constrain |-> constrain]

Ambiguous(kind) ==
  [kind |-> kind, typed |-> FALSE, confidence |-> "Ambiguous", want |-> <<>>,
   constrain |-> {}]

When(condition, clause) == IF condition THEN <<clause>> ELSE <<>>

\* A fixed frequency or a frequency step is read only where no frequency range
\* is given; the order is asked for only in words.
SweepClauses(i) ==
  LET isRange(m) == m.form = "range" /\ m.dimension = "frequency"
      read == SelectSeq(i.sweeps, LAMBDA m : m.form = "range" \/ ~Has(i.sweeps, isRange))
      parts(m) == (IF m.form = "step" THEN {} ELSE {"bounds"})
                  \cup (IF m.form = "fixed" THEN {} ELSE {"step"})
                  \cup (IF i.ordered THEN {"order"} ELSE {})
  IN  [k \in DOMAIN read |->
         Clause("Sweep", [sweep |-> read[k].sweep, dimension |-> read[k].dimension, order |-> k],
                parts(read[k]))]

\* Several different powers in one request have no certain role.
PowerClauses(i) ==
  When(Cardinality(Range(i.powers)) = 1,
       Clause("ReferencePower", i.powers[1], {}))
  \o When(Cardinality(Range(i.powers)) > 1, Ambiguous("ReferencePower"))

MeasurementClauses(i) ==
  [k \in DOMAIN i.measurements |->
     Clause("Measurement", i.measurements[k],
            IF i.measurements[k].name = "" THEN {} ELSE {"name"})]

\* "Both dimensions" are those of the sweeps read before; a calibration asked
\* for without a direction cannot be checked.
CalibrationClauses(i) ==
  LET sweeps == SweepClauses(i)
      indexes == IF i.over = <<"both">>
                 THEN [k \in DOMAIN sweeps |-> sweeps[k].want.dimension] ELSE i.over
      parts == (IF i.relation = "none" THEN {} ELSE {"correction"})
               \cup (IF indexes = <<>> THEN {} ELSE {"indexes"})
  IN  When(parts # {},
           Clause("Calibration", [relation |-> i.relation, indexes |-> indexes], parts))
      \o When(i.calibrate /\ i.relation = "none", Ambiguous("Calibration"))

LimitClauses(i) ==
  [k \in DOMAIN i.limits |-> Clause("Assertion", i.limits[k], {})]

Extract(i) ==
  SweepClauses(i) \o PowerClauses(i) \o MeasurementClauses(i) \o CalibrationClauses(i)
  \o LimitClauses(i)
  \o When("range.power" \in i.operations /\ i.powers = <<>>, Ambiguous("Sweep"))

\* calibration_correction_identity: the stated direction, for this program's
\* reference power.
Correction(relation, reference) ==
  LET sign == IF relation = "reference_minus_measured" THEN 1 ELSE -1
  IN  [t \in {<<"ReferencePower", reference>>, <<"MeasurePower">>} |->
         IF t = <<"MeasurePower">> THEN -sign ELSE sign]

-----------------------------------------------------------------------------
(* Verification.                                                           *)

SweepHolds(c, facts) ==
  LET of == {k \in DOMAIN facts.sweeps : facts.sweeps[k].dimension = c.want.dimension}
      k == CHOOSE k \in of : \A j \in of : k <= j
      found == facts.sweeps[k]
  IN  /\ of # {}
      /\ "bounds" \in c.constrain =>
           found.start = c.want.sweep.start /\ found.end = c.want.sweep.end
      /\ "step" \in c.constrain => found.step = c.want.sweep.step
      /\ "order" \in c.constrain => k = c.want.order

\* Only the first measurement of the operation is looked at.
MeasurementHolds(c, facts) ==
  LET of == {k \in DOMAIN facts.measurements : facts.measurements[k].op = c.want.op}
      k == CHOOSE k \in of : \A j \in of : k <= j
  IN  /\ of # {}
      /\ "name" \in c.constrain => facts.measurements[k].name = c.want.name

AssertionHolds(c, facts) ==
  \E k \in DOMAIN facts.assertions :
    LET a == facts.assertions[k]
    IN  /\ a.op = c.want.op /\ a.type = c.want.type /\ a.right = c.want.right
        /\ IF "left" \in c.constrain THEN a.left = c.want.left
           ELSE c.want.absolute => IsAbsolute(a.left)

CalibrationHolds(c, facts) ==
  /\ "correction" \in c.constrain =>
       facts.correction = IF "relation" \in DOMAIN c.want
                          THEN Correction(c.want.relation, facts.reference)
                          ELSE c.want.correction
  /\ "indexes" \in c.constrain => facts.indexes = c.want.indexes

Outcome(c, facts) ==
  IF ~c.typed THEN "Unknown"
  ELSE IF CASE c.kind = "ReferencePower" -> facts.reference = c.want
            [] c.kind = "Sweep" -> SweepHolds(c, facts)
            [] c.kind = "Measurement" -> MeasurementHolds(c, facts)
            [] c.kind = "Assertion" -> AssertionHolds(c, facts)
            [] c.kind = "Calibration" -> CalibrationHolds(c, facts)
  THEN "Satisfied" ELSE "Violated"

\* The status of the whole; no clause is ever found unsupported here.
Verify(clauses, facts) ==
  LET some(status) == \E k \in DOMAIN clauses : Outcome(clauses[k], facts) = status
  IN  CASE clauses = <<>> -> "NotEvaluated"
        [] some("Violated") -> "Violated"
        [] some("Unknown") -> "Unknown"
        [] OTHER -> "Satisfied"

\* What an outcome quotes: of a sweep its place, not its bounds, of a measurement
\* the first of the operation, of a calibration the corrections, not the indexes.
Quoted(c, facts) ==
  LET first(s, P(_)) == {k \in DOMAIN s : P(s[k]) /\ \A j \in 1..(k - 1) : ~P(s[j])}
  IN  <<c.kind,
        CASE c.kind = "ReferencePower" -> facts.reference
          [] c.kind = "Sweep" -> first(facts.sweeps, LAMBDA s : s.dimension = c.want.dimension)
          [] c.kind = "Measurement" ->
               {facts.measurements[k] :
                  k \in first(facts.measurements, LAMBDA m : m.op = c.want.op)}
          [] c.kind = "Calibration" ->
               <<facts.correction, IF "correction" \in c.constrain
                                   THEN Correction(c.want.relation, facts.reference) ELSE <<>>>>
          [] OTHER -> "missing">>

\* high_confidence_violation_set: which clauses fail, and on what.
HighViolations(clauses, facts) ==
  {<<k, Quoted(clauses[k], facts)>> :
     k \in {k \in DOMAIN clauses : /\ clauses[k].confidence = "High"
                                   /\ Outcome(clauses[k], facts) = "Violated"}}

=============================================================================
