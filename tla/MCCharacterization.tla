------------------------- MODULE MCCharacterization -------------------------
(***************************************************************************)
(* Compiled scripts with one sweep, and with two in either order, run by   *)
(* horusrf-run or by another caller of the runtime, and programs such a    *)
(* caller may assemble: some the validation or the planning rejects, some  *)
(* it accepts though no script compiles to them.                           *)
(***************************************************************************)
EXTENDS CommandLine

Bound(a, b, t) == [start |-> a, end |-> b, step |-> t]
F(b) == [dimension |-> "frequency", bounds |-> b]
T(b) == [dimension |-> "temperature", bounds |-> b]
Script(sweeps, measurements, assertions) ==
  [sweeps |-> sweeps, measurements |-> measurements, legacy |-> FALSE, derived |-> 1,
   assertions |-> assertions]

P == "MeasurePower"
E == "MeasureEvm"
D == "MeasureFrequencyError"

\* The older form, without names.
Unnamed == [Script(<<F(Bound(0, 10, 10))>>, <<P>>, 0) EXCEPT !.legacy = TRUE, !.derived = 0]

MCWritten ==
  {Unnamed,
   [Unnamed EXCEPT !.measurements = <<P, P>>],                      \* unnamed twice
   Script(<<F(Bound(0, 19, 10))>>, <<E, P>>, 2),
   Script(<<F(Bound(0, 10, 10)), T(Bound(0, 29, 10))>>, <<P>>, 1),
   Script(<<T(Bound(5, 15, 10)), F(Bound(0, 15, 10))>>, <<D, P, E>>, 1),
   Script(<<F(Bound(0, 18, 9))>>, <<P, P>>, 0),
   Script(<<F(Bound(0, 90, 10))>>, <<P>>, 0),                       \* too many points
   Script(<<F(Bound(0, 20, 10)), T(Bound(0, 20, 10))>>, <<P>>, 0),  \* too large a product
   Script(<<F(Bound(0, 10, 10))>>, <<E>>, 0)}                       \* no power measured

Simple == Lower(Script(<<F(Bound(0, 10, 10))>>, <<P>>, 0))
Square == Lower(Script(<<F(Bound(0, 10, 10)), T(Bound(0, 10, 10))>>, <<P>>, 0))

\* The measurement precedes the reference, which nothing else reads before.
ReferenceLate ==
  [Simple EXCEPT !.values = << Value(1, "SweepFrequency", <<>>), Value(2, P, <<>>),
                               Value(3, "ReferencePower", <<>>),
                               Value(4, "PowerDifference", <<2, 3>>),
                               Value(5, "PowerDifference", <<3, 2>>) >>,
                 !.reference = 3, !.measurement = 2, !.sweep.frequency = 1,
                 !.sweeps[1].value = 1, !.measurements[1].value = 2,
                 !.calibration.indexes = <<1>>]

TwoTemperatures ==
  LET s == Lower(Script(<<T(Bound(0, 0, 10)), F(Bound(0, 10, 10)), T(Bound(0, 0, 10))>>, <<P>>, 0))
  IN  [s EXCEPT !.calibration.correction = 9]

MCAssembled ==
  {ReferenceLate, TwoTemperatures,
   [TwoTemperatures EXCEPT !.measurements[1].op = E],               \* another than read
   Lower(Script(<<F(Bound(0, 90, 10))>>, <<P>>, 0)),
   [Simple EXCEPT !.sweep.bounds = Bound(0, 10, 0)],                \* no step
   [Simple EXCEPT !.calibration.named = FALSE],
   [Square EXCEPT !.sweeps[2].bounds = Bound(0, 20, 10)],           \* another count
   [Square EXCEPT !.sweeps[1].bounds = Bound(0, 20, 10),            \* too many after all
                  !.sweeps[2].bounds = Bound(0, 20, 10)],
   [Square EXCEPT !.sweeps[1].pointCount = 1, !.totalPointCount = 2]}
=============================================================================
