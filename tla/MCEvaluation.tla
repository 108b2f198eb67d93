----------------------------- MODULE MCEvaluation -----------------------------
(***************************************************************************)
(* A small instance of Evaluation: five scripts that compile (one meaning  *)
(* the same as the first in other words, two off by a bound, one with a    *)
(* second output of the same operation) and one that does not; five        *)
(* requests from supported to unsupported; a case that wants more than it  *)
(* asks for; datasets, corpora and settings that are accepted and refused. *)
(***************************************************************************)
EXTENDS Evaluation, TLC

MCScripts == {"good", "same", "off", "far", "twice", "bad"}

Leafs(op, n) == [op |-> op, operands |-> <<>>, number |-> n]
Of(op, x, y) == [op |-> op, operands |-> <<x, y>>, number |-> 0]

Sweep(d, start, end, step) == [dimension |-> d, start |-> start, end |-> end, step |-> step]

\* error = measured - reference, |error| <= 1, correction = -error.
Basic == <<Leafs("ReferencePower", 10), Leafs("SweepFrequency", 0), Leafs("MeasurePower", 0),
           Of("PowerDifference", 3, 1), Of("NegatePowerDelta", 4, 4),
           Of("AbsoluteValue", 4, 4), Leafs("Constant", 1)>>

\* The same correction, with a constant that cancels.
Roundabout == Basic \o <<Of("AddPowerDelta", 5, 7), Of("SubtractDelta", 8, 7)>>

Program(values, correction, end, measurements) ==
  [values |-> values, reference |-> 1, sweeps |-> <<Sweep("frequency", 1, end, 1)>>,
   measurements |-> measurements, derived |-> <<4>>,
   assertions |-> <<[op |-> "less_equal", type |-> "PowerDelta", left |-> 6, right |-> 7]>>,
   correction |-> correction, indexes |-> <<1>>]

Output(name) == [op |-> "measure_power", name |-> name]

MCPrograms ==
  [good |-> Program(Basic, 5, 3, <<Output("p")>>),
   same |-> Program(Roundabout, 9, 3, <<Output("q")>>),
   off |-> Program(Basic, 5, 4, <<Output("p")>>),
   far |-> Program(Basic, 5, 5, <<Output("p")>>),
   twice |-> Program(Basic, 5, 3, <<Output("p"), Output("q")>>)]

-----------------------------------------------------------------------------
Asks(operations, sweeps, limits) ==
  [sweeps |-> sweeps, ordered |-> FALSE, powers |-> IF sweeps = <<>> THEN <<>> ELSE <<10>>,
   measurements |-> IF sweeps = <<>> THEN <<>> ELSE <<Output("")>>,
   over |-> <<>>, relation |-> IF limits = <<>> THEN "none" ELSE "reference_minus_measured",
   calibrate |-> limits # <<>>, limits |-> limits, operations |-> operations,
   units |-> IF sweeps = <<>> THEN <<>> ELSE <<"frequency">>,
   terms |-> IF limits = <<>> THEN {} ELSE {"calibration", "power_error"},
   compared |-> IF limits = <<>> THEN "none" ELSE "inclusive", words |-> {"sweep", "power"}]

OneToThree == <<[form |-> "range", dimension |-> "frequency",
                 sweep |-> Sweep("frequency", 1, 3, 1)]>>
WithinOne == <<[op |-> "less_equal", type |-> "PowerDelta", absolute |-> TRUE,
                right |-> One(<<"Constant", 1>>)]>>

Full == Asks({"sweep.frequency"}, OneToThree, WithinOne)
Partial == Asks({"sweep.frequency", "sweep.power"}, OneToThree, <<>>)
PowerSweep == Asks({"sweep.power"}, <<>>, <<>>)
Vague == Asks({"range.power"}, <<>>, <<>>)
TwoPowers == [Full EXCEPT !.powers = <<10, 12>>]

Selector(id, kind, of, constrain) ==
  [id |-> id, kind |-> kind, of |-> of, at |-> 1, constrain |-> constrain]

Case(id, prompt, support, expected, selectors) ==
  [id |-> id, schema |-> 3, support |-> support, blank |-> FALSE, prompt |-> prompt,
   expectedValid |-> support \in {"Supported", "PartiallySupported"},
   expected |-> expected, selectors |-> selectors]

Disk ==
  [full |-> Case("full", Full, "Supported", "good",
             <<Selector("r1", "Sweep", "frequency", {"step", "order"}),
               Selector("r2", "Measurement", "measure_power", {}),
               Selector("r3", "Assertion", "", {}), Selector("r4", "Calibration", "", {}),
               Selector("r5", "ReferencePower", "", {})>>),
   named |-> Case("named", TwoPowers, "Supported", "twice",
             <<Selector("r1", "Measurement", "measure_power", {"name"})>>),
   strict |-> Case("strict", Full, "Supported", "good",     \* more than it asks for
             <<Selector("r1", "Measurement", "measure_power", {"name"})>>),
   partial |-> Case("partial", Partial, "PartiallySupported", "good",
             <<Selector("r1", "Sweep", "frequency", {"step"})>>),
   power |-> Case("power", PowerSweep, "Unsupported", "bad", <<>>),
   vague |-> Case("vague", Vague, "Uncertain", "bad", <<>>)]

\* One thing wrong with one case, or with the list of cases.
Flaws ==
  [foreign |-> <<"full", [id |-> "power"]>>, contrary |-> <<"full", [expectedValid |-> FALSE]>>,
   old |-> <<"full", [schema |-> 1]>>,
   unasked |-> <<"full", [schema |-> 2, selectors |-> <<>>]>>,
   valid |-> <<"power", [expected |-> "good"]>>, missing |-> <<"power", [expected |-> NoScript]>>,
   blank |-> <<"vague", [blank |-> TRUE]>>,
   nothing |-> <<"named", [selectors |->
                             <<Selector("r1", "Measurement", "measure_evm", {})>>]>>]

Listed == <<"full", "named", "partial", "power", "vague", "strict">>

MCDatasets ==
  [d \in {"whole", "baseline", "unlisted", "again"} \cup DOMAIN Flaws |->
     [cases |-> IF d = "unlisted" THEN SubSeq(Listed, 1, 5)
                ELSE IF d = "again" THEN Append(Listed, "full") ELSE Listed,
      baseline |-> IF d = "baseline" THEN 7 ELSE 0,
      disk |-> [c \in DOMAIN Disk |->
                  IF d \in DOMAIN Flaws /\ Flaws[d][1] = c THEN Flaws[d][2] @@ Disk[c]
                  ELSE Disk[c]]]]

-----------------------------------------------------------------------------
Example(id, operations, words, bytes, shape) ==
  [id |-> id, operations |-> operations, dimensions |-> <<"frequency">>, steps |-> {"sweep_range"},
   dependencies |-> 0, strictness |-> "none", complexity |-> "basic", words |-> words,
   bytes |-> bytes, shape |-> shape, program |-> "good"]

MCExamples ==
  <<Example("e1", {"reference_power", "sweep_frequency", "measure_power"}, {"a", "b"}, 40, "s1"),
    Example("e2", {"reference_power", "sweep_frequency"}, {"c"}, 10, "s1"),
    Example("e3", {"reference_power", "measure_power", "derive_calibration"}, {"d"}, 36, "s2"),
    Example("e4", {"sweep_temperature", "measure_evm"}, {"sweep", "power"}, 17, "s3"),
    Example("e5", {"measure_power"}, {"a", "b", "c", "e"}, 16, "s4")>>

MCCorpora ==
  [c \in {"whole", "empty", "changed", "again", "foreign"} |->
     [examples |-> CASE c = "empty" -> <<>>
                     [] c = "again" -> Append(MCExamples, MCExamples[1])
                     [] c = "foreign" ->
                          Append(MCExamples, Example("e6", {"sweep_power"}, {"f"}, 8, "s5"))
                     [] OTHER -> MCExamples,
      digestMatches |-> c # "changed"]]

Plan(caller, only, models, repetitions) ==
  [caller |-> caller, dataset |-> "whole", only |-> only, models |-> models,
   repetitions |-> repetitions, structural |-> FALSE, corpus |-> "empty",
   retrieval |-> [topK |-> 1, budget |-> 1, unit |-> "bytes"]]

Structural(case, corpus, topK, budget, unit) ==
  [Plan("ai_eval", {case}, <<"m1">>, 1) EXCEPT
     !.structural = TRUE, !.corpus = corpus,
     !.retrieval = [topK |-> topK, budget |-> budget, unit |-> unit]]

MCPlans ==
  {Plan("ai_eval", {"full"}, <<"m1", "m2">>, 1), Plan("ai_eval", {"full", "power"}, <<"m1">>, 1),
   Plan("ai_eval", {"partial"}, <<"m1">>, 2), Plan("ai_eval", {"power"}, <<"m1", "m2">>, 2),
   Plan("ai_eval", {"named", "power"}, <<"m1">>, 1), Plan("ai_eval", {"vague"}, <<"m1">>, 1),
   Plan("ai_eval", {"strict"}, <<"m1">>, 1), Plan("ai_eval", {"absent"}, <<"m1">>, 1),
   Plan("ai_eval", {"power"}, <<"m1", "m1">>, 1),
   Plan("host", {"full"}, <<"m1">>, 2), Plan("host", {"power"}, <<"m1", "m2">>, 2),
   [Plan("host", {"power"}, <<"m1">>, 1) EXCEPT !.structural = TRUE]}
  \cup {[Plan("ai_eval", {}, <<"m1">>, 1) EXCEPT !.dataset = d] :
           d \in {"baseline", "unlisted", "again"} \cup DOMAIN Flaws}
  \cup {Structural("power", c, 1, 40, "bytes") : c \in {"empty", "changed", "again", "foreign"}}
  \cup {Structural(case, "whole", topK, budget, unit) :
          case \in {"full", "partial", "power", "vague"}, topK \in 1..3,
          budget \in {9, 20, 60}, unit \in {"bytes", "tokens"}}
=============================================================================
