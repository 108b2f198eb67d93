--------------------------- MODULE ExampleRetrieval ----------------------------
(***************************************************************************)
(* Structural retrieval: what an instruction asks for, how well each       *)
(* example of the corpus fits, and which examples go into the prompt.      *)
(* Scores are the code's doubles times Scale, exact for the denominators   *)
(* up to ten that occur.                                                   *)
(***************************************************************************)
EXTENDS RequirementVerification


Scale == 5040

\* The similarity of two texts, as sets of words; 0.72 is "the same".
Similarity(a, b) ==
  IF a \cup b = {} THEN Scale ELSE (Scale * Cardinality(a \cap b)) \div Cardinality(a \cup b)

-----------------------------------------------------------------------------
(* load_retrieval_corpus.                                                  *)

SupportedOperations ==
  {"reference_power", "sweep_frequency", "sweep_temperature", "measure_power", "measure_evm",
   "measure_frequency_error", "derive_power_error", "derive_power_delta", "assert_power",
   "assert_evm", "assert_frequency_error", "assert_power_delta", "derive_calibration"}

\* Examples with one id each, made of known operations and programs that
\* are among the compiling ones, and the digest the manifest states.  Any
\* diagnostic refuses all.
CorpusAccepted(c, compiling) ==
  /\ c.digestMatches /\ c.examples # <<>>
  /\ IsInjective([k \in DOMAIN c.examples |-> c.examples[k].id])
  /\ \A k \in DOMAIN c.examples :
       /\ c.examples[k].operations \subseteq SupportedOperations
       /\ c.examples[k].program \in compiling

-----------------------------------------------------------------------------
(* analyze_retrieval_query.                                                *)

MergeStrictness(a, b) ==
  IF b = "none" THEN a ELSE IF a \in {"none", b} THEN b ELSE "mixed"

Strictness(op) == IF op \in {"less", "greater"} THEN "strict" ELSE "inclusive"

AssertionOperation(type) ==
  CASE type = "PowerDelta" -> "assert_power_delta"
    [] type = "Ratio" -> "assert_evm"
    [] type = "FrequencyDelta" -> "assert_frequency_error"

\* The operations a high-confidence clause stands for.
OperationsOf(c) ==
  CASE c.kind = "ReferencePower" -> {"reference_power"}
    [] c.kind = "Sweep" -> {"sweep_" \o c.want.dimension}
    [] c.kind = "Measurement" -> {c.want.op}
    [] c.kind = "Assertion" -> {AssertionOperation(c.want.type)}
    [] c.kind = "Calibration" -> {"derive_calibration"}

\* Dimensions in the order of the clauses, then of the support assessment,
\* then of the first unit of each in the text.
QueryDimensions(i) ==
  LET clauses == SelectSeq(Extract(i), LAMBDA c : c.kind = "Sweep" /\ c.typed)
      supported == SelectSeq(<<"sweep.frequency", "sweep.temperature", "fixed.frequency">>,
                             LAMBDA o : o \in i.operations /\ ClauseStatus(o) = "Supported")
      all == [k \in DOMAIN clauses |-> clauses[k].want.dimension]
             \o [k \in DOMAIN supported |->
                   IF supported[k] = "sweep.temperature" THEN "temperature" ELSE "frequency"]
             \o i.units
      add(listed, d) == IF d \in Range(listed) THEN listed ELSE Append(listed, d)
  IN  FoldLeft(add, <<>>, all)

\* Words that compare add the assertions the text names.
ComparedOperations(i) ==
  {"assert_" \o t : t \in {"evm", "frequency_error"} \cap i.terms}
  \cup (IF "power_error" \in i.terms THEN {"assert_power_delta"}
        ELSE IF "power" \in i.terms THEN {"assert_power"} ELSE {})

Query(i) ==
  LET clauses == SelectSeq(Extract(i), LAMBDA c : c.confidence = "High")
      limits == SelectSeq(clauses, LAMBDA c : c.kind = "Assertion")
      dims == QueryDimensions(i)
      derived == (IF "power_error" \in i.terms THEN {"derive_power_error"} ELSE {})
                 \cup (IF "negated_error" \in i.terms THEN {"derive_power_delta"} ELSE {})
      calibration == "calibration" \in i.terms \/ Has(clauses, LAMBDA c : c.kind = "Calibration")
      operations ==
        UNION {OperationsOf(clauses[k]) : k \in DOMAIN clauses}
        \cup {"sweep_" \o d : d \in Range(dims)} \cup derived
        \cup (IF calibration THEN {"derive_calibration"} ELSE {})
        \cup (IF i.compared = "none" THEN {} ELSE ComparedOperations(i))
      chain == "chain" \in i.terms \/ Cardinality(derived) = 2
      strictness == MergeStrictness(
        FoldLeft(LAMBDA s, c : MergeStrictness(s, Strictness(c.want.op)), "none", limits),
        i.compared)
  IN  [operations |-> operations, dimensions |-> dims, calibration |-> calibration,
       unsupported |-> {o \in i.operations : ClauseStatus(o) = "Unsupported"},
       fixed |-> \/ /\ "fixed.frequency" \in i.operations
                    /\ ClauseStatus("fixed.frequency") = "Supported"
                 \/ Has(clauses, LAMBDA c : c.kind = "Sweep" /\ "step" \notin c.constrain),
       named |-> \/ "named" \in i.terms
                 \/ Has(clauses, LAMBDA c : c.kind = "Measurement" /\ c.constrain # {}),
       chain |-> chain, strictness |-> strictness, words |-> i.words,
       complexity |->
         IF \/ chain
            \/ Cardinality(operations \cap {"derive_calibration", "derive_power_error",
                                            "derive_power_delta"}) >= 2
         THEN "advanced"
         ELSE IF Len(dims) >= 2 \/ Cardinality(operations) >= 6 \/ strictness = "mixed"
         THEN "intermediate" ELSE "basic"]

-----------------------------------------------------------------------------
(* rank_example.                                                           *)

\* Dimensions in the asked order; a partial match counts the longest prefix
\* of the asked ones found in order.
DimensionScore(asked, offered) ==
  LET take(cursor, d) ==
        IF cursor < Len(asked) /\ asked[cursor + 1] = d THEN cursor + 1 ELSE cursor
  IN  IF asked = <<>> THEN 0
      ELSE IF asked = offered THEN 18 * Scale
      ELSE (10 * Scale * FoldLeft(take, 0, offered)) \div Len(asked)

Fraction(weight, part, whole) == (weight * Scale * part) \div whole

\* The typed features a query asks for, and those an example has.
TypedAsked(q) ==
  (IF q.strictness = "none" THEN {} ELSE {"strictness"})
  \cup (IF q.calibration THEN {"calibration"} ELSE {})
  \cup (IF q.fixed THEN {"fixed"} ELSE {})

TypedMatched(q, e) ==
  {t \in TypedAsked(q) :
     CASE t = "strictness" -> e.strictness \in {q.strictness, "mixed"}
       [] t = "calibration" -> "derive_calibration" \in e.operations
       [] t = "fixed" -> "sweep_single_frequency_point" \in e.steps}

\* Operations of the support assessment under the names that examples use.
ExampleName ==
  [o \in {"sweep.frequency", "sweep.temperature", "sweep.power", "fixed.frequency"} |->
     CASE o = "sweep.frequency" -> "sweep_frequency"
       [] o = "sweep.temperature" -> "sweep_temperature"
       [] o = "sweep.power" -> "sweep_power"
       [] o = "fixed.frequency" -> "fixed_frequency"]

\* Operations nobody asked for; those that cannot be done count twice more.
Conflicts(q, e) ==
  Cardinality((e.operations \ {"reference_power", "derive_calibration"}) \ q.operations)
  + 2 * Cardinality({o \in q.unsupported \cap DOMAIN ExampleName :
                       ExampleName[o] \in e.operations})

Complete(q, e) ==
  /\ q.operations \subseteq e.operations
  /\ q.dimensions \in {<<>>, e.dimensions}
  /\ TypedMatched(q, e) = TypedAsked(q)

\* The total, with the penalty for operations nobody asked for.
Score(q, e) ==
  LET bonus(condition, weight) == IF condition THEN weight * Scale ELSE 0
      typed == TypedAsked(q)
  IN  (IF q.operations = {} THEN 42 * Scale
       ELSE Fraction(42, Cardinality(q.operations \cap e.operations), Cardinality(q.operations)))
      + DimensionScore(q.dimensions, e.dimensions)
      + bonus(q.fixed /\ "sweep_single_frequency_point" \in e.steps, 6)
      + bonus(q.named /\ "named_measurement" \in e.steps, 3)
      + bonus(q.chain /\ e.dependencies >= 2, 5)
      + (IF typed = {} THEN 0
         ELSE Fraction(14, Cardinality(TypedMatched(q, e)), Cardinality(typed)))
      + 8 * Similarity(q.words, e.words)
      + bonus(q.complexity = e.complexity, 5)
      + bonus(Complete(q, e), 9)
      - (5 * Scale * Conflicts(q, e)) \div 2

-----------------------------------------------------------------------------
(* ExampleRetriever::retrieve.                                             *)

\* Two examples say the same thing in other words or with other numbers.
NearDuplicate(a, b) ==
  \/ 100 * Similarity(a.words, b.words) >= 72 * Scale
  \/ a.shape = b.shape

Cost(e, unit) == IF unit = "bytes" THEN e.bytes ELSE (e.bytes + 3) \div 4

NothingRetrieved(reason) ==
  [diagnostic |-> reason, selected |-> <<>>, suppressed |-> {}, rejected |-> {}, used |-> 0]

TakeOverBudget(corpus, settings, r, e) ==        \* mutant: each example has the whole budget
  IF Len(r.selected) >= settings.topK THEN r
  ELSE IF \E k \in Range(r.selected) : NearDuplicate(corpus[k], corpus[e])
  THEN [r EXCEPT !.suppressed = @ \cup {e}]
  ELSE IF Cost(corpus[e], settings.unit) > settings.budget
  THEN [r EXCEPT !.rejected = @ \cup {e}]
  ELSE [r EXCEPT !.selected = Append(@, e), !.used = @ + Cost(corpus[e], settings.unit)]

\* One ranked example: taken unless it repeats one taken before or does not
\* fit into what the budget has left.
TakeExample(corpus, settings, r, e) ==
  IF Len(r.selected) >= settings.topK THEN r
  ELSE IF \E k \in Range(r.selected) : NearDuplicate(corpus[k], corpus[e])
  THEN [r EXCEPT !.suppressed = @ \cup {e}]
  ELSE IF Cost(corpus[e], settings.unit) > settings.budget - r.used
  THEN [r EXCEPT !.rejected = @ \cup {e}]
  ELSE [r EXCEPT !.selected = Append(@, e), !.used = @ + Cost(corpus[e], settings.unit)]

\* Best first, ties in corpus order, only those that score at all.
Ranked(q, corpus) ==
  LET score == [e \in DOMAIN corpus |-> Score(q, corpus[e])]
      scored == {e \in DOMAIN corpus : score[e] > 0}
      upTo(e) == {d \in scored : score[d] > score[e] \/ (score[d] = score[e] /\ d <= e)}
  IN  [n \in 1..Cardinality(scored) |-> CHOOSE e \in scored : Cardinality(upTo(e)) = n]

Selection(corpus, settings, ranked) ==
  FoldLeft(LAMBDA r, e : TakeExample(corpus, settings, r, e), NothingRetrieved("none"), ranked)

\* For the query of an instruction that is not blank.
Retrieve(q, corpus, settings) ==
  LET taken == Selection(corpus, settings, Ranked(q, corpus))
  IN  IF settings.topK \notin 1..3 THEN NothingRetrieved("InvalidTopK")
      ELSE IF corpus = <<>> THEN NothingRetrieved("EmptyCorpus")
      ELSE IF q.operations = {} /\ q.dimensions = <<>>
      THEN NothingRetrieved("NoStructuralEvidence")
      ELSE IF taken.selected = <<>>
      THEN [taken EXCEPT !.diagnostic = "NoMatchingExample"] ELSE taken

=============================================================================
