----------------------------- MODULE GoldenDataset -----------------------------
(***************************************************************************)
(* load_golden_dataset: a manifest lists case directories; each holds the  *)
(* metadata, the prompt and the expected script of one case.  The dataset  *)
(* is the list of cases, or nothing when any diagnostic was raised.  A     *)
(* dataset on disk is [cases |-> names listed, baseline |-> how many of    *)
(* them the manifest calls old, disk |-> what each directory holds].       *)
(***************************************************************************)
EXTENDS RequirementVerification


CONSTANTS
  Scripts, NoScript,  \* scripts, and a file that is missing or blank
  Programs       \* [valid scripts -> programs]; a script outside is rejected

ASSUME DatasetAssumption ==
  /\ DOMAIN Programs \subseteq Scripts
  /\ NoScript \notin Scripts

\* A program holds its parts in lists.
ASSUME ProgramsAssumption ==
  \A s \in DOMAIN Programs :
    /\ Programs[s].sweeps \in Seq(Range(Programs[s].sweeps))
    /\ Programs[s].measurements \in Seq(Range(Programs[s].measurements))
    /\ Programs[s].assertions \in Seq(Range(Programs[s].assertions))

Compiles(s) == s \in DOMAIN Programs
FactsOf == [s \in DOMAIN Programs |-> Facts(Programs[s])]

-----------------------------------------------------------------------------
\* Schema 1 and 2 derive the expected support, schema 3 states it.
ExpectedSupport(d) ==
  IF d.schema = 3 THEN d.support
  ELSE IF d.expectedValid THEN "Supported" ELSE "Unsupported"

SupportStates == {"Supported", "PartiallySupported", "Unsupported", "Uncertain"}

RequirementKinds == {"ReferencePower", "Sweep", "Measurement", "Assertion", "Calibration"}

\* parse_metadata: a case expects a program exactly when its request is
\* supported at least in part, and only such a case has requirements.
MetadataAccepted(d) ==
  /\ d.schema \in 1..3
  /\ ExpectedSupport(d) \in SupportStates
  /\ d.expectedValid <=> ExpectedSupport(d) \in {"Supported", "PartiallySupported"}
  /\ IF d.schema = 1 THEN d.selectors = <<>>
     ELSE d.expectedValid <=> d.selectors # <<>>
  /\ \A k \in DOMAIN d.selectors : d.selectors[k].kind \in RequirementKinds
  /\ IsInjective([k \in DOMAIN d.selectors |-> d.selectors[k].id])

\* A selector points at a part of the expected program.
Selected(selector, facts) ==
  CASE selector.kind = "Sweep" ->
         {k \in DOMAIN facts.sweeps : facts.sweeps[k].dimension = selector.of}
    [] selector.kind = "Measurement" ->
         {k \in DOMAIN facts.measurements : facts.measurements[k].op = selector.of}
    [] selector.kind = "Assertion" -> {selector.at} \cap DOMAIN facts.assertions
    [] OTHER -> {1}

AtLast(selector, facts) ==                       \* mutant: the last match, not the first
  CHOOSE k \in Selected(selector, facts) : \A j \in Selected(selector, facts) : k >= j

At(selector, facts) ==
  CHOOSE k \in Selected(selector, facts) : \A j \in Selected(selector, facts) : k <= j

ClauseFor(selector, facts) ==
  LET at == At(selector, facts)
  IN  CASE selector.kind = "ReferencePower" -> Clause("ReferencePower", facts.reference, {})
        [] selector.kind = "Sweep" ->
             Clause("Sweep", [sweep |-> facts.sweeps[at], dimension |-> selector.of,
                              order |-> at], {"bounds"} \cup selector.constrain)
        [] selector.kind = "Measurement" ->
             Clause("Measurement", facts.measurements[at], selector.constrain)
        [] selector.kind = "Assertion" -> Clause("Assertion", facts.assertions[at], {"left"})
        [] selector.kind = "Calibration" ->
             Clause("Calibration", [correction |-> facts.correction,
                                    indexes |-> facts.indexes], {"correction", "indexes"})

\* materialize_requirements, for a selector list that selects nothing missing.
Materialize(d) ==
  IF d.expectedValid /\ Compiles(d.expected)
  THEN [k \in DOMAIN d.selectors |-> ClauseFor(d.selectors[k], FactsOf[d.expected])]
  ELSE <<>>

\* What is wrong with the directory of a listed case.
DirectoryProblems(entry, d) ==
  IF ~MetadataAccepted(d) THEN {"metadata"}
  ELSE {problem \in {"id", "prompt", "expected", "validity", "selector"} :
         CASE problem = "id" -> d.id # entry
           [] problem = "prompt" -> d.blank
           [] problem = "expected" -> d.expected = NoScript
           [] problem = "validity" ->
                d.expected # NoScript /\ d.expectedValid # Compiles(d.expected)
           [] problem = "selector" ->
                /\ d.expectedValid /\ Compiles(d.expected)
                /\ Has(d.selectors, LAMBDA s : Selected(s, FactsOf[d.expected]) = {})}

DiagnosedByDirectory(dataset) ==                 \* mutant: listed twice is accepted
  \/ dataset.baseline > Len(dataset.cases)
  \/ Range(dataset.cases) # DOMAIN dataset.disk
  \/ \E entry \in DOMAIN dataset.disk : DirectoryProblems(entry, dataset.disk[entry]) # {}

\* Any diagnostic refuses the whole dataset.
Diagnosed(dataset) ==
  \/ dataset.baseline > Len(dataset.cases)
  \/ ~IsInjective(dataset.cases)
  \/ Range(dataset.cases) # DOMAIN dataset.disk
  \/ \E entry \in DOMAIN dataset.disk : DirectoryProblems(entry, dataset.disk[entry]) # {}

=============================================================================
