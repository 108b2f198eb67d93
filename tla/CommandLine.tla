---------------------------- MODULE CommandLine ----------------------------
(***************************************************************************)
(* horusrf-run, src/cli/main.cpp with the writers of src/output: checks of *)
(* the arguments, reading and compiling the script, the characterization   *)
(* on the simulated devices, and the results file.  The steps of the       *)
(* characterization are those of the module it extends; a program other    *)
(* than horusrf-run that calls the runtime is in stage "library".          *)
(***************************************************************************)
EXTENDS Characterization

VARIABLES
  stage,
  mode,       \* what the arguments ask for
  source,     \* the script: what reading and compiling it comes to
  target,     \* "source": the output path names the script itself
  before,     \* what is at the output path when the runner starts
  output,     \* and what is there now
  reason,     \* why the results file is given up
  removed,    \* fs::remove succeeded
  exit        \* exit status

cli == <<stage, mode, source, target, before, output, reason, removed, exit>>
cliVars == <<cli, vars>>

Modes == {"usage", "help", "check", "run", "csv", "json"}
Sources == {"unreadable", "invalid", "valid"}
Formats == {"csv", "json"}

\* The file is missing, holds something else, was truncated, holds a part of
\* the results, or all of them.
Contents == {"absent", "old", "empty", "partial", "whole"}

Running == -1

CliTypeOK ==
  /\ TypeOK
  /\ stage \in {"library", "start", "read", "compile", "execute", "open", "write",
                "remove", "report", "ended"}
  /\ mode \in Modes /\ source \in Sources /\ target \in {"source", "other"}
  /\ before \in {"absent", "old"} /\ output \in Contents
  /\ reason \in {"none", "io", "serialization"} /\ removed \in BOOLEAN
  /\ exit \in {Running} \cup 0..6

-----------------------------------------------------------------------------
Exit(status) == stage' = "ended" /\ exit' = status

keep == <<mode, source, target, before, vars>>

\* parse_arguments, and the check that results do not replace the script.
CheckArguments ==
  /\ stage = "start"
  /\ IF mode = "help" THEN Exit(0)
     ELSE IF mode = "usage" \/ (mode \in Formats /\ target = "source") THEN Exit(2)
     ELSE stage' = "read" /\ UNCHANGED exit
  /\ UNCHANGED <<keep, output, reason, removed>>

ReadSource ==
  /\ stage = "read"
  /\ IF source = "unreadable" THEN Exit(3) ELSE stage' = "compile" /\ UNCHANGED exit
  /\ UNCHANGED <<keep, output, reason, removed>>

\* What the older CSV schema has columns for: one sweep of frequency and one
\* unnamed measurement, with nothing derived and nothing asserted.
Representable(p) ==
  /\ Len(p.sweeps) = 1 /\ p.sweeps[1].dimension = "frequency"
  /\ Len(p.measurements) = 1 /\ p.measurements[1].legacy
  /\ p.namedValues = <<>> /\ p.assertions = <<>>

Compile ==
  /\ stage = "compile"
  /\ IF source = "invalid" THEN Exit(4)
     ELSE IF mode = "check" THEN Exit(0)
     ELSE IF mode = "csv" /\ ~Representable(program) THEN Exit(4)
     ELSE stage' = "execute" /\ UNCHANGED exit
  /\ UNCHANGED <<keep, output, reason, removed>>

\* Diagnostics of the runtime, an exception of a device, or a result.
Executes ==
  /\ stage = "execute" /\ phase \in Ended \ {"undefined"}
  /\ IF phase = "done"
     THEN stage' = (IF mode \in Formats THEN "open" ELSE "report") /\ UNCHANGED exit
     ELSE Exit(IF phase = "thrown" THEN 5 ELSE 4)
  /\ UNCHANGED <<keep, output, reason, removed>>

-----------------------------------------------------------------------------
(* write_result_csv, write_result_json.                                    *)

GiveUp(why) == stage' = "remove" /\ reason' = why /\ UNCHANGED exit

\* The file is truncated, or cannot be opened.
OpenOutput ==
  /\ stage = "open"
  /\ \/ stage' = "write" /\ output' = "empty" /\ UNCHANGED <<reason, exit>>
     \/ GiveUp("io") /\ UNCHANGED output
  /\ UNCHANGED <<keep, removed>>

\* The stream fails at some point; or, in JSON, a metric is not finite.
WriteFails ==
  /\ stage = "write"
  /\ output' \in {"empty", "partial"}
  /\ \/ GiveUp("io")
     \/ mode = "json" /\ GiveUp("serialization")
  /\ UNCHANGED <<keep, removed>>

HasColumns(at) == at = <<>> \/ (Len(at) = 1 /\ at[1].dimension = "frequency")

\* write_csv throws invalid_argument, which write_result_csv lets pass, before
\* it writes anything of points it has no columns for.
WriteRest ==
  /\ stage = "write"
  /\ IF mode = "csv" /\ \E i \in DOMAIN samples : ~HasColumns(samples[i].point)
     THEN Exit(5) /\ UNCHANGED output
     ELSE stage' = "report" /\ output' = "whole" /\ UNCHANGED exit
  /\ UNCHANGED <<keep, reason, removed>>

LeaveOutput ==                                   \* mutant: what was written is left
  /\ stage = "remove"
  /\ removed' = TRUE
  /\ Exit(IF reason = "serialization" THEN 4 ELSE 3)
  /\ UNCHANGED <<keep, output, reason>>

\* The file goes, whatever became of it, unless that fails too.
RemoveOutput ==
  /\ stage = "remove"
  /\ \/ removed' = TRUE /\ output' = "absent"
     \/ UNCHANGED <<removed, output>>
  /\ Exit(IF reason = "serialization" THEN 4 ELSE 3)
  /\ UNCHANGED <<keep, reason>>

Report ==
  /\ stage = "report"
  /\ Exit(IF qualification.status = "fail" THEN 6 ELSE 0)
  /\ UNCHANGED <<keep, output, reason, removed>>

-----------------------------------------------------------------------------
\* The simulated devices have every capability; another caller's may not, and
\* its programs need not come from a script.
CliInit ==
  /\ Init
  /\ mode \in Modes /\ source \in Sources /\ target \in {"source", "other"}
  /\ before \in {"absent", "old"} /\ (target = "source" => before = "old")
  /\ \/ /\ stage = "library"
        /\ mode = "run" /\ source = "valid" /\ target = "other" /\ before = "absent"
     \/ /\ stage = "start" /\ program \in Compiled /\ devices = Capabilities
        /\ mode \in Formats \/ (target = "other" /\ before = "absent")
  /\ output = before /\ reason = "none" /\ removed = FALSE /\ exit = Running

CliStep ==
  \/ CheckArguments \/ ReadSource \/ Compile \/ Executes
  \/ OpenOutput \/ WriteFails \/ WriteRest \/ RemoveOutput \/ Report

CliNext ==
  \/ CliStep
  \/ stage \in {"library", "execute"} /\ Next /\ UNCHANGED cli

CliSpec == CliInit /\ [][CliNext]_cliVars /\ WF_cliVars(CliNext)

-----------------------------------------------------------------------------
(* Properties.                                                             *)

Success == {0, 6}

\* The exit status tells what is at the output path: all the results of a run
\* that ended and passed or failed its qualification, or else nothing of them,
\* unless they could not be removed; the script is never what is replaced
\* (main.cpp:87-104, 140-173, 217-309, csv.cpp:38-47).
OutputIsHonest ==
  /\ stage = "ended" /\ mode \in Formats =>
       IF exit \in Success
       THEN output = "whole" /\ phase = "done" /\ (exit = 6 <=> qualification.status = "fail")
       ELSE output \in {before, "absent"} \/ (reason # "none" /\ ~removed)
  /\ target = "source" \/ mode \notin Formats => output = before

\* Every run ends, of the runtime and of the command line: equipment that fails,
\* readings that are not finite and files that cannot be written are not tried
\* again (docs/architecture.md:306-307, main.cpp:217-326).
RunsEnd == <>(stage = "ended" \/ (stage = "library" /\ phase \in Ended))
=============================================================================
