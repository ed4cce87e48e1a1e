---------------------------- MODULE ImuComparison ----------------------------
(***************************************************************************)
(* run_lidar_localization_imu_comparison.py: the runner that replays one   *)
(* bag per mode, validates the IMU diagnostics, evaluates trajectories     *)
(* against a reference, compares the runs and writes comparison.md, and    *)
(* run_commands.sh, the script it leaves behind for doing the same again.  *)
(*                                                                         *)
(* The output directory outlives an invocation. Each file in it carries    *)
(* the number of the invocation whose command wrote it (0: not there). The *)
(* commands are other programs (benchmark_runner, the IMU validator, the   *)
(* trajectory evaluator, benchmark_compare_runs); of them the model keeps  *)
(* the exit code and the file each leaves when it fails.                   *)
(***************************************************************************)
EXTENDS Naturals, Sequences, SequencesExt

CONSTANTS
  Modes,           \* MODES
  Validated,       \* those with validate_imu or require_deskew_applied
  Plans,           \* what --mode can list
  MaxInvocations   \* bound

ASSUME ModesAssumption ==
  /\ Validated \subseteq Modes /\ Plans \subseteq Seq(Modes) \ {<<>>}
  /\ MaxInvocations \in Nat

VARIABLES
  inv,         \* the invocation: number, kind, plan, step, the command it is at
               \* (of the mode at index at), failed, exit
  files,       \* per mode: summary.json, imu_validation.json, trajectory_eval.json
  comparison,  \* comparison.json
  plan,        \* run_plan.json (and run_commands.sh, written with it)
  report       \* comparison.md: one row per planned mode

compVars == <<inv, files, comparison, plan, report>>

Never == 0
NoFiles == [summary |-> Never, level |-> "n/a", validation |-> Never, trajectory |-> Never]
NoRows == [m \in Modes |-> NoFiles]
----------------------------------------------------------------------------
\* What the loop over the three commands of a mode runs next; a command the
\* plan does not have is skipped.
NextCommand(m, reference, command) ==
  IF command = "benchmark" /\ m \in Validated THEN "validation"
  ELSE IF command # "trajectory" /\ reference THEN "trajectory" ELSE "none"

\* The loop over the runs, one command further.
Moved ==
  LET next == NextCommand(inv.modes[inv.at], inv.reference, inv.command)
      over == next = "none" /\ inv.at = Len(inv.modes)
  IN [inv EXCEPT !.command = IF next = "none" THEN "benchmark" ELSE next,
        !.at = IF next = "none" /\ ~over THEN @ + 1 ELSE @,
        !.step = IF over THEN "compare" ELSE @]

Ends(code) == inv' = [inv EXCEPT !.step = "ended", !.exit = code]

\* The inputs are checked before anything is written, unless the commands are
\* only printed; the configurations are written before the plan, and one that
\* cannot be made ends the program with a traceback.
Outcomes == {"bad_input", "bad_config", "printed", "runs"}

Planned(outcome, modes, reference) ==
  IF outcome \in {"printed", "runs"}
  THEN [modes |-> modes, reference |-> reference] ELSE plan

\* main up to the loop.
Start(modes, reference, continue) ==
  /\ inv.step = "ended" /\ inv.id < MaxInvocations
  /\ \E outcome \in Outcomes :
       /\ inv' = [id |-> inv.id + 1, kind |-> "run", modes |-> modes,
                  reference |-> reference, continue |-> continue, failed |-> FALSE,
                  step |-> IF outcome = "runs" THEN "commands" ELSE "ended",
                  at |-> 1, command |-> "benchmark", printed |-> outcome = "printed",
                  exit |-> CASE outcome = "bad_input" -> 2
                             [] outcome = "bad_config" -> 1
                             [] OTHER -> 0]
       /\ plan' = Planned(outcome, modes, reference)
  /\ UNCHANGED <<files, comparison, report>>

\* run_commands.sh: set -e, so it never continues after a failure.
StartScript ==
  /\ inv.step = "ended" /\ inv.id < MaxInvocations
  /\ plan.modes # <<>>
  /\ inv' = [id |-> inv.id + 1, kind |-> "script", modes |-> plan.modes,
             reference |-> plan.reference, continue |-> FALSE, failed |-> FALSE,
             step |-> "commands", at |-> 1, command |-> "benchmark",
             printed |-> FALSE, exit |-> 0]
  /\ UNCHANGED <<files, comparison, plan, report>>

\* What a command leaves in the directory of its mode. The validator writes its
\* report with FAIL in it and exits 1, or meets an unreadable input and exits 2
\* without one; a failed benchmark may or may not have reached its summary.
Left(file, command, code) ==
  CASE command = "benchmark" /\ code = 0 -> {[file EXCEPT !.summary = inv.id]}
    [] command = "benchmark" /\ code # 0 -> {file, [file EXCEPT !.summary = inv.id]}
    [] command = "validation" /\ code # 2 ->
         {[file EXCEPT !.validation = inv.id, !.level = IF code = 1 THEN "FAIL" ELSE l] :
            l \in {"WARN", "OK"}}
    [] command = "trajectory" /\ code = 0 -> {[file EXCEPT !.trajectory = inv.id]}
    [] OTHER -> {file}

\* Mutant: only the exit code of the benchmark itself counts.
AfterCommandBenchmarkOnly(command, code) ==
  IF code # 0 /\ command = "benchmark" /\ ~inv.continue THEN Ends(code)
  ELSE inv' = [Moved EXCEPT !.failed = @ \/ (code # 0 /\ command = "benchmark")]

\* A failure ends the loop with its code unless --continue-on-failure.
AfterCommand(command, code) ==
  IF code # 0 /\ ~inv.continue THEN Ends(code)
  ELSE inv' = [Moved EXCEPT !.failed = @ \/ code # 0]

RunCommand(code) ==
  /\ inv.step = "commands"
  /\ LET m == inv.modes[inv.at]
     IN \E left \in Left(files[m], inv.command, code) : files' = [files EXCEPT ![m] = left]
  /\ AfterCommand(inv.command, code)
  /\ UNCHANGED <<comparison, plan, report>>

\* benchmark_compare_runs over the output directory: every mode directory with
\* a summary, planned or not; without any it fails and leaves the old file.
Compare(code) ==
  /\ inv.step = "compare"
  /\ (\A m \in Modes : files[m].summary = Never) => code # 0
  /\ comparison' = IF code # 0 THEN comparison
                   ELSE [m \in Modes |-> IF files[m].summary = Never THEN NoFiles ELSE files[m]]
  /\ inv' = IF inv.kind = "script" /\ code # 0
            THEN [inv EXCEPT !.step = "ended", !.exit = code]
            ELSE [inv EXCEPT !.step = "report", !.failed = @ \/ code # 0]
  /\ UNCHANGED <<files, plan, report>>

\* render_markdown_report: the runs and trajectories from comparison.json, the
\* validation level from the mode directory itself. The deltas are taken from
\* lidar_only of comparison.json, planned or not.
Rows(modes) ==
  [m \in Modes |-> IF m \notin ToSet(modes) THEN NoFiles
                   ELSE [comparison[m] EXCEPT !.level = files[m].level,
                                              !.validation = files[m].validation]]

Report ==
  /\ inv.step = "report"
  /\ report' = Rows(inv.modes)
  /\ Ends(IF inv.failed THEN 1 ELSE 0)
  /\ UNCHANGED <<files, comparison, plan>>

\* --report-only: the plan on disk, or error 2 when there is none.
ReportOnly ==
  /\ inv.step = "ended" /\ inv.id < MaxInvocations
  /\ inv' = [inv EXCEPT !.id = @ + 1, !.kind = "report", !.modes = plan.modes,
               !.reference = plan.reference, !.failed = FALSE, !.printed = FALSE,
               !.exit = IF plan.modes = <<>> THEN 2 ELSE 0]
  /\ report' = IF plan.modes = <<>> THEN report ELSE Rows(plan.modes)
  /\ UNCHANGED <<files, comparison, plan>>

\* Control-C between two commands.
Interrupted ==
  /\ inv.step # "ended"
  /\ Ends(1)
  /\ UNCHANGED <<files, comparison, plan, report>>
----------------------------------------------------------------------------
CompInit ==
  /\ inv = [id |-> 0, kind |-> "run", modes |-> <<>>, reference |-> FALSE,
            continue |-> FALSE, failed |-> FALSE, step |-> "ended", at |-> 1,
            command |-> "benchmark", printed |-> FALSE, exit |-> 2]
  /\ files = NoRows /\ comparison = NoRows /\ report = NoRows
  /\ plan = [modes |-> <<>>, reference |-> FALSE]

CompNext ==
  \/ \E modes \in Plans, reference, continue \in BOOLEAN : Start(modes, reference, continue)
  \/ StartScript \/ Report \/ ReportOnly \/ Interrupted
  \/ \E code \in 0..2 : RunCommand(code) \/ Compare(code)

CompSpec == CompInit /\ [][CompNext]_compVars
----------------------------------------------------------------------------
\* A run or a script that exits 0 leaves a report whose every row comes from
\* this invocation: its benchmark, its validation, which did not fail, and its
\* trajectory when there was a reference. Files of an earlier invocation in the
\* same directory are never passed off as this one's.
GreenReportIsFresh ==
  (inv.step = "ended" /\ inv.exit = 0 /\ inv.kind # "report" /\ ~inv.printed) =>
    \A m \in ToSet(inv.modes) :
      /\ report[m].summary = inv.id
      /\ m \in Validated => report[m].validation = inv.id /\ report[m].level # "FAIL"
      /\ inv.reference => report[m].trajectory = inv.id

=============================================================================
