-------------------------- MODULE AcceptanceMatrix --------------------------
(***************************************************************************)
(* The tightly coupled acceptance matrix: the matrix script, the GLIM      *)
(* harness it starts once per sequence (an operator may also start it),    *)
(* and the checkers that grade what the harness recorded.                  *)
(*                                                                         *)
(*   run_koide_glil_tightly_coupled_matrix.py   matrix, Matrix* actions    *)
(*   run_koide_glim_odometry_benchmark.py       run, dirs, harness actions *)
(*   check_koide_odometry_completion.py         FailedGates                *)
(*   check_recovery_pose_gt.py                  Verdict                    *)
(*                                                                         *)
(* A recording is a sequence of samples: the gap to the previous pose, how *)
(* far the pose is from ground truth (near, mid, far; the thresholds are   *)
(* 3 m and 5 m) and how closely a ground-truth stamp matches it (exact:    *)
(* the completion checker's 0.05 s; loose: the verdict's 0.5 s; none).     *)
(* Every file carries the number of the harness run that wrote it.         *)
(***************************************************************************)
EXTENDS Integers, Sequences

CONSTANTS
  Names,        \* the sequences there are (SEQUENCES)
  Lists,        \* what --sequences can list
  Kidnaps,      \* the ones called outdoor_kidnap_*
  Samples,      \* what a pose of the trace can look like
  MaxSamples,   \* bound: poses of one recording
  MaxRuns,      \* bound: harness runs
  PoseGap,      \* max_pose_gap_sec of the completion checker
  SampleGap,    \* max_sample_gap_sec of the verdict
  MinWindow     \* min_recovered_window_sec

ASSUME BoundsAssumption ==
  /\ Names # {} /\ Kidnaps \subseteq Names /\ Lists \subseteq Seq(Names) \ {<<>>}
  /\ Samples \subseteq [gap: Nat \ {0}, error: {"near", "mid", "far"},
                        match: {"exact", "loose", "none"}]
  /\ {MaxSamples, MaxRuns, PoseGap, SampleGap, MinWindow} \subseteq Nat

VARIABLES
  matrix,   \* the matrix script: todo, failed, options, results, exit
  run,      \* the latest harness run
  dirs,     \* output directory of each sequence
  trace,    \* the poses recorded by the run
  grader    \* what the verdict's loops make of them

vars == <<matrix, run, dirs, trace, grader>>

NoRun == 0
----------------------------------------------------------------------------
\* check_recovery_pose_gt.py

\* A pose as it stands in the trace.
StampOf(t, p) == (IF t = <<>> THEN 0 ELSE t[Len(t)].stamp) + p.gap
Stamped(t, p) == [stamp |-> StampOf(t, p), error |-> p.error, match |-> p.match]
Gap(t, i) == t[i].stamp - t[i - 1].stamp

Matched(p) == p.match # "none"
Near(p) == Matched(p) /\ p.error = "near"
Lost(p) == Matched(p) /\ p.error = "far"

\* What the checker's loops know of a trace read up to some pose: whether there
\* was a loss, the start of the open window, the end of the last window that
\* qualified, the stamp of the previous pose since the loss, and the last pose
\* with ground truth. No pose has the stamp 0.
NoTime == 0
GraderStart ==
  [lost |-> FALSE, open |-> NoTime, found |-> NoTime, prev |-> NoTime,
   matched |-> NoTime, near |-> FALSE]

\* close_window: a window shorter than MinWindow is dropped.
Closed(g) ==
  [g EXCEPT !.open = NoTime,
            !.found = IF g.open # NoTime /\ g.prev - g.open >= MinWindow
                      THEN g.prev ELSE @]

InTime(g, p) == g.prev = NoTime \/ p.stamp - g.prev =< SampleGap

\* Mutant: the gap before a pose is not looked at.
WindowStepAnyGap(g, p) ==
  [(IF Near(p) THEN [g EXCEPT !.open = IF @ = NoTime THEN p.stamp ELSE @]
    ELSE Closed(g)) EXCEPT !.prev = p.stamp]

\* One turn of the loop of find_qualifying_recovered_windows.
WindowStep(g, p) ==
  [(IF Near(p) /\ InTime(g, p)
    THEN [g EXCEPT !.open = IF @ = NoTime THEN p.stamp ELSE @]
    ELSE Closed(g)) EXCEPT !.prev = p.stamp]

\* The windows are looked for from the first loss on.
Graded(g, p) ==
  LET seen == IF Matched(p) THEN [g EXCEPT !.matched = p.stamp, !.near = Near(p)] ELSE g
  IN IF g.lost \/ Lost(p) THEN WindowStep([seen EXCEPT !.lost = TRUE], p) ELSE seen

EndsRecovered(g) == g.near \/ g.matched =< g.found + SampleGap

Verdict(g) ==
  IF ~g.lost THEN "never_lost"
  ELSE IF Closed(g).found # NoTime /\ EndsRecovered(Closed(g))
       THEN "recovered_true" ELSE "recovered_false"

AcceptedVerdicts == {"never_lost", "recovered_true"}
----------------------------------------------------------------------------
\* check_koide_odometry_completion.py. A gate that the model's samples do not
\* decide can pass or fail on its own: no_tf_jump stands for the safety gates
\* of that sort, translation_ate for the accuracy gates and the deadline.
SafetyGates == {"trajectory_samples_present", "pose_gap", "no_tf_jump"}
Undecided == {"no_tf_jump", "translation_ate"}

AnyExact(t) == \E i \in DOMAIN t : t[i].match = "exact"
GapsHold(t) == Len(t) >= 2 /\ \A i \in 2..Len(t) : Gap(t, i) =< PoseGap

FailedGates(t, undecided) ==
  undecided
  \cup (IF AnyExact(t) THEN {} ELSE {"trajectory_samples_present", "translation_ate"})
  \cup (IF GapsHold(t) THEN {} ELSE {"pose_gap"})
----------------------------------------------------------------------------
\* run_koide_glim_odometry_benchmark.py

NoFile == [by |-> NoRun]
EmptyDir == [exists |-> FALSE, used |-> FALSE, completion |-> NoFile, verdict |-> NoFile]

\* The options that decide whether a run starts: the indoor sensor profile, a
\* prior map, its bootstrap centre and yaw, tight coupling, an external-mode
\* gain, an injected pose, the occupancy map, the search extension, the kidnap
\* grading and an image whose ID is the archived one or was excused.
Options ==
  [indoor: BOOLEAN, prior: BOOLEAN, center: BOOLEAN, yaw: BOOLEAN, tight: BOOLEAN, gain: BOOLEAN,
   inject: BOOLEAN, occupancy: BOOLEAN, extension: BOOLEAN, kidnap: BOOLEAN,
   image: BOOLEAN]

OptionsRejected(o) ==
  \/ ~o.prior /\ (o.center \/ o.yaw \/ o.tight \/ o.inject)
  \/ o.center # o.yaw
  \/ o.tight /\ (~o.center \/ o.gain)
  \/ o.occupancy /\ (~o.tight \/ ~o.extension)
  \/ o.kidnap /\ ~o.occupancy
  \/ ~o.image

\* What an option record comes to.
Ask(o) == [rejected |-> OptionsRejected(o), copies |-> o.prior \/ o.indoor,
           prior |-> o.prior, kidnap |-> o.kidnap]
Asks == {Ask(o) : o \in Options}

\* Mutant: a directory with the files of an earlier run is taken again.
OccupiedNever(d) == FALSE

\* "output directory must be empty".
Occupied(d) == dirs[d].used

\* Nobody reads the recording after the harness has ended.
Finish(code) ==
  /\ run' = [run EXCEPT !.phase = "done", !.exit = code]
  /\ trace' = <<>> /\ grader' = GraderStart

Proceed(phase) ==
  run' = [run EXCEPT !.phase = phase] /\ UNCHANGED <<trace, grader>>

\* main up to Popen. The directory is created before the options are judged,
\* and a prior map or another profile has put a configuration into it by then.
Launch(d, ask, by) ==
  /\ run.phase = "done" /\ run.id < MaxRuns
  /\ LET id == run.id + 1
         started == [id |-> id, name |-> d, by |-> by, phase |-> "playing",
                     kidnap |-> ask.kidnap, prior |-> ask.prior, exit |-> 0]
         refused == [started EXCEPT !.phase = "done", !.exit = 2]
     IN IF Occupied(d)
        THEN run' = refused /\ dirs' = dirs
        ELSE IF ask.rejected
        THEN /\ run' = refused
             /\ dirs' = [dirs EXCEPT ![d].exists = TRUE, ![d].used = ask.copies]
        ELSE /\ run' = started
             /\ dirs' = [dirs EXCEPT ![d].exists = TRUE, ![d].used = TRUE]
  /\ trace' = <<>> /\ grader' = GraderStart

OperatorRuns ==
  /\ matrix.phase # "running"
  /\ \E d \in Names, ask \in Asks : Launch(d, ask, "operator")
  /\ UNCHANGED matrix

\* The container plays the bag and GLIM publishes.
Record(p) ==
  /\ run.phase = "playing" /\ Len(trace) < MaxSamples
  /\ trace' = Append(trace, Stamped(trace, p))
  /\ grader' = Graded(grader, Stamped(trace, p))
  /\ UNCHANGED <<matrix, run, dirs>>

\* process.wait and the early returns after it, then the conversion and the
\* runtime evidence, each under run_checked.
ContainerEnds(code) ==
  /\ run.phase = "playing"
  /\ \/ code # 0 /\ Finish(code)
     \/ code = 0 /\ run.prior /\ Finish(2)   \* no live map->odom history saved
     \/ code = 0 /\ Finish(1)                \* one of the two conversions failed
     \/ code = 0 /\ Proceed("completing")
  /\ UNCHANGED <<matrix, dirs>>

\* What follows the completion checker, given the report then on disk.
AfterCompletion(report) ==
  IF report.by = NoRun \/ report.failed \cap SafetyGates # {}
  THEN Finish(1) ELSE Proceed("grading")

\* The completion checker ends with its report; or it raises, which is exit code
\* 1 without a report; or it is killed. A normal run needs code 0, a kidnap run
\* reads the report after 0 and 1 alike.
Complete ==
  /\ run.phase = "completing"
  /\ \/ \E undecided \in SUBSET Undecided :
          LET report == [by |-> run.id, failed |-> FailedGates(trace, undecided)]
          IN /\ dirs' = [dirs EXCEPT ![run.name].completion = report]
             /\ IF run.kidnap THEN AfterCompletion(report)
                ELSE Finish(IF report.failed = {} THEN 0 ELSE 1)
     \/ /\ dirs' = dirs
        /\ \/ run.kidnap /\ AfterCompletion(dirs[run.name].completion)
           \/ Finish(1)
  /\ UNCHANGED matrix

\* check_recovery_pose_gt.py under run_checked; an empty trace is its error 2.
Grade ==
  /\ run.phase = "grading"
  /\ IF trace = <<>> THEN Finish(1) /\ dirs' = dirs
     ELSE /\ dirs' = [dirs EXCEPT ![run.name].verdict =
                        [by |-> run.id, verdict |-> Verdict(grader)]]
          /\ Finish(IF Verdict(grader) \in AcceptedVerdicts THEN 0 ELSE 1)
  /\ UNCHANGED matrix

\* Control-C: no handler, no clean-up, and the matrix goes with its child.
Interrupt ==
  /\ run.phase # "done"
  /\ Finish(1)
  /\ matrix' = IF run.by = "matrix" THEN [matrix EXCEPT !.phase = "over", !.exit = 1, !.waiting = FALSE] ELSE matrix
  /\ UNCHANGED dirs
----------------------------------------------------------------------------
\* run_koide_glil_tightly_coupled_matrix.py

RootInUse == matrix.manifest \/ \E d \in Names : dirs[d].exists

MatrixRefuses ==
  /\ matrix.phase # "running" /\ run.phase = "done"
  /\ RootInUse
  /\ matrix' = [matrix EXCEPT !.phase = "over", !.exit = 2, !.results = <<>>]
  /\ UNCHANGED <<run, dirs, trace, grader>>

MatrixStart(list, occupancy, failFast) ==
  /\ matrix.phase # "running" /\ run.phase = "done"
  /\ ~RootInUse
  /\ matrix' = [phase |-> "running", exit |-> 0, todo |-> list, failed |-> FALSE,
                waiting |-> FALSE, manifest |-> FALSE, results |-> <<>>,
                occupancy |-> occupancy, failFast |-> failFast, since |-> run.id]
  /\ UNCHANGED <<run, dirs, trace, grader>>

\* The extension is found, or the occupancy map was given without it.
MatrixLaunches(extension) ==
  /\ matrix.phase = "running" /\ ~matrix.waiting
  /\ Launch(Head(matrix.todo),
            Ask([indoor |-> FALSE, prior |-> TRUE, center |-> TRUE, yaw |-> TRUE,
                 tight |-> TRUE, gain |-> FALSE, inject |-> FALSE, image |-> TRUE,
                 occupancy |-> matrix.occupancy, extension |-> extension,
                 kidnap |-> Head(matrix.todo) \in Kidnaps]), "matrix")
  /\ matrix' = [matrix EXCEPT !.waiting = TRUE]

\* Mutant: failed is the failure of the latest sequence.
CollectedLatest(code) ==
  LET rest == Tail(matrix.todo)
  IN [matrix EXCEPT !.waiting = FALSE, !.manifest = TRUE, !.failed = code # 0,
        !.results = Append(@, [name |-> Head(matrix.todo), code |-> code]),
        !.todo = rest,
        !.phase = IF rest = <<>> \/ (code # 0 /\ matrix.failFast) THEN "over" ELSE @,
        !.exit = IF code # 0 THEN 1 ELSE 0]

\* One turn of the loop after subprocess.run.
Collected(code) ==
  LET failed == matrix.failed \/ code # 0
      rest == Tail(matrix.todo)
  IN [matrix EXCEPT !.waiting = FALSE, !.manifest = TRUE, !.failed = failed,
        !.results = Append(@, [name |-> Head(matrix.todo), code |-> code]),
        !.todo = rest,
        !.phase = IF rest = <<>> \/ (failed /\ matrix.failFast) THEN "over" ELSE @,
        !.exit = IF failed THEN 1 ELSE 0]

MatrixCollects ==
  /\ matrix.phase = "running" /\ matrix.waiting /\ run.phase = "done"
  /\ matrix' = Collected(run.exit)
  /\ UNCHANGED <<run, dirs, trace, grader>>

\* Somebody takes a fresh output root.
FreshRoot ==
  /\ matrix.phase # "running" /\ run.phase = "done" /\ RootInUse
  /\ dirs' = [d \in Names |-> EmptyDir]
  /\ matrix' = [matrix EXCEPT !.manifest = FALSE, !.phase = "idle", !.results = <<>>]
  /\ run' = [run EXCEPT !.exit = 2]
  /\ UNCHANGED <<trace, grader>>
----------------------------------------------------------------------------
Init ==
  /\ matrix = [phase |-> "idle", exit |-> 0, todo |-> <<>>, failed |-> FALSE, waiting |-> FALSE,
               manifest |-> FALSE, results |-> <<>>, occupancy |-> FALSE,
               failFast |-> FALSE, since |-> NoRun]
  /\ run = [id |-> NoRun, name |-> CHOOSE d \in Names : TRUE, by |-> "operator", phase |-> "done",
            kidnap |-> FALSE, prior |-> FALSE, exit |-> 2]
  /\ dirs = [d \in Names |-> EmptyDir]
  /\ trace = <<>> /\ grader = GraderStart

Harness ==
  \/ \E p \in Samples : Record(p)
  \/ \E code \in {0, 1} : ContainerEnds(code)
  \/ Complete \/ Grade \/ Interrupt

Matrix ==
  \/ MatrixRefuses
  \/ \E list \in Lists, occupancy, failFast \in BOOLEAN :
       MatrixStart(list, occupancy, failFast)
  \/ \E extension \in BOOLEAN : MatrixLaunches(extension)
  \/ MatrixCollects

Next == OperatorRuns \/ Harness \/ Matrix \/ FreshRoot

Spec == Init /\ [][Next]_vars
----------------------------------------------------------------------------
\* Type invariant: a run that is not over holds its directory, and the matrix
\* waits for the run it launched.
MatrixTypeOK ==
  /\ run.phase \in {"playing", "completing", "grading", "done"}
  /\ run.exit \in {0, 1, 2} /\ run.id \in 0..MaxRuns /\ run.name \in Names
  /\ matrix.phase \in {"idle", "running", "over"} /\ matrix.exit \in {0, 1, 2}
  /\ matrix.waiting => matrix.phase = "running"
  /\ run.phase # "done" /\ run.by = "matrix" => matrix.waiting
  /\ run.phase # "done" => dirs[run.name].used
  /\ Len(trace) =< MaxSamples

Done == run.phase = "done" /\ run.id # NoRun

\* A stretch of recovered poses, each in time after its predecessor, that is
\* long enough.
Stretch(t, i, j) ==
  /\ \A k \in i..j : Near(t[k]) /\ Gap(t, k) =< SampleGap
  /\ t[j].stamp - t[i].stamp >= MinWindow

\* "The trace ends recovered": the last pose with ground truth is near, or the
\* stretch reaches up to it.
Recovered(t) ==
  \E loss \in DOMAIN t : \E i \in loss + 1..Len(t) : \E j \in i..Len(t) :
    /\ Lost(t[loss]) /\ Stretch(t, i, j)
    /\ \E last \in DOMAIN t :
         /\ Matched(t[last]) /\ \A k \in last + 1..Len(t) : ~Matched(t[k])
         /\ Near(t[last]) \/ t[last].stamp =< t[j].stamp + SampleGap

\* The verdict's window scan finds a sustained recovery exactly when the
\* recording holds one: gaps, unmatched poses, relapses and windows that are
\* still open at the end of the trace included.
VerdictIsEarned ==
  run.phase = "completing" /\ trace # <<>> =>
    /\ Verdict(grader) = "recovered_true" <=> Recovered(trace)
    /\ Verdict(grader) = "never_lost" <=> \A i \in DOMAIN trace : ~Lost(trace[i])

\* A harness that exits 0 judged its own recording, never a report an earlier
\* run left in the directory: every gate held, or on a kidnap run the safety
\* gates and an accepted verdict.
HarnessPassIsEarned ==
  Done /\ run.exit = 0 =>
    LET dir == dirs[run.name]
    IN /\ dir.completion.by = run.id
       /\ IF run.kidnap
          THEN /\ dir.completion.failed \cap SafetyGates = {}
               /\ dir.verdict.by = run.id /\ dir.verdict.verdict \in AcceptedVerdicts
          ELSE dir.completion.failed = {}

\* A matrix that exits 0 ran every listed sequence itself, and each passed.
GreenMatrixIsComplete ==
  /\ MatrixTypeOK
  /\ matrix.phase = "over" /\ matrix.exit = 0 =>
    /\ matrix.todo = <<>> /\ matrix.results # <<>>
    /\ \A k \in DOMAIN matrix.results :
         /\ matrix.results[k].code = 0
         /\ dirs[matrix.results[k].name].completion.by > matrix.since
         /\ matrix.results[k].name \in Kidnaps =>
              dirs[matrix.results[k].name].verdict.by > matrix.since

\* "fails unless check_recovery_pose_gt.py returns a ground-truth-verified
\* recovery": a kidnap run that passes recovered.
KidnapPassMeansRecovered ==
  Done /\ run.exit = 0 /\ run.kidnap =>
    dirs[run.name].verdict.verdict = "recovered_true"
=============================================================================
