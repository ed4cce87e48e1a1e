---------------------------- MODULE OfflineProofs ----------------------------
(***************************************************************************)
(* Proofs about the tools that run after a recording: the acceptance       *)
(* matrix over its harness, the IMU comparison and the report on a         *)
(* recovery.                                                               *)
(***************************************************************************)
EXTENDS AcceptanceMatrix, ImuComparison, RecoveryReport, TLAPS, FiniteSetTheorems,
        SequenceTheorems

-----------------------------------------------------------------------------
(* The acceptance matrix.                                                  *)

TracePoses ==
  [stamp: Nat \ {0}, error: {"near", "mid", "far"}, match: {"exact", "loose", "none"}]
Gates == SafetyGates \cup Undecided
Reports == {NoFile} \cup [by: Nat, failed: SUBSET Gates]
VerdictFiles == {NoFile} \cup [by: Nat, verdict: {"never_lost", "recovered_true", "recovered_false"}]

RunType ==
  [id: 0..MaxRuns, name: Names, by: {"operator", "matrix"},
   phase: {"playing", "completing", "grading", "done"},
   kidnap: BOOLEAN, prior: BOOLEAN, exit: {0, 1, 2}]

DirType == [exists: BOOLEAN, used: BOOLEAN, completion: Reports, verdict: VerdictFiles]

MatrixType ==
  [phase: {"idle", "running", "over"}, exit: {0, 1, 2}, todo: Seq(Names), failed: BOOLEAN,
   waiting: BOOLEAN, manifest: BOOLEAN, results: Seq([name: Names, code: {0, 1, 2}]),
   occupancy: BOOLEAN, failFast: BOOLEAN, since: 0..MaxRuns]

ToolTypes ==
  /\ run \in RunType /\ dirs \in [Names -> DirType] /\ matrix \in MatrixType
  /\ trace \in Seq(TracePoses) /\ Len(trace) =< MaxSamples

\* A run that is not over has its directory to itself: what it finds there it
\* has written itself.
HarnessInv ==
  /\ \A d \in Names : ~dirs[d].used => dirs[d].completion = NoFile /\ dirs[d].verdict = NoFile
  /\ run.phase # "done" =>
       /\ dirs[run.name].used /\ dirs[run.name].verdict = NoFile /\ run.id # NoRun
       /\ IF run.phase = "grading"
          THEN /\ dirs[run.name].completion.by = run.id /\ run.kidnap
               /\ dirs[run.name].completion.failed \cap SafetyGates = {}
          ELSE dirs[run.name].completion = NoFile
  /\ HarnessPassIsEarned

\* The directory of d was graded after the run numbered since.
GradedSince(held, d, since) ==
  /\ held[d].completion.by > since
  /\ d \in Kidnaps => held[d].verdict.by > since

\* The matrix waits for the run it has launched, which is younger than itself;
\* what it has collected as passed is graded; as long as it has not failed, all
\* of it passed.
MatrixInv ==
  /\ run.id >= matrix.since
  /\ run.phase # "done" => run.id > matrix.since /\ (run.by = "matrix" => matrix.waiting)
  /\ matrix.waiting =>
       /\ matrix.phase = "running" /\ run.by = "matrix" /\ run.id > matrix.since
       /\ matrix.todo # <<>> /\ run.name = Head(matrix.todo)
       /\ run.kidnap = (run.name \in Kidnaps)
  /\ matrix.phase = "running" => matrix.todo # <<>>
  /\ matrix.phase = "running" => (matrix.exit = 0 <=> ~matrix.failed)
  /\ \A k \in DOMAIN matrix.results : matrix.results[k].code = 0 => GradedSince(dirs, matrix.results[k].name, matrix.since)
  /\ matrix.phase \in {"running", "over"} /\ matrix.exit = 0 =>
       \A k \in DOMAIN matrix.results : matrix.results[k].code = 0
  /\ matrix.phase = "over" /\ matrix.exit = 0 => matrix.todo = <<>> /\ matrix.results # <<>>

AcceptanceInv == ToolTypes /\ HarnessInv /\ MatrixInv

LEMMA BoundsTypes ==
  /\ Names # {} /\ Kidnaps \subseteq Names
  /\ \A list \in Lists : list \in Seq(Names) /\ list # <<>>
  /\ MaxRuns \in Nat /\ MaxSamples \in Nat
BY BoundsAssumption

LEMMA NoFileOf == NoFile \in Reports /\ NoFile \in VerdictFiles /\ NoFile.by = 0
BY DEF NoFile, NoRun, Reports, VerdictFiles

LEMMA AcceptanceInit == Init => AcceptanceInv
<1> SUFFICES ASSUME Init PROVE AcceptanceInv
  OBVIOUS
<1>1. (CHOOSE d \in Names : TRUE) \in Names /\ NoRun \in 0..MaxRuns
  BY BoundsTypes DEF NoRun
<1>2. EmptyDir \in DirType /\ EmptyDir.completion = NoFile /\ EmptyDir.verdict = NoFile
  BY NoFileOf DEF EmptyDir, DirType
<1>3. <<>> \in Seq(Names) /\ <<>> \in Seq([name: Names, code: {0, 1, 2}])
      /\ <<>> \in Seq(TracePoses) /\ Len(<<>>) = 0
  BY EmptySeq
<1>4. run \in RunType /\ run.phase = "done" /\ run.exit = 2
  BY <1>1 DEF Init, RunType
<1>5. /\ matrix \in MatrixType /\ ~matrix.waiting /\ matrix.phase = "idle"
      /\ matrix.results = <<>>
  BY <1>1, <1>3 DEF Init, MatrixType
<1>6. dirs \in [Names -> DirType] /\ \A d \in Names : dirs[d] = EmptyDir
  BY <1>2 DEF Init
<1>7. ToolTypes
  BY <1>3, <1>4, <1>5, <1>6, BoundsTypes DEF Init, ToolTypes
<1>8. HarnessInv
  BY <1>2, <1>4, <1>6 DEF HarnessInv, HarnessPassIsEarned
<1>9. MatrixInv
  BY <1>4, <1>5 DEF MatrixInv, Init, NoRun
<1> QED
  BY <1>7, <1>8, <1>9 DEF AcceptanceInv

\* Whether a run starts or is refused: its directory was not used before.
Launched(d, kidnap, by) ==
  /\ run'.id = run.id + 1 /\ run'.name = d /\ run'.by = by /\ run'.kidnap = kidnap
  /\ \/ run'.phase = "done" /\ run'.exit = 2
     \/ run'.phase = "playing" /\ ~dirs[d].used /\ dirs'[d].used
  /\ \A e \in Names : /\ dirs'[e].completion = dirs[e].completion
                      /\ dirs'[e].verdict = dirs[e].verdict
                      /\ dirs[e].used => dirs'[e].used

LEMMA AskOf ==
  ASSUME NEW o \in Options
  PROVE  Ask(o) = [rejected |-> OptionsRejected(o), copies |-> o.prior \/ o.indoor,
                   prior |-> o.prior, kidnap |-> o.kidnap]
BY DEF Ask

LEMMA LaunchOf ==
  ASSUME ToolTypes, NEW d \in Names, NEW o \in Options, NEW by \in {"operator", "matrix"},
         Launch(d, Ask(o), by)
  PROVE  /\ run' \in RunType /\ dirs' \in [Names -> DirType]
         /\ trace' = <<>> /\ Launched(d, o.kidnap, by)
<1> DEFINE ask == Ask(o)
           started == [id |-> run.id + 1, name |-> d, by |-> by, phase |-> "playing",
                       kidnap |-> o.kidnap, prior |-> o.prior, exit |-> 0]
           refused == [started EXCEPT !.phase = "done", !.exit = 2]
<1>1. /\ o.kidnap \in BOOLEAN /\ o.prior \in BOOLEAN /\ (o.prior \/ o.indoor) \in BOOLEAN
      /\ ask.kidnap = o.kidnap /\ ask.prior = o.prior /\ ask.copies = (o.prior \/ o.indoor)
  BY DEF Options, Ask
<1>2. run.id + 1 \in 0..MaxRuns
  BY BoundsTypes DEF Launch, ToolTypes, RunType
<1>3. /\ started \in RunType /\ refused \in RunType
      /\ started.phase = "playing" /\ refused.phase = "done" /\ refused.exit = 2
      /\ started.id = run.id + 1 /\ started.name = d /\ started.by = by
      /\ started.kidnap = o.kidnap
      /\ refused.id = run.id + 1 /\ refused.name = d /\ refused.by = by
      /\ refused.kidnap = o.kidnap
  BY <1>1, <1>2 DEF RunType
<1>4. \/ run' = refused /\ dirs' = dirs
      \/ /\ run' = refused /\ ~dirs[d].used
         /\ dirs' = [dirs EXCEPT ![d].exists = TRUE, ![d].used = ask.copies]
      \/ /\ run' = started /\ ~dirs[d].used
         /\ dirs' = [dirs EXCEPT ![d].exists = TRUE, ![d].used = TRUE]
  BY <1>1 DEF Launch, Occupied
<1> HIDE DEF started, refused, ask
<1>5. trace' = <<>>
  BY DEF Launch
<1>6. ASSUME NEW used \in BOOLEAN, ~dirs[d].used,
             dirs' = [dirs EXCEPT ![d].exists = TRUE, ![d].used = used]
      PROVE  /\ dirs' \in [Names -> DirType] /\ dirs'[d].used = used
             /\ \A e \in Names : /\ dirs'[e].completion = dirs[e].completion
                                 /\ dirs'[e].verdict = dirs[e].verdict
                                 /\ dirs[e].used => dirs'[e].used
  <2>1. dirs \in [Names -> DirType]
    BY DEF ToolTypes
  <2>2. dirs' = [dirs EXCEPT ![d] = [dirs[d] EXCEPT !.exists = TRUE, !.used = used]]
    BY <1>6, <2>1
  <2>3. /\ [dirs[d] EXCEPT !.exists = TRUE, !.used = used] \in DirType
        /\ [dirs[d] EXCEPT !.exists = TRUE, !.used = used].used = used
        /\ [dirs[d] EXCEPT !.exists = TRUE, !.used = used].completion = dirs[d].completion
        /\ [dirs[d] EXCEPT !.exists = TRUE, !.used = used].verdict = dirs[d].verdict
    BY <2>1 DEF DirType
  <2> QED
    BY <1>6, <2>1, <2>2, <2>3
<1>7. dirs \in [Names -> DirType]
  BY DEF ToolTypes
<1>8. CASE run' = refused /\ dirs' = dirs
  BY <1>3, <1>5, <1>7, <1>8 DEF Launched
<1>9. CASE /\ run' = refused /\ ~dirs[d].used
           /\ dirs' = [dirs EXCEPT ![d].exists = TRUE, ![d].used = ask.copies]
  <2>1. ask.copies \in BOOLEAN
    BY <1>1
  <2> QED
    BY <1>3, <1>5, <1>6, <1>9, <2>1 DEF Launched
<1>10. CASE /\ run' = started /\ ~dirs[d].used
            /\ dirs' = [dirs EXCEPT ![d].exists = TRUE, ![d].used = TRUE]
  BY <1>3, <1>5, <1>6, <1>10 DEF Launched
<1> QED
  BY <1>4, <1>8, <1>9, <1>10

\* A launch leaves what the directories hold, and finds its own empty.
LEMMA LaunchedHarness ==
  ASSUME AcceptanceInv, NEW d \in Names, NEW kidnap, NEW by, Launched(d, kidnap, by)
  PROVE  HarnessInv'
<1>0. run.id \in Nat /\ run'.id # NoRun
  BY BoundsTypes DEF AcceptanceInv, ToolTypes, RunType, Launched, NoRun
<1>1. \A e \in Names : ~dirs'[e].used => dirs'[e].completion = NoFile /\ dirs'[e].verdict = NoFile
  BY DEF AcceptanceInv, HarnessInv, Launched
<1>2. CASE run'.phase = "done" /\ run'.exit = 2
  BY <1>1, <1>2 DEF HarnessInv, HarnessPassIsEarned
<1>3. CASE run'.phase = "playing" /\ ~dirs[d].used /\ dirs'[d].used
  <2>1. dirs'[d].completion = NoFile /\ dirs'[d].verdict = NoFile /\ run'.name = d
    BY <1>3 DEF AcceptanceInv, HarnessInv, Launched
  <2>2. HarnessPassIsEarned'
    BY <1>3 DEF HarnessPassIsEarned, Done
  <2> QED
    BY <1>0, <1>1, <1>3, <2>1, <2>2 DEF HarnessInv
<1> QED
  BY <1>2, <1>3 DEF Launched

LEMMA ResultNames ==
  ASSUME matrix \in MatrixType
  PROVE  /\ DOMAIN matrix.results = 1..Len(matrix.results) /\ Len(matrix.results) \in Nat
         /\ \A k \in DOMAIN matrix.results : matrix.results[k].name \in Names
<1> DEFINE Result == [name: Names, code: {0, 1, 2}]
<1>1. matrix.results \in Seq(Result)
  BY DEF MatrixType
<1>2. \A result \in Result : result.name \in Names
  OBVIOUS
<1> HIDE DEF Result
<1>3. \A k \in 1..Len(matrix.results) : matrix.results[k] \in Result
  BY <1>1, ElementOfSeq
<1>4. DOMAIN matrix.results = 1..Len(matrix.results) /\ Len(matrix.results) \in Nat
  BY <1>1, LenProperties
<1> QED
  BY <1>2, <1>3, <1>4

\* The rest of a run: the matrix does not move, and the files the run writes
\* carry its number.
LEMMA SameMatrix ==
  ASSUME AcceptanceInv, matrix' = matrix, run.phase # "done",
         run'.id = run.id, run'.name = run.name, run'.by = run.by, run'.kidnap = run.kidnap,
         \A d \in Names :
           /\ dirs'[d].completion = dirs[d].completion \/ dirs'[d].completion.by = run.id
           /\ dirs'[d].verdict = dirs[d].verdict \/ dirs'[d].verdict.by = run.id
  PROVE  MatrixInv'
<1>1. run.id > matrix.since /\ MatrixInv
  BY DEF AcceptanceInv, MatrixInv
<1>2. \A d \in Names : GradedSince(dirs, d, matrix.since) => GradedSince(dirs', d, matrix.since)
  BY <1>1 DEF GradedSince
<1>3. \A k \in DOMAIN matrix.results : matrix.results[k].name \in Names
  BY ResultNames DEF AcceptanceInv, ToolTypes
<1>4. \A k \in DOMAIN matrix.results :
        matrix.results[k].code = 0 => GradedSince(dirs', matrix.results[k].name, matrix.since)
  BY <1>1, <1>2, <1>3 DEF MatrixInv
<1> QED
  BY <1>1, <1>4 DEF MatrixInv

\* The end of a run.
LEMMA FinishOf ==
  ASSUME ToolTypes, NEW code \in {0, 1, 2}, Finish(code)
  PROVE  /\ run' \in RunType /\ run'.phase = "done" /\ run'.exit = code
         /\ run'.id = run.id /\ run'.name = run.name /\ run'.by = run.by
         /\ run'.kidnap = run.kidnap
         /\ trace' \in Seq(TracePoses) /\ Len(trace') =< MaxSamples
<1>1. trace' = <<>> /\ <<>> \in Seq(TracePoses) /\ Len(<<>>) = 0
  BY EmptySeq DEF Finish
<1>2. trace' \in Seq(TracePoses) /\ Len(trace') =< MaxSamples
  BY <1>1, BoundsTypes
<1>3. run \in RunType /\ run' = [run EXCEPT !.phase = "done", !.exit = code]
  BY DEF ToolTypes, Finish
<1>4. run' \in RunType /\ run'.phase = "done" /\ run'.exit = code
  BY <1>3 DEF RunType
<1>5. /\ run'.id = run.id /\ run'.name = run.name /\ run'.by = run.by
      /\ run'.kidnap = run.kidnap
  BY <1>3 DEF RunType
<1> QED
  BY <1>2, <1>4, <1>5

LEMMA ProceedOf ==
  ASSUME ToolTypes, NEW phase \in {"completing", "grading"}, Proceed(phase)
  PROVE  /\ run' \in RunType /\ run'.phase = phase
         /\ run'.id = run.id /\ run'.name = run.name /\ run'.by = run.by
         /\ run'.kidnap = run.kidnap /\ trace' = trace
BY DEF Proceed, ToolTypes, RunType

\* A file written into the directory of the run.
LEMMA CompletionWritten ==
  ASSUME ToolTypes, NEW graded \in Reports,
         dirs' = [dirs EXCEPT ![run.name].completion = graded]
  PROVE  /\ dirs' \in [Names -> DirType] /\ run.name \in Names
         /\ dirs'[run.name].completion = graded
         /\ \A d \in Names : /\ dirs'[d].used = dirs[d].used
                             /\ dirs'[d].verdict = dirs[d].verdict
                             /\ d # run.name => dirs'[d] = dirs[d]
<1>1. dirs \in [Names -> DirType] /\ run.name \in Names
  BY DEF ToolTypes, RunType
<1> DEFINE new == [dirs[run.name] EXCEPT !.completion = graded]
<1>2. dirs' = [dirs EXCEPT ![run.name] = new]
  BY <1>1
<1>3. /\ new \in DirType /\ new.completion = graded /\ new.used = dirs[run.name].used
      /\ new.verdict = dirs[run.name].verdict
  BY <1>1 DEF DirType
<1> HIDE DEF new
<1> QED
  BY <1>1, <1>2, <1>3

LEMMA VerdictWritten ==
  ASSUME ToolTypes, NEW verdict \in VerdictFiles,
         dirs' = [dirs EXCEPT ![run.name].verdict = verdict]
  PROVE  /\ dirs' \in [Names -> DirType] /\ run.name \in Names
         /\ dirs'[run.name].verdict = verdict
         /\ \A d \in Names : /\ dirs'[d].used = dirs[d].used
                             /\ dirs'[d].completion = dirs[d].completion
                             /\ d # run.name => dirs'[d] = dirs[d]
<1>1. dirs \in [Names -> DirType] /\ run.name \in Names
  BY DEF ToolTypes, RunType
<1> DEFINE new == [dirs[run.name] EXCEPT !.verdict = verdict]
<1>2. dirs' = [dirs EXCEPT ![run.name] = new]
  BY <1>1
<1>3. /\ new \in DirType /\ new.verdict = verdict /\ new.used = dirs[run.name].used
      /\ new.completion = dirs[run.name].completion
  BY <1>1 DEF DirType
<1> HIDE DEF new
<1> QED
  BY <1>1, <1>2, <1>3

\* A pose gets a place of its own in time.
LEMMA StampedOf ==
  ASSUME NEW t \in Seq(TracePoses), NEW p \in Samples
  PROVE  /\ Stamped(t, p) \in TracePoses
         /\ t # <<>> => /\ Stamped(t, p).stamp = t[Len(t)].stamp + p.gap
                        /\ Stamped(t, p).stamp > t[Len(t)].stamp
<1>1. /\ p.gap \in Nat \ {0} /\ p.error \in {"near", "mid", "far"}
      /\ p.match \in {"exact", "loose", "none"}
  BY BoundsAssumption
<1>2. CASE t = <<>>
  BY <1>1, <1>2 DEF Stamped, StampOf, TracePoses
<1>3. CASE t # <<>>
  <2>1. t[Len(t)].stamp \in Nat
    <3>1. t[Len(t)] \in TracePoses
      BY <1>3, ElementOfSeq
    <3> QED
      BY <3>1 DEF TracePoses
  <2>2. StampOf(t, p) = t[Len(t)].stamp + p.gap
    BY <1>3 DEF StampOf
  <2> QED
    BY <1>1, <2>1, <2>2 DEF Stamped, TracePoses
<1> QED
  BY <1>2, <1>3

LEMMA RecordStep ==
  ASSUME AcceptanceInv, NEW p \in Samples, Record(p)
  PROVE  AcceptanceInv'
<1>0. /\ trace \in Seq(TracePoses) /\ trace' = Append(trace, Stamped(trace, p))
      /\ Len(trace) < MaxSamples
      /\ UNCHANGED <<matrix, run, dirs>> /\ MaxSamples \in Nat
  BY BoundsTypes DEF Record, AcceptanceInv, ToolTypes
<1>1. trace' \in Seq(TracePoses) /\ Len(trace') =< MaxSamples
  BY <1>0, StampedOf, AppendProperties
<1> QED
  BY <1>0, <1>1 DEF AcceptanceInv, ToolTypes, HarnessInv, HarnessPassIsEarned, Done,
                    MatrixInv, GradedSince

\* A run that ends without a pass.
LEMMA FailedRun ==
  ASSUME AcceptanceInv, NEW code \in {1, 2}, Finish(code), dirs' = dirs, matrix' = matrix,
         run.phase # "done"
  PROVE  AcceptanceInv'
<1>1. /\ run' \in RunType /\ run'.phase = "done" /\ run'.exit = code
      /\ run'.id = run.id /\ run'.name = run.name /\ run'.by = run.by
      /\ run'.kidnap = run.kidnap
      /\ trace' \in Seq(TracePoses) /\ Len(trace') =< MaxSamples
  BY FinishOf DEF AcceptanceInv
<1>2. ToolTypes'
  BY <1>1 DEF AcceptanceInv, ToolTypes
<1>3. HarnessInv'
  BY <1>1 DEF AcceptanceInv, HarnessInv, HarnessPassIsEarned
<1>4. MatrixInv'
  BY <1>1, SameMatrix
<1> QED
  BY <1>2, <1>3, <1>4 DEF AcceptanceInv

LEMMA ContainerStep ==
  ASSUME AcceptanceInv, NEW code \in {0, 1}, ContainerEnds(code)
  PROVE  AcceptanceInv'
<1>0. run.phase = "playing" /\ matrix' = matrix /\ dirs' = dirs
  BY DEF ContainerEnds
<1>1. CASE Finish(1) \/ Finish(2)
  BY <1>0, <1>1, FailedRun
<1>2. CASE Proceed("completing")
  <2>1. /\ run' \in RunType /\ run'.phase = "completing"
        /\ run'.id = run.id /\ run'.name = run.name /\ run'.by = run.by
        /\ run'.kidnap = run.kidnap /\ trace' = trace
    BY <1>2, ProceedOf DEF AcceptanceInv
  <2>2. ToolTypes'
    BY <1>0, <2>1 DEF AcceptanceInv, ToolTypes
  <2>3. HarnessInv'
    BY <1>0, <2>1 DEF AcceptanceInv, HarnessInv, HarnessPassIsEarned, Done
  <2>4. MatrixInv'
    BY <1>0, <2>1, SameMatrix
  <2> QED
    BY <2>2, <2>3, <2>4 DEF AcceptanceInv
<1> QED
  BY <1>1, <1>2 DEF ContainerEnds

LEMMA FailedGatesOf ==
  ASSUME NEW t, NEW undecided \in SUBSET Undecided
  PROVE  FailedGates(t, undecided) \in SUBSET Gates
BY DEF FailedGates, Gates, SafetyGates, Undecided

\* The gates are judged on the report of this very run: on what the checker has
\* just written, or on nothing, because nothing was there before.
LEMMA CompleteStep ==
  ASSUME AcceptanceInv, Complete
  PROVE  AcceptanceInv'
<1>0. /\ ToolTypes /\ HarnessInv /\ run.phase = "completing" /\ matrix' = matrix
      /\ run.name \in Names /\ run.id \in Nat /\ run.id # NoRun
      /\ dirs[run.name].used /\ dirs[run.name].completion = NoFile
      /\ dirs[run.name].verdict = NoFile
  BY BoundsTypes DEF Complete, AcceptanceInv, HarnessInv, ToolTypes, RunType
<1>1. CASE /\ dirs' = dirs
           /\ Finish(1) \/ AfterCompletion(dirs[run.name].completion)
  <2>1. Finish(1)
    BY <1>0, <1>1, NoFileOf DEF AfterCompletion, NoRun
  <2> QED
    BY <1>0, <1>1, <2>1, FailedRun
<1>2. ASSUME NEW undecided \in SUBSET Undecided,
             NEW graded,
             graded = [by |-> run.id, failed |-> FailedGates(trace, undecided)],
             dirs' = [dirs EXCEPT ![run.name].completion = graded],
             IF run.kidnap THEN AfterCompletion(graded)
             ELSE Finish(IF graded.failed = {} THEN 0 ELSE 1)
      PROVE  AcceptanceInv'
  <2>1. graded \in Reports /\ graded.by = run.id /\ graded.failed \in SUBSET Gates
    BY <1>0, <1>2, FailedGatesOf DEF Reports
  <2>2. /\ dirs' \in [Names -> DirType] /\ dirs'[run.name].completion = graded
        /\ \A d \in Names : /\ dirs'[d].used = dirs[d].used
                            /\ dirs'[d].verdict = dirs[d].verdict
                            /\ d # run.name => dirs'[d] = dirs[d]
    BY <1>0, <1>2, <2>1, CompletionWritten
  <2>3. \A e \in Names : ~dirs'[e].used => dirs'[e].completion = NoFile /\ dirs'[e].verdict = NoFile
    <3> SUFFICES ASSUME NEW e \in Names, ~dirs'[e].used
                 PROVE  dirs'[e].completion = NoFile /\ dirs'[e].verdict = NoFile
      OBVIOUS
    <3>1. e # run.name /\ ~dirs[e].used
      BY <1>0, <2>2
    <3> QED
      BY <1>0, <2>2, <3>1 DEF HarnessInv
  <2>4. ASSUME run'.id = run.id, run'.name = run.name, run'.by = run.by,
               run'.kidnap = run.kidnap
        PROVE  MatrixInv'
    <3>1. \A d \in Names :
             /\ dirs'[d].completion = dirs[d].completion \/ dirs'[d].completion.by = run.id
             /\ dirs'[d].verdict = dirs[d].verdict \/ dirs'[d].verdict.by = run.id
      BY <2>1, <2>2
    <3> QED
      BY <1>0, <2>4, <3>1, SameMatrix
  <2>5. CASE Proceed("grading") /\ run.kidnap /\ graded.failed \cap SafetyGates = {}
    <3>1. /\ run' \in RunType /\ run'.phase = "grading"
          /\ run'.id = run.id /\ run'.name = run.name /\ run'.by = run.by
          /\ run'.kidnap = run.kidnap /\ trace' = trace
      BY <1>0, <2>5, ProceedOf
    <3>2. ToolTypes'
      BY <1>0, <2>2, <3>1 DEF ToolTypes
    <3>3. HarnessInv'
      BY <1>0, <2>1, <2>2, <2>3, <2>5, <3>1 DEF HarnessInv, HarnessPassIsEarned, Done
    <3> QED
      BY <2>4, <3>1, <3>2, <3>3 DEF AcceptanceInv
  <2>6. ASSUME NEW code \in {0, 1}, Finish(code),
               code = 0 => ~run.kidnap /\ graded.failed = {}
        PROVE  AcceptanceInv'
    <3>1. /\ run' \in RunType /\ run'.phase = "done" /\ run'.exit = code
          /\ run'.id = run.id /\ run'.name = run.name /\ run'.by = run.by
          /\ run'.kidnap = run.kidnap
          /\ trace' \in Seq(TracePoses) /\ Len(trace') =< MaxSamples
      BY <1>0, <2>6, FinishOf
    <3>2. ToolTypes'
      BY <1>0, <2>2, <3>1 DEF ToolTypes
    <3>3. HarnessPassIsEarned'
      BY <2>1, <2>2, <2>6, <3>1 DEF HarnessPassIsEarned
    <3> QED
      BY <2>3, <2>4, <3>1, <3>2, <3>3 DEF AcceptanceInv, HarnessInv
  <2>7. CASE run.kidnap
    <3>1. AfterCompletion(graded)
      BY <1>2, <2>7
    <3> QED
      BY <2>5, <2>6, <2>7, <3>1 DEF AfterCompletion
  <2>8. CASE ~run.kidnap
    <3>1. Finish(IF graded.failed = {} THEN 0 ELSE 1)
      BY <1>2, <2>8
    <3> QED
      BY <2>6, <2>8, <3>1
  <2> QED
    BY <2>7, <2>8
<1> QED
  BY <1>0, <1>1, <1>2 DEF Complete

LEMMA VerdictOf ==
  ASSUME NEW t
  PROVE  Verdict(t) \in {"never_lost", "recovered_true", "recovered_false"}
BY DEF Verdict

\* Only a verdict of this run that accepts makes a kidnap run pass.
LEMMA GradeStep ==
  ASSUME AcceptanceInv, Grade
  PROVE  AcceptanceInv'
<1>0. /\ ToolTypes /\ HarnessInv /\ run.phase = "grading" /\ matrix' = matrix
      /\ run.name \in Names /\ run.id \in Nat /\ run.id # NoRun
      /\ dirs[run.name].used /\ run.kidnap
      /\ dirs[run.name].completion.by = run.id
      /\ dirs[run.name].completion.failed \cap SafetyGates = {}
  BY BoundsTypes DEF Grade, AcceptanceInv, HarnessInv, ToolTypes, RunType
<1>1. CASE Finish(1) /\ dirs' = dirs
  BY <1>0, <1>1, FailedRun
<1>2. ASSUME NEW verdict,
             verdict = [by |-> run.id, verdict |-> Verdict(grader)],
             dirs' = [dirs EXCEPT ![run.name].verdict = verdict],
             Finish(IF Verdict(grader) \in AcceptedVerdicts THEN 0 ELSE 1)
      PROVE  AcceptanceInv'
  <2>1. verdict \in VerdictFiles /\ verdict.by = run.id /\ verdict.verdict = Verdict(grader)
    BY <1>0, <1>2, VerdictOf DEF VerdictFiles
  <2>2. /\ dirs' \in [Names -> DirType] /\ dirs'[run.name].verdict = verdict
        /\ \A d \in Names : /\ dirs'[d].used = dirs[d].used
                            /\ dirs'[d].completion = dirs[d].completion
                            /\ d # run.name => dirs'[d] = dirs[d]
    BY <1>0, <1>2, <2>1, VerdictWritten
  <2>3. \A e \in Names : ~dirs'[e].used => dirs'[e].completion = NoFile /\ dirs'[e].verdict = NoFile
    <3> SUFFICES ASSUME NEW e \in Names, ~dirs'[e].used
                 PROVE  dirs'[e].completion = NoFile /\ dirs'[e].verdict = NoFile
      OBVIOUS
    <3>1. e # run.name /\ ~dirs[e].used
      BY <1>0, <2>2
    <3> QED
      BY <1>0, <2>2, <3>1 DEF HarnessInv
  <2>4. PICK code \in {0, 1} : /\ Finish(code)
                               /\ code = 0 => Verdict(grader) \in AcceptedVerdicts
    BY <1>2
  <2>5. /\ run' \in RunType /\ run'.phase = "done" /\ run'.exit = code
        /\ run'.id = run.id /\ run'.name = run.name /\ run'.by = run.by
        /\ run'.kidnap = run.kidnap
        /\ trace' \in Seq(TracePoses) /\ Len(trace') =< MaxSamples
    BY <1>0, <2>4, FinishOf
  <2>6. ToolTypes'
    BY <1>0, <2>2, <2>5 DEF ToolTypes
  <2>7. HarnessPassIsEarned'
    BY <1>0, <2>1, <2>2, <2>4, <2>5 DEF HarnessPassIsEarned
  <2>8. \A d \in Names :
           /\ dirs'[d].completion = dirs[d].completion \/ dirs'[d].completion.by = run.id
           /\ dirs'[d].verdict = dirs[d].verdict \/ dirs'[d].verdict.by = run.id
    BY <2>1, <2>2
  <2>9. MatrixInv'
    BY <1>0, <2>5, <2>8, SameMatrix
  <2> QED
    BY <2>3, <2>5, <2>6, <2>7, <2>9 DEF AcceptanceInv, HarnessInv
<1> QED
  BY <1>0, <1>1, <1>2 DEF Grade

LEMMA InterruptStep ==
  ASSUME AcceptanceInv, Interrupt
  PROVE  AcceptanceInv'
<1>0. run.phase # "done" /\ Finish(1) /\ dirs' = dirs
  BY DEF Interrupt
<1>1. CASE run.by # "matrix"
  BY <1>0, <1>1, FailedRun DEF Interrupt
<1>2. CASE run.by = "matrix"
  <2>1. /\ run' \in RunType /\ run'.phase = "done" /\ run'.exit = 1
        /\ run'.id = run.id /\ run'.name = run.name /\ run'.by = run.by
        /\ run'.kidnap = run.kidnap
        /\ trace' \in Seq(TracePoses) /\ Len(trace') =< MaxSamples
    BY <1>0, FinishOf DEF AcceptanceInv
  <2>2. /\ matrix \in MatrixType
        /\ matrix' = [matrix EXCEPT !.phase = "over", !.exit = 1, !.waiting = FALSE]
    BY <1>2 DEF Interrupt, AcceptanceInv, ToolTypes
  <2>3. /\ matrix' \in MatrixType /\ matrix'.phase = "over" /\ matrix'.exit = 1
        /\ ~matrix'.waiting /\ matrix'.results = matrix.results /\ matrix'.since = matrix.since
    BY <2>2 DEF MatrixType
  <2>4. ToolTypes'
    BY <1>0, <2>1, <2>3 DEF AcceptanceInv, ToolTypes
  <2>5. HarnessInv'
    BY <1>0, <2>1 DEF AcceptanceInv, HarnessInv, HarnessPassIsEarned
  <2>6. MatrixInv'
    BY <1>0, <2>1, <2>3 DEF AcceptanceInv, MatrixInv, GradedSince
  <2> QED
    BY <2>4, <2>5, <2>6 DEF AcceptanceInv
<1> QED
  BY <1>1, <1>2

LEMMA LaunchedGraded ==
  ASSUME ToolTypes, NEW d, NEW kidnap, NEW by, Launched(d, kidnap, by),
         matrix'.results = matrix.results, matrix'.since = matrix.since,
         \A k \in DOMAIN matrix.results :
           matrix.results[k].code = 0 => GradedSince(dirs, matrix.results[k].name, matrix.since)
  PROVE  \A k \in DOMAIN matrix'.results :
           matrix'.results[k].code = 0 => GradedSince(dirs', matrix'.results[k].name, matrix'.since)
<1>1. \A e \in Names : /\ dirs'[e].completion = dirs[e].completion
                      /\ dirs'[e].verdict = dirs[e].verdict
  BY DEF Launched
<1>2. \A k \in DOMAIN matrix.results : matrix.results[k].name \in Names
  BY ResultNames DEF ToolTypes
<1>3. \A k \in DOMAIN matrix.results :
        matrix.results[k].code = 0 => GradedSince(dirs', matrix.results[k].name, matrix.since)
  BY <1>1, <1>2 DEF GradedSince
<1> QED
  BY <1>3

LEMMA OperatorStep ==
  ASSUME AcceptanceInv, OperatorRuns
  PROVE  AcceptanceInv'
<1>0. matrix' = matrix /\ matrix.phase # "running"
  BY DEF OperatorRuns
<1>1. PICK d \in Names, o \in Options : Launch(d, Ask(o), "operator")
  BY DEF OperatorRuns, Asks
<1>2. /\ run' \in RunType /\ dirs' \in [Names -> DirType]
      /\ trace' = <<>> /\ Launched(d, o.kidnap, "operator")
  BY <1>1, LaunchOf DEF AcceptanceInv
<1>3. <<>> \in Seq(TracePoses) /\ Len(<<>>) = 0
  BY EmptySeq
<1>4. ToolTypes'
  BY <1>0, <1>2, <1>3, BoundsTypes DEF AcceptanceInv, ToolTypes
<1>5. HarnessInv'
  BY <1>2, LaunchedHarness
<1>6. \A k \in DOMAIN matrix'.results :
        matrix'.results[k].code = 0 => GradedSince(dirs', matrix'.results[k].name, matrix'.since)
  BY <1>0, <1>2, LaunchedGraded DEF AcceptanceInv, MatrixInv
<1>7. run'.id > matrix.since /\ run'.by = "operator" /\ ~matrix.waiting
  BY <1>0, <1>2, BoundsTypes
  DEF Launched, AcceptanceInv, MatrixInv, ToolTypes, RunType, MatrixType
<1>8. MatrixInv /\ run'.id >= matrix.since
  BY <1>2, BoundsTypes DEF Launched, AcceptanceInv, MatrixInv, ToolTypes, RunType, MatrixType
<1>9. MatrixInv'
  BY <1>0, <1>6, <1>7, <1>8 DEF MatrixInv
<1> QED
  BY <1>4, <1>5, <1>9 DEF AcceptanceInv

LEMMA MatrixLaunchesStep ==
  ASSUME AcceptanceInv, NEW extension \in BOOLEAN, MatrixLaunches(extension)
  PROVE  AcceptanceInv'
<1> DEFINE d == Head(matrix.todo)
           o == [indoor |-> FALSE, prior |-> TRUE, center |-> TRUE, yaw |-> TRUE,
                 tight |-> TRUE, gain |-> FALSE, inject |-> FALSE, image |-> TRUE,
                 occupancy |-> matrix.occupancy, extension |-> extension,
                 kidnap |-> d \in Kidnaps]
<1>0. /\ matrix.phase = "running" /\ ~matrix.waiting /\ matrix \in MatrixType
      /\ matrix' = [matrix EXCEPT !.waiting = TRUE] /\ Launch(d, Ask(o), "matrix")
  BY DEF MatrixLaunches, AcceptanceInv, ToolTypes
<1>1. matrix.todo \in Seq(Names) /\ matrix.todo # <<>> /\ matrix.occupancy \in BOOLEAN
  BY <1>0 DEF MatrixType, AcceptanceInv, MatrixInv
<1>2. d \in Names
  BY <1>1, HeadTailProperties
<1>3. o \in Options /\ o.kidnap = (d \in Kidnaps)
  BY <1>1 DEF Options
<1> HIDE DEF o
<1>4. /\ run' \in RunType /\ dirs' \in [Names -> DirType]
      /\ trace' = <<>> /\ Launched(d, d \in Kidnaps, "matrix")
  BY <1>0, <1>2, <1>3, LaunchOf DEF AcceptanceInv
<1>5. /\ matrix' \in MatrixType /\ matrix'.phase = "running" /\ matrix'.waiting
      /\ matrix'.todo = matrix.todo /\ matrix'.results = matrix.results
      /\ matrix'.since = matrix.since /\ matrix'.exit = matrix.exit
      /\ matrix'.failed = matrix.failed
  BY <1>0 DEF MatrixType
<1>6. <<>> \in Seq(TracePoses) /\ Len(<<>>) = 0
  BY EmptySeq
<1>7. ToolTypes'
  BY <1>4, <1>5, <1>6, BoundsTypes DEF ToolTypes
<1>8. HarnessInv'
  BY <1>2, <1>4, LaunchedHarness
<1>9. \A k \in DOMAIN matrix'.results :
        matrix'.results[k].code = 0 => GradedSince(dirs', matrix'.results[k].name, matrix'.since)
  BY <1>4, <1>5, LaunchedGraded DEF AcceptanceInv, MatrixInv
<1>10. run'.id > matrix.since /\ run'.id >= matrix.since
  BY <1>0, <1>4, BoundsTypes
  DEF Launched, AcceptanceInv, MatrixInv, ToolTypes, RunType, MatrixType
<1>11. run'.by = "matrix" /\ run'.name = d /\ run'.kidnap = (run'.name \in Kidnaps)
  BY <1>4 DEF Launched
<1> HIDE DEF d
<1>12. matrix.exit = 0 <=> ~matrix.failed
  BY <1>0 DEF AcceptanceInv, MatrixInv
<1>13. matrix.exit = 0 => \A k \in DOMAIN matrix.results : matrix.results[k].code = 0
  BY <1>0 DEF AcceptanceInv, MatrixInv
<1>14. d = Head(matrix'.todo)
  BY <1>5 DEF d
<1>15. MatrixInv'
  BY <1>1, <1>5, <1>9, <1>10, <1>11, <1>12, <1>13, <1>14 DEF MatrixInv
<1> QED
  BY <1>7, <1>8, <1>15 DEF AcceptanceInv

\* A new matrix begins with nothing collected and an empty root.
LEMMA MatrixBeginStep ==
  ASSUME AcceptanceInv,
         MatrixRefuses \/ \E list \in Lists, occupancy, failFast \in BOOLEAN :
                            MatrixStart(list, occupancy, failFast)
  PROVE  AcceptanceInv'
<1>0. /\ UNCHANGED <<run, dirs, trace, grader>> /\ run.phase = "done" /\ matrix.phase # "running"
      /\ matrix \in MatrixType /\ run.id \in 0..MaxRuns /\ matrix.since \in 0..MaxRuns
      /\ ~matrix.waiting /\ run.id >= matrix.since
  BY DEF MatrixRefuses, MatrixStart, AcceptanceInv, ToolTypes, RunType, MatrixType, MatrixInv
<1>1. HarnessInv'
  BY <1>0 DEF AcceptanceInv, HarnessInv, HarnessPassIsEarned, Done
<1>2. <<>> \in Seq([name: Names, code: {0, 1, 2}]) /\ DOMAIN <<>> = {}
  BY EmptySeq
<1>3. CASE MatrixRefuses
  <2>1. matrix' = [matrix EXCEPT !.phase = "over", !.exit = 2, !.results = <<>>]
    BY <1>3 DEF MatrixRefuses
  <2>2. /\ matrix' \in MatrixType /\ matrix'.phase = "over" /\ matrix'.exit = 2
        /\ matrix'.results = <<>> /\ matrix'.since = matrix.since
        /\ matrix'.waiting = matrix.waiting
    BY <1>0, <1>2, <2>1 DEF MatrixType
  <2>3. ToolTypes'
    BY <1>0, <2>2 DEF AcceptanceInv, ToolTypes
  <2>4. MatrixInv'
    BY <1>0, <1>2, <2>2 DEF MatrixInv
  <2> QED
    BY <1>1, <2>3, <2>4 DEF AcceptanceInv
<1>4. ASSUME NEW list \in Lists, NEW occupancy \in BOOLEAN, NEW failFast \in BOOLEAN,
             MatrixStart(list, occupancy, failFast)
      PROVE  AcceptanceInv'
  <2>1. list \in Seq(Names) /\ list # <<>>
    BY BoundsTypes
  <2>2. matrix' = [phase |-> "running", exit |-> 0, todo |-> list, failed |-> FALSE,
                   waiting |-> FALSE, manifest |-> FALSE, results |-> <<>>,
                   occupancy |-> occupancy, failFast |-> failFast, since |-> run.id]
    BY <1>4 DEF MatrixStart
  <2>3. matrix' \in MatrixType
    BY <1>0, <1>2, <2>1, <2>2 DEF MatrixType
  <2>4. ToolTypes'
    BY <1>0, <2>3 DEF AcceptanceInv, ToolTypes
  <2>5. MatrixInv'
    BY <1>0, <1>2, <2>1, <2>2 DEF MatrixInv
  <2> QED
    BY <1>1, <2>4, <2>5 DEF AcceptanceInv
<1> QED
  BY <1>3, <1>4

\* A sequence that passed is graded, because its harness earned the pass.
LEMMA MatrixCollectsStep ==
  ASSUME AcceptanceInv, MatrixCollects
  PROVE  AcceptanceInv'
<1> DEFINE d == Head(matrix.todo)
           rest == Tail(matrix.todo)
           code == run.exit
           Result == [name: Names, code: {0, 1, 2}]
           result == [name |-> d, code |-> code]
           failed == matrix.failed \/ code # 0
<1>0. /\ UNCHANGED <<run, dirs, trace, grader>> /\ run.phase = "done" /\ matrix.phase = "running"
      /\ matrix.waiting /\ matrix' = Collected(run.exit)
  BY DEF MatrixCollects
<1>1. /\ matrix \in MatrixType /\ code \in {0, 1, 2} /\ run.id \in 0..MaxRuns
      /\ matrix.since \in 0..MaxRuns /\ run.name \in Names /\ run.id > matrix.since
      /\ matrix.todo # <<>> /\ run.name = d /\ run.kidnap = (d \in Kidnaps)
  BY <1>0 DEF AcceptanceInv, ToolTypes, MatrixType, RunType, MatrixInv
<1>2. code = 0 => GradedSince(dirs, d, matrix.since)
  <2> SUFFICES ASSUME code = 0 PROVE GradedSince(dirs, d, matrix.since)
    OBVIOUS
  <2>1. Done
    BY <1>0, <1>1, BoundsTypes DEF Done, NoRun
  <2>2. dirs[d].completion.by = run.id /\ (run.kidnap => dirs[d].verdict.by = run.id)
    BY <1>1, <2>1 DEF AcceptanceInv, HarnessInv, HarnessPassIsEarned
  <2> HIDE DEF d
  <2> QED
    BY <1>1, <2>2 DEF GradedSince
<1>3. matrix.todo \in Seq(Names) /\ matrix.results \in Seq(Result)
  BY <1>1 DEF MatrixType
<1>4. rest \in Seq(Names) /\ d \in Names
  BY <1>1, <1>3, HeadTailProperties
<1>5. result \in Result
  BY <1>1, <1>4
<1> HIDE DEF Result, result, d, rest
<1>6. /\ Append(matrix.results, result) \in Seq(Result)
      /\ Len(Append(matrix.results, result)) = Len(matrix.results) + 1
      /\ \A k \in 1..Len(matrix.results) :
           Append(matrix.results, result)[k] = matrix.results[k]
      /\ Append(matrix.results, result)[Len(matrix.results) + 1] = result
  BY <1>3, <1>5, AppendProperties
<1>7. DOMAIN matrix.results = 1..Len(matrix.results) /\ Len(matrix.results) \in Nat
      /\ DOMAIN Append(matrix.results, result) = 1..(Len(matrix.results) + 1)
  BY <1>3, <1>6, LenProperties
<1> DEFINE results == Append(matrix.results, result)
<1>8. failed \in BOOLEAN /\ (failed <=> matrix.failed \/ code # 0)
  BY <1>1 DEF MatrixType
<1>9. matrix' = [matrix EXCEPT !.waiting = FALSE, !.manifest = TRUE, !.failed = failed,
        !.results = results, !.todo = rest,
        !.phase = IF rest = <<>> \/ (failed /\ matrix.failFast) THEN "over" ELSE @,
        !.exit = IF failed THEN 1 ELSE 0]
  BY <1>0, <1>1 DEF Collected, MatrixType, d, rest, result
<1> HIDE DEF failed, code, results
<1>10. results \in Seq(Result)
  BY <1>6 DEF results
<1>11. /\ matrix'.waiting = FALSE /\ matrix'.failed = failed /\ matrix'.results = results
       /\ matrix'.todo = rest /\ matrix'.since = matrix.since
       /\ matrix'.phase = (IF rest = <<>> \/ (failed /\ matrix.failFast) THEN "over" ELSE "running")
       /\ matrix'.exit = IF failed THEN 1 ELSE 0
  BY <1>0, <1>1, <1>9 DEF MatrixType
<1>12. matrix' \in MatrixType
  BY <1>0, <1>1, <1>4, <1>8, <1>9, <1>10 DEF MatrixType, Result
<1>13. ToolTypes'
  BY <1>0, <1>12 DEF AcceptanceInv, ToolTypes
<1>14. HarnessInv'
  BY <1>0 DEF AcceptanceInv, HarnessInv, HarnessPassIsEarned, Done
<1>15. \A k \in DOMAIN results :
         /\ results[k].code = 0 => GradedSince(dirs, results[k].name, matrix.since)
         /\ ~failed => results[k].code = 0
  <2> SUFFICES ASSUME NEW k \in 1..(Len(matrix.results) + 1)
               PROVE  /\ results[k].code = 0 => GradedSince(dirs, results[k].name, matrix.since)
                      /\ ~failed => results[k].code = 0
    BY <1>7 DEF results
  <2>1. CASE k = Len(matrix.results) + 1
    <3>1. results[k].name = d /\ results[k].code = code
      BY <1>6, <2>1 DEF results, result
    <3> QED
      BY <1>2, <1>8, <3>1
  <2>2. CASE k \in 1..Len(matrix.results)
    <3>1. results[k] = matrix.results[k]
      BY <1>6, <2>2 DEF results
    <3>2. matrix.results[k].code = 0 => GradedSince(dirs, matrix.results[k].name, matrix.since)
      BY <1>7, <2>2 DEF AcceptanceInv, MatrixInv
    <3>3. ~matrix.failed => matrix.results[k].code = 0
      BY <1>0, <1>7, <2>2 DEF AcceptanceInv, MatrixInv
    <3> QED
      BY <1>8, <3>1, <3>2, <3>3
  <2> QED
    BY <1>7, <2>1, <2>2
<1>16. \A k \in DOMAIN matrix'.results :
         matrix'.results[k].code = 0 => GradedSince(dirs', matrix'.results[k].name, matrix'.since)
  BY <1>0, <1>11, <1>15
<1>17. results # <<>>
  <2>1. Len(matrix.results) + 1 \in DOMAIN results
    BY <1>7 DEF results
  <2> QED
    BY <2>1, EmptySeq
<1>18. matrix'.exit = 0 <=> ~failed
  BY <1>11
<1>19. matrix'.phase \in {"running", "over"} /\ (matrix'.phase = "running" => rest # <<>>)
       /\ (matrix'.phase = "over" /\ ~failed => rest = <<>>)
  BY <1>11
<1>20. MatrixInv'
  BY <1>0, <1>1, <1>11, <1>15, <1>16, <1>17, <1>18, <1>19 DEF MatrixInv
<1> QED
  BY <1>13, <1>14, <1>20 DEF AcceptanceInv

LEMMA FreshRootStep ==
  ASSUME AcceptanceInv, FreshRoot
  PROVE  AcceptanceInv'
<1>0. /\ dirs' = [d \in Names |-> EmptyDir] /\ trace' = trace /\ run.phase = "done"
      /\ matrix' = [matrix EXCEPT !.manifest = FALSE, !.phase = "idle", !.results = <<>>]
      /\ run' = [run EXCEPT !.exit = 2] /\ matrix.phase # "running"
      /\ matrix \in MatrixType /\ run \in RunType
  BY DEF FreshRoot, AcceptanceInv, ToolTypes
<1>1. EmptyDir \in DirType /\ EmptyDir.completion = NoFile /\ EmptyDir.verdict = NoFile
  BY NoFileOf DEF EmptyDir, DirType
<1>2. <<>> \in Seq([name: Names, code: {0, 1, 2}]) /\ DOMAIN <<>> = {}
  BY EmptySeq
<1>3. run' \in RunType /\ run'.exit = 2 /\ run'.phase = "done" /\ run'.id = run.id
  BY <1>0 DEF RunType
<1>4. /\ matrix' \in MatrixType /\ matrix'.phase = "idle" /\ matrix'.results = <<>>
      /\ matrix'.waiting = matrix.waiting /\ matrix'.since = matrix.since
  BY <1>0, <1>2 DEF MatrixType
<1>5. ToolTypes'
  BY <1>0, <1>1, <1>3, <1>4 DEF AcceptanceInv, ToolTypes
<1>6. HarnessInv'
  BY <1>0, <1>1, <1>3 DEF HarnessInv, HarnessPassIsEarned
<1>7. MatrixInv'
  BY <1>0, <1>2, <1>3, <1>4 DEF AcceptanceInv, MatrixInv
<1> QED
  BY <1>5, <1>6, <1>7 DEF AcceptanceInv

LEMMA AcceptanceHolds == Spec => []AcceptanceInv
<1>1. AcceptanceInv /\ [Next]_vars => AcceptanceInv'
  <2> SUFFICES ASSUME AcceptanceInv, [Next]_vars PROVE AcceptanceInv'
    OBVIOUS
  <2>1. CASE OperatorRuns
    BY <2>1, OperatorStep
  <2>2. CASE Harness
    BY <2>2, RecordStep, ContainerStep, CompleteStep, GradeStep, InterruptStep DEF Harness
  <2>3. CASE Matrix
    BY <2>3, MatrixBeginStep, MatrixLaunchesStep, MatrixCollectsStep DEF Matrix
  <2>4. CASE FreshRoot
    BY <2>4, FreshRootStep
  <2>5. CASE UNCHANGED vars
    BY <2>5 DEF vars, AcceptanceInv, ToolTypes, HarnessInv, HarnessPassIsEarned, Done,
                MatrixInv, GradedSince
  <2> QED
    BY <2>1, <2>2, <2>3, <2>4, <2>5 DEF Next
<1> QED
  BY <1>1, AcceptanceInit, PTL DEF Spec

\* A harness that exits 0 judged its own recording, whatever the order in which
\* an operator and a matrix start, interrupt and repeat runs in the same
\* directories (run_koide_glim_odometry_benchmark.py).
THEOREM HarnessesEarnTheirPass == Spec => []HarnessPassIsEarned
<1>1. AcceptanceInv => HarnessPassIsEarned
  BY DEF AcceptanceInv, HarnessInv
<1> QED
  BY <1>1, AcceptanceHolds, PTL

\* A matrix that exits 0 ran every listed sequence itself and each was graded
\* by its own files (run_koide_glil_tightly_coupled_matrix.py).
THEOREM GreenMatricesAreComplete == Spec => []GreenMatrixIsComplete
<1>1. AcceptanceInv => GreenMatrixIsComplete
  <2> SUFFICES ASSUME AcceptanceInv PROVE GreenMatrixIsComplete
    OBVIOUS
  <2>1. MatrixTypeOK
    <3>1. run.phase # "done" => dirs[run.name].used
      BY DEF AcceptanceInv, HarnessInv
    <3>2. /\ matrix.waiting => matrix.phase = "running"
          /\ run.phase # "done" /\ run.by = "matrix" => matrix.waiting
      BY DEF AcceptanceInv, MatrixInv
    <3> QED
      BY <3>1, <3>2 DEF MatrixTypeOK, AcceptanceInv, ToolTypes, RunType, MatrixType
  <2>2. ASSUME matrix.phase = "over", matrix.exit = 0
        PROVE  /\ matrix.todo = <<>> /\ matrix.results # <<>>
               /\ \A k \in DOMAIN matrix.results :
                    matrix.results[k].code = 0 /\ GradedSince(dirs, matrix.results[k].name, matrix.since)
    BY <2>2 DEF AcceptanceInv, MatrixInv
  <2> QED
    BY <2>1, <2>2 DEF GreenMatrixIsComplete, GradedSince
<1> QED
  BY <1>1, AcceptanceHolds, PTL
-----------------------------------------------------------------------------
(* The verdict: the window scan against the recording.                     *)

GraderType ==
  [lost: BOOLEAN, open: Nat, found: Nat, prev: Nat, matched: Nat, near: BOOLEAN]

\* Poses i to j are recovered, each in time after its predecessor, behind a loss.
Recovering(t, i, j) ==
  /\ i \in 2..j /\ j \in 2..Len(t)
  /\ \E loss \in 1..(i - 1) : Lost(t[loss])
  /\ \A k \in i..j : Near(t[k]) /\ Gap(t, k) =< SampleGap
Long(t, i, j) == t[j].stamp - t[i].stamp >= MinWindow

InOrder(t) ==
  /\ t \in Seq(TracePoses)
  /\ \A i \in 1..Len(t) : \A j \in 1..Len(t) : i < j => t[i].stamp < t[j].stamp

\* The last pose with ground truth.
LastMatched(t, last) ==
  /\ last \in 1..Len(t) /\ Matched(t[last])
  /\ \A k \in last + 1..Len(t) : ~Matched(t[k])

\* The open window is the longest stretch that reaches the last pose; the window
\* found last ends where the last closed stretch that is long enough ends.
OpenInv(t, g) ==
  /\ g.open # NoTime =>
       \E i \in 2..Len(t) : Recovering(t, i, Len(t)) /\ t[i].stamp = g.open
  /\ \A i \in 2..Len(t) :
       Recovering(t, i, Len(t)) => g.open # NoTime /\ g.open <= t[i].stamp
FoundInv(t, g) ==
  /\ g.found # NoTime =>
       \E j \in 2..Len(t) : \E i \in 2..j :
         Recovering(t, i, j) /\ Long(t, i, j) /\ t[j].stamp = g.found
  /\ \A j \in 2..Len(t) : \A i \in 2..j :
       Recovering(t, i, j) /\ Long(t, i, j) =>
         \/ Recovering(t, i, Len(t))
         \/ g.found # NoTime /\ t[j].stamp <= g.found
MatchedInv(t, g) ==
  (\E k \in 1..Len(t) : Matched(t[k])) =>
    \E last \in 1..Len(t) :
      LastMatched(t, last) /\ g.matched = t[last].stamp /\ (g.near <=> Near(t[last]))

GraderInv(t, g) ==
  /\ InOrder(t) /\ g \in GraderType
  /\ g.lost <=> \E k \in 1..Len(t) : Lost(t[k])
  /\ ~g.lost => g.open = NoTime /\ g.found = NoTime /\ g.prev = NoTime
  /\ g.lost => Len(t) \in Nat \ {0} /\ g.prev = t[Len(t)].stamp
  /\ OpenInv(t, g) /\ FoundInv(t, g) /\ MatchedInv(t, g)

\* The trace t with one more pose p, after all of its poses.
OneMore(t, new, p) ==
  /\ InOrder(t) /\ InOrder(new) /\ p \in TracePoses
  /\ Len(t) \in Nat /\ Len(new) = Len(t) + 1
  /\ \A k \in 1..Len(t) : new[k] = t[k]
  /\ new[Len(t) + 1] = p

LEMMA OneMoreOf ==
  ASSUME NEW t, InOrder(t), NEW p \in TracePoses, t # <<>> => p.stamp > t[Len(t)].stamp
  PROVE  OneMore(t, Append(t, p), p)
<1> DEFINE new == Append(t, p)
           n == Len(t)
<1>1. /\ new \in Seq(TracePoses) /\ n \in Nat /\ Len(new) = n + 1
      /\ \A k \in 1..n : new[k] = t[k]
      /\ new[n + 1] = p
  BY AppendProperties, LenProperties DEF InOrder
<1>2. \A k \in 1..n : t[k].stamp \in Nat
  <2>1. \A k \in 1..n : t[k] \in TracePoses
    BY ElementOfSeq DEF InOrder
  <2> QED
    BY <2>1 DEF TracePoses
<1>3. p.stamp \in Nat
  BY DEF TracePoses
<1>4. \A k \in 1..n : t[k].stamp < p.stamp
  <2> SUFFICES ASSUME NEW k \in 1..n PROVE t[k].stamp < p.stamp
    OBVIOUS
  <2>1. t # <<>> /\ n \in 1..n
    BY <1>1
  <2>2. k < n => t[k].stamp < t[n].stamp
    BY <1>1, <2>1 DEF InOrder
  <2> QED
    BY <1>1, <1>2, <1>3, <2>1, <2>2
<1>5. ASSUME NEW i \in 1..Len(new), NEW j \in 1..Len(new), i < j
      PROVE  new[i].stamp < new[j].stamp
  <2>1. CASE j = n + 1
    BY <1>1, <1>4, <1>5, <2>1
  <2>2. CASE j # n + 1
    <3>1. i \in 1..n /\ j \in 1..n
      BY <1>1, <1>5, <2>2
    <3> QED
      BY <1>1, <1>5, <3>1 DEF InOrder
  <2> QED
    BY <2>1, <2>2
<1> QED
  BY <1>1, <1>5 DEF OneMore, InOrder

\* A stretch of the longer trace is one of the trace before, or it goes on with
\* the new pose, or begins with it.
LEMMA RecoveringOf ==
  ASSUME NEW t, NEW new, NEW p, OneMore(t, new, p)
  PROVE  /\ \A j \in 2..Len(t) : \A i \in 2..j :
              /\ Recovering(new, i, j) <=> Recovering(t, i, j)
              /\ Long(new, i, j) <=> Long(t, i, j)
         /\ \A i \in 2..Len(t) : Len(t) >= 1 =>
              (Recovering(new, i, Len(new)) <=>
                 Recovering(t, i, Len(t)) /\ Near(p) /\ p.stamp - t[Len(t)].stamp <= SampleGap)
         /\ Len(t) >= 1 =>
              (Recovering(new, Len(new), Len(new)) <=>
                 /\ \E k \in 1..Len(t) : Lost(t[k])
                 /\ Near(p) /\ p.stamp - t[Len(t)].stamp <= SampleGap)
<1> DEFINE n == Len(t)
<1>1. /\ n \in Nat /\ Len(new) = n + 1 /\ (\A k \in 1..n : new[k] = t[k]) /\ new[n + 1] = p
  BY DEF OneMore
<1> HIDE DEF n
<1>2. \A k \in 2..n : new[k] = t[k] /\ Gap(new, k) = Gap(t, k)
  <2> SUFFICES ASSUME NEW k \in 2..n PROVE new[k] = t[k] /\ Gap(new, k) = Gap(t, k)
    OBVIOUS
  <2>1. k \in 1..n /\ k - 1 \in 1..n
    BY <1>1
  <2>2. new[k] = t[k] /\ new[k - 1] = t[k - 1]
    BY <1>1, <2>1
  <2> QED
    BY <2>2 DEF Gap
<1>3. n >= 1 => Gap(new, n + 1) = p.stamp - t[n].stamp
  <2> SUFFICES ASSUME n >= 1 PROVE Gap(new, n + 1) = p.stamp - t[n].stamp
    OBVIOUS
  <2>1. n + 1 - 1 = n /\ n \in 1..n
    BY <1>1
  <2>2. new[n + 1 - 1] = t[n]
    BY <1>1, <2>1
  <2> QED
    BY <1>1, <2>2 DEF Gap
<1>4. ASSUME NEW j \in 2..n, NEW i \in 2..j
      PROVE  /\ Recovering(new, i, j) <=> Recovering(t, i, j)
             /\ Long(new, i, j) <=> Long(t, i, j)
  <2>1. i \in 2..n /\ j \in 2..Len(new) /\ j \in 1..n /\ i \in 1..n
    BY <1>1
  <2>2. (\E loss \in 1..(i - 1) : Lost(new[loss])) <=> \E loss \in 1..(i - 1) : Lost(t[loss])
    <3>1. \A loss \in 1..(i - 1) : new[loss] = t[loss]
      BY <1>1, <2>1
    <3> QED
      BY <3>1
  <2>3. \A k \in i..j : k \in 2..n
    BY <1>1
  <2>4. (\A k \in i..j : Near(new[k]) /\ Gap(new, k) =< SampleGap)
          <=> (\A k \in i..j : Near(t[k]) /\ Gap(t, k) =< SampleGap)
    BY <1>2, <2>3
  <2>5. Recovering(new, i, j) <=> Recovering(t, i, j)
    BY <2>1, <2>2, <2>4 DEF Recovering, n
  <2>6. Long(new, i, j) <=> Long(t, i, j)
    BY <1>1, <2>1 DEF Long
  <2> QED
    BY <2>5, <2>6
<1>5. ASSUME NEW i \in 2..n
      PROVE  Recovering(new, i, n + 1) <=>
               Recovering(t, i, n) /\ Near(p) /\ p.stamp - t[n].stamp <= SampleGap
  <2>1. n \in 2..n /\ i \in 2..(n + 1) /\ n + 1 \in 2..Len(new) /\ i \in 2..n
    BY <1>1
  <2>2. (\E loss \in 1..(i - 1) : Lost(new[loss])) <=> \E loss \in 1..(i - 1) : Lost(t[loss])
    <3>1. \A loss \in 1..(i - 1) : new[loss] = t[loss]
      BY <1>1, <2>1
    <3> QED
      BY <3>1
  <2>3. i..(n + 1) = (i..n) \cup {n + 1}
    BY <1>1
  <2>4. (\A k \in i..n : Near(new[k]) /\ Gap(new, k) =< SampleGap)
          <=> (\A k \in i..n : Near(t[k]) /\ Gap(t, k) =< SampleGap)
    <3>1. \A k \in i..n : k \in 2..n
      BY <1>1
    <3> QED
      BY <1>2, <3>1
  <2>5. Near(new[n + 1]) /\ Gap(new, n + 1) =< SampleGap
          <=> Near(p) /\ p.stamp - t[n].stamp <= SampleGap
    BY <1>1, <1>3, <2>1
  <2> QED
    BY <2>1, <2>2, <2>3, <2>4, <2>5 DEF Recovering, n
<1>6. ASSUME n >= 1
      PROVE  Recovering(new, n + 1, n + 1) <=>
               /\ \E k \in 1..n : Lost(t[k])
               /\ Near(p) /\ p.stamp - t[n].stamp <= SampleGap
  <2>1. n + 1 \in 2..(n + 1) /\ n + 1 \in 2..Len(new) /\ (n + 1)..(n + 1) = {n + 1}
        /\ n + 1 - 1 = n
    BY <1>1, <1>6
  <2>2. (\E k \in 1..n : Lost(new[k])) <=> \E k \in 1..n : Lost(t[k])
    BY <1>1
  <2>3. Near(new[n + 1]) /\ Gap(new, n + 1) =< SampleGap
          <=> Near(p) /\ p.stamp - t[n].stamp <= SampleGap
    BY <1>1, <1>3, <1>6
  <2> DEFINE m == n + 1
  <2>4. m \in 2..m /\ m \in 2..Len(new) /\ m..m = {m} /\ m - 1 = n
    BY <1>1, <1>6, <2>1
  <2>5. Near(new[m]) /\ Gap(new, m) =< SampleGap
          <=> Near(p) /\ p.stamp - t[n].stamp <= SampleGap
    BY <2>3
  <2> HIDE DEF m
  <2>6. (\E loss \in 1..(m - 1) : Lost(new[loss])) <=> \E k \in 1..n : Lost(t[k])
    BY <2>2, <2>4
  <2>7. (\A k \in m..m : Near(new[k]) /\ Gap(new, k) =< SampleGap)
          <=> Near(new[m]) /\ Gap(new, m) =< SampleGap
    BY <2>4
  <2>8. Recovering(new, m, m)
          <=> /\ \E loss \in 1..(m - 1) : Lost(new[loss])
              /\ \A k \in m..m : Near(new[k]) /\ Gap(new, k) =< SampleGap
    BY <2>4 DEF Recovering
  <2>9. Recovering(new, m, m)
          <=> /\ \E k \in 1..n : Lost(t[k])
              /\ Near(p) /\ p.stamp - t[n].stamp <= SampleGap
    BY <2>5, <2>6, <2>7, <2>8
  <2> QED
    BY <2>9 DEF m
<1> QED
  BY <1>1, <1>4, <1>5, <1>6 DEF n

LEMMA GapsTypes == SampleGap \in Nat /\ MinWindow \in Nat
BY BoundsAssumption

\* What one turn of the loops makes of a pose.
LEMMA GradedOf ==
  ASSUME NEW g \in GraderType, NEW p \in TracePoses
  PROVE  LET h == Graded(g, p)
             on == g.lost \/ Lost(p)
             keeps == Near(p) /\ (g.prev = NoTime \/ p.stamp - g.prev <= SampleGap)
             closes == g.open # NoTime /\ g.prev - g.open >= MinWindow
         IN  /\ h \in GraderType /\ (h.lost <=> on)
             /\ h.matched = IF Matched(p) THEN p.stamp ELSE g.matched
             /\ h.near <=> IF Matched(p) THEN Near(p) ELSE g.near
             /\ ~on => h.open = g.open /\ h.found = g.found /\ h.prev = g.prev
             /\ on => h.prev = p.stamp
             /\ on /\ keeps =>
                  /\ h.found = g.found
                  /\ h.open = IF g.open = NoTime THEN p.stamp ELSE g.open
             /\ on /\ ~keeps =>
                  /\ h.open = NoTime
                  /\ h.found = IF closes THEN g.prev ELSE g.found
<1> DEFINE h == Graded(g, p)
           on == g.lost \/ Lost(p)
           keeps == Near(p) /\ (g.prev = NoTime \/ p.stamp - g.prev <= SampleGap)
           closes == g.open # NoTime /\ g.prev - g.open >= MinWindow
           seen == IF Matched(p) THEN [g EXCEPT !.matched = p.stamp, !.near = Near(p)] ELSE g
           s == [seen EXCEPT !.lost = TRUE]
<1>1. /\ g.lost \in BOOLEAN /\ g.near \in BOOLEAN
      /\ g.open \in Nat /\ g.found \in Nat /\ g.prev \in Nat /\ g.matched \in Nat
      /\ p.stamp \in Nat /\ Near(p) \in BOOLEAN /\ NoTime \in Nat
  BY DEF GraderType, TracePoses, Near, Matched, NoTime
<1>2. /\ seen \in GraderType /\ seen.lost = g.lost
      /\ seen.open = g.open /\ seen.found = g.found /\ seen.prev = g.prev
      /\ seen.matched = IF Matched(p) THEN p.stamp ELSE g.matched
      /\ seen.near = IF Matched(p) THEN Near(p) ELSE g.near
  <2>1. CASE Matched(p)
    BY <1>1, <2>1 DEF GraderType
  <2>2. CASE ~Matched(p)
    BY <1>1, <2>2 DEF GraderType
  <2> QED
    BY <2>1, <2>2
<1> HIDE DEF seen
<1>3. /\ s \in GraderType /\ s.lost = TRUE
      /\ s.open = g.open /\ s.found = g.found /\ s.prev = g.prev
      /\ s.matched = seen.matched /\ s.near = seen.near
  BY <1>2 DEF GraderType
<1>4. h = IF on THEN WindowStep(s, p) ELSE seen
  BY DEF Graded, seen
<1> HIDE DEF s, h
<1>5. InTime(s, p) <=> (g.prev = NoTime \/ p.stamp - g.prev <= SampleGap)
  BY <1>3 DEF InTime
<1>6. ASSUME on, keeps
      PROVE  /\ h \in GraderType /\ h.lost = TRUE
             /\ h.matched = seen.matched /\ h.near = seen.near /\ h.prev = p.stamp
             /\ h.found = g.found
             /\ h.open = IF g.open = NoTime THEN p.stamp ELSE g.open
  <2> DEFINE o == IF s.open = NoTime THEN p.stamp ELSE s.open
  <2>1. h = [[s EXCEPT !.open = o] EXCEPT !.prev = p.stamp]
    BY <1>4, <1>5, <1>6 DEF WindowStep
  <2>2. o \in Nat /\ o = IF g.open = NoTime THEN p.stamp ELSE g.open
    BY <1>1, <1>3
  <2> HIDE DEF o
  <2> QED
    BY <1>1, <1>3, <2>1, <2>2 DEF GraderType
<1>7. ASSUME on, ~keeps
      PROVE  /\ h \in GraderType /\ h.lost = TRUE
             /\ h.matched = seen.matched /\ h.near = seen.near /\ h.prev = p.stamp
             /\ h.open = NoTime
             /\ h.found = IF closes THEN g.prev ELSE g.found
  <2> DEFINE f == IF s.open # NoTime /\ s.prev - s.open >= MinWindow THEN s.prev ELSE s.found
  <2>1. h = [[s EXCEPT !.open = NoTime, !.found = f] EXCEPT !.prev = p.stamp]
    BY <1>4, <1>5, <1>7 DEF WindowStep, Closed
  <2>2. f \in Nat /\ f = IF closes THEN g.prev ELSE g.found
    BY <1>1, <1>3
  <2> HIDE DEF f
  <2> QED
    BY <1>1, <1>3, <2>1, <2>2 DEF GraderType
<1>8. ~on => h = seen
  BY <1>4
<1>9. h \in GraderType
  BY <1>2, <1>6, <1>7, <1>8
<1>10. h.lost <=> on
  BY <1>1, <1>2, <1>6, <1>7, <1>8
<1>11. h.matched = seen.matched /\ h.near = seen.near
  BY <1>6, <1>7, <1>8
<1>12. h.near <=> IF Matched(p) THEN Near(p) ELSE g.near
  BY <1>2, <1>11
<1> QED
  BY <1>2, <1>6, <1>7, <1>8, <1>9, <1>10, <1>11, <1>12 DEF h

LEMMA GraderStarts == GraderInv(<<>>, GraderStart)
<1>1. GraderStart \in GraderType
  BY DEF GraderStart, GraderType, NoTime
<1>2. Len(<<>>) = 0 /\ <<>> \in Seq(TracePoses)
  OBVIOUS
<1>3. \A i \in 1..Len(<<>>) : FALSE
  BY <1>2
<1>4. \A i \in 2..Len(<<>>) : FALSE
  BY <1>2
<1>5. InOrder(<<>>) /\ OpenInv(<<>>, GraderStart) /\ FoundInv(<<>>, GraderStart)
      /\ MatchedInv(<<>>, GraderStart)
  BY <1>2, <1>3, <1>4 DEF InOrder, OpenInv, FoundInv, MatchedInv, GraderStart
<1> QED
  BY <1>1, <1>3, <1>5 DEF GraderInv, GraderStart

LEMMA MatchedStep ==
  ASSUME NEW t, NEW new, NEW p, OneMore(t, new, p), NEW g \in GraderType, MatchedInv(t, g)
  PROVE  MatchedInv(new, Graded(g, p))
<1> DEFINE h == Graded(g, p)
           n == Len(t)
<1>1. /\ n \in Nat /\ Len(new) = n + 1 /\ (\A k \in 1..n : new[k] = t[k]) /\ new[n + 1] = p
      /\ p \in TracePoses
  BY DEF OneMore
<1>2. /\ h.matched = IF Matched(p) THEN p.stamp ELSE g.matched
      /\ h.near <=> IF Matched(p) THEN Near(p) ELSE g.near
  BY <1>1, GradedOf
<1> HIDE DEF h
<1>3. CASE Matched(p)
  <2>1. n + 1 \in 1..Len(new) /\ \A k \in (n + 1) + 1..Len(new) : FALSE
    BY <1>1
  <2>2. LastMatched(new, n + 1)
    BY <1>1, <1>3, <2>1 DEF LastMatched
  <2> QED
    BY <1>1, <1>2, <1>3, <2>1, <2>2 DEF MatchedInv, h
<1>4. CASE ~Matched(p)
  <2> SUFFICES ASSUME NEW k \in 1..Len(new), Matched(new[k])
               PROVE  \E last \in 1..Len(new) : /\ LastMatched(new, last)
                                                /\ h.matched = new[last].stamp
                                                /\ h.near <=> Near(new[last])
    BY DEF MatchedInv, h
  <2>1. k \in 1..n /\ Matched(t[k])
    BY <1>1, <1>4
  <2>2. PICK last \in 1..n : /\ LastMatched(t, last) /\ g.matched = t[last].stamp
                             /\ g.near <=> Near(t[last])
    BY <2>1 DEF MatchedInv, n
  <2>3. last \in 1..Len(new) /\ new[last] = t[last]
    BY <1>1
  <2>4. \A q \in last + 1..Len(new) : ~Matched(new[q])
    <3> SUFFICES ASSUME NEW q \in last + 1..Len(new) PROVE ~Matched(new[q])
      OBVIOUS
    <3>1. CASE q = n + 1
      BY <1>1, <1>4, <3>1
    <3>2. CASE q # n + 1
      <4>1. q \in last + 1..n /\ q \in 1..n
        BY <1>1, <3>2
      <4> QED
        BY <1>1, <2>2, <4>1 DEF LastMatched, n
    <3> QED
      BY <3>1, <3>2
  <2>5. LastMatched(new, last)
    BY <2>2, <2>3, <2>4 DEF LastMatched
  <2> QED
    BY <1>2, <1>4, <2>2, <2>3, <2>5
<1> QED
  BY <1>3, <1>4

LEMMA StampsOf ==
  ASSUME NEW t, InOrder(t)
  PROVE  /\ Len(t) \in Nat
         /\ \A k \in 1..Len(t) : t[k].stamp \in Nat /\ t[k].stamp # NoTime
         /\ \A i \in 1..Len(t) : \A j \in i..Len(t) : t[i].stamp <= t[j].stamp
<1>1. Len(t) \in Nat /\ \A k \in 1..Len(t) : t[k] \in TracePoses
  BY LenProperties, ElementOfSeq DEF InOrder
<1>2. \A k \in 1..Len(t) : t[k].stamp \in Nat /\ t[k].stamp # NoTime
  BY <1>1 DEF TracePoses, NoTime
<1>3. ASSUME NEW i \in 1..Len(t), NEW j \in i..Len(t)
      PROVE  t[i].stamp <= t[j].stamp
  <2>1. j \in 1..Len(t) /\ (i = j \/ i < j)
    BY <1>1
  <2> QED
    BY <1>2, <2>1 DEF InOrder
<1> QED
  BY <1>1, <1>2, <1>3

\* A trace without a loss holds no recovered stretch.
LEMMA NoLossNoStretch ==
  ASSUME NEW t, Len(t) \in Nat, \A k \in 1..Len(t) : ~Lost(t[k])
  PROVE  \A j \in 2..Len(t) : \A i \in 2..j : ~Recovering(t, i, j)
<1> SUFFICES ASSUME NEW j \in 2..Len(t), NEW i \in 2..j, Recovering(t, i, j)
             PROVE  FALSE
  OBVIOUS
<1>1. PICK loss \in 1..(i - 1) : Lost(t[loss])
  BY DEF Recovering
<1>2. loss \in 1..Len(t)
  OBVIOUS
<1> QED
  BY <1>1, <1>2

\* The windows, while the trace has no loss.
LEMMA BeforeLossStep ==
  ASSUME NEW t, NEW new, NEW p, OneMore(t, new, p), NEW g, GraderInv(t, g),
         ~g.lost
  PROVE  /\ Graded(g, p).lost <=> \E k \in 1..Len(new) : Lost(new[k])
         /\ OpenInv(new, Graded(g, p)) /\ FoundInv(new, Graded(g, p))
         /\ Graded(g, p).open = NoTime /\ Graded(g, p).found = NoTime
         /\ ~Lost(p) => Graded(g, p).prev = NoTime
<1> DEFINE h == Graded(g, p)
           n == Len(t)
<1>1. /\ n \in Nat /\ Len(new) = n + 1 /\ (\A k \in 1..n : new[k] = t[k]) /\ new[n + 1] = p
      /\ p \in TracePoses /\ g \in GraderType
      /\ \A k \in 1..n : ~Lost(t[k])
      /\ g.open = NoTime /\ g.found = NoTime /\ g.prev = NoTime
  BY DEF OneMore, GraderInv
<1>2. Lost(p) => ~Near(p)
  BY DEF Lost, Near
<1>3. /\ h.lost <=> Lost(p)
      /\ h.open = NoTime /\ h.found = NoTime
      /\ ~Lost(p) => h.prev = NoTime
  BY <1>1, <1>2, GradedOf
<1> HIDE DEF h
<1>4. (\E k \in 1..Len(new) : Lost(new[k])) <=> Lost(p)
  <2>1. n + 1 \in 1..Len(new) /\ \A k \in 1..Len(new) : k = n + 1 \/ k \in 1..n
    BY <1>1
  <2> QED
    BY <1>1, <2>1
<1>5. \A j \in 2..Len(new) : \A i \in 2..j : ~Recovering(new, i, j)
  <2> SUFFICES ASSUME NEW j \in 2..Len(new), NEW i \in 2..j, Recovering(new, i, j)
               PROVE  FALSE
    OBVIOUS
  <2>1. CASE Lost(p) /\ j = n + 1
    <3>1. j \in i..j /\ new[j] = p
      BY <1>1, <2>1
    <3> QED
      BY <1>2, <2>1, <3>1 DEF Recovering
  <2>2. CASE j # n + 1
    <3>1. j \in 2..n
      BY <1>1, <2>2
    <3> QED
      BY <1>1, <3>1, RecoveringOf, NoLossNoStretch
  <2>3. CASE ~Lost(p)
    BY <1>1, <1>4, <2>3, NoLossNoStretch
  <2> QED
    BY <2>1, <2>2, <2>3
<1>6. \A i \in 2..Len(new) : ~Recovering(new, i, Len(new))
  <2> SUFFICES ASSUME NEW i \in 2..Len(new) PROVE ~Recovering(new, i, Len(new))
    OBVIOUS
  <2>1. Len(new) \in 2..Len(new)
    BY <1>1
  <2> QED
    BY <1>5, <2>1
<1> QED
  BY <1>3, <1>4, <1>5, <1>6 DEF OpenInv, FoundInv, h

\* The windows, while a recovered stretch goes on or begins.
LEMMA KeptWindowStep ==
  ASSUME NEW t, NEW new, NEW p, OneMore(t, new, p), NEW g, GraderInv(t, g), g.lost,
         Near(p), p.stamp - t[Len(t)].stamp <= SampleGap,
         NEW h, h.found = g.found,
         h.open = IF g.open = NoTime THEN p.stamp ELSE g.open
  PROVE  OpenInv(new, h) /\ FoundInv(new, h)
<1> DEFINE n == Len(t)
<1>1. /\ n \in Nat /\ n >= 1 /\ Len(new) = n + 1 /\ (\A k \in 1..n : new[k] = t[k])
      /\ new[n + 1] = p /\ InOrder(t) /\ InOrder(new)
      /\ OpenInv(t, g) /\ FoundInv(t, g) /\ \E k \in 1..n : Lost(t[k])
  BY DEF OneMore, GraderInv
<1>2. /\ \A j \in 2..n : \A i \in 2..j : /\ Recovering(new, i, j) <=> Recovering(t, i, j)
                                         /\ Long(new, i, j) <=> Long(t, i, j)
      /\ \A i \in 2..n : Recovering(new, i, n + 1) <=> Recovering(t, i, n)
      /\ Recovering(new, n + 1, n + 1)
  BY <1>1, RecoveringOf
<1>3. \A i \in 2..(n + 1) : i = n + 1 \/ i \in 2..n
  BY <1>1
<1>4. /\ \A k \in 1..(n + 1) : new[k].stamp \in Nat /\ new[k].stamp # NoTime
      /\ \A i \in 1..(n + 1) : \A j \in i..(n + 1) : new[i].stamp <= new[j].stamp
  BY <1>1, StampsOf
<1> HIDE DEF n
<1>5. n + 1 \in 2..(n + 1) /\ n + 1 \in 1..(n + 1) /\ p.stamp \in Nat /\ p.stamp # NoTime
  BY <1>1, <1>4
<1>6. OpenInv(new, h)
  <2>1. CASE g.open = NoTime
    <3>1. h.open = p.stamp /\ h.open # NoTime
      BY <1>5, <2>1
    <3>2. \A i \in 2..n : ~Recovering(t, i, n)
      BY <1>1, <2>1 DEF OpenInv, n
    <3>3. \A i \in 2..(n + 1) : Recovering(new, i, n + 1) => i = n + 1
      BY <1>2, <1>3, <3>2
    <3>4. \A i \in 2..(n + 1) : Recovering(new, i, n + 1) => h.open <= new[i].stamp
      BY <1>1, <1>5, <3>1, <3>3
    <3> QED
      BY <1>1, <1>2, <1>5, <3>1, <3>4 DEF OpenInv
  <2>2. CASE g.open # NoTime
    <3>1. PICK q \in 2..n : Recovering(t, q, n) /\ t[q].stamp = g.open
      BY <1>1, <2>2 DEF OpenInv, n
    <3>2. q \in 2..(n + 1) /\ q \in 1..n /\ q \in 1..(n + 1) /\ n + 1 \in q..(n + 1)
      BY <1>1
    <3>3. /\ h.open = g.open /\ new[q].stamp = h.open /\ Recovering(new, q, n + 1)
          /\ h.open <= new[n + 1].stamp
      BY <1>1, <1>2, <1>4, <2>2, <3>1, <3>2
    <3>4. ASSUME NEW i \in 2..(n + 1), Recovering(new, i, n + 1)
          PROVE  h.open <= new[i].stamp
      <4>1. CASE i = n + 1
        BY <3>3, <4>1
      <4>2. CASE i # n + 1
        <5>1. i \in 2..n /\ i \in 1..n
          BY <1>1, <4>2
        <5>2. Recovering(t, i, n)
          BY <1>2, <3>4, <5>1
        <5> QED
          BY <1>1, <3>3, <5>1, <5>2 DEF OpenInv, n
      <4> QED
        BY <4>1, <4>2
    <3> QED
      BY <1>1, <2>2, <3>2, <3>3, <3>4 DEF OpenInv
  <2> QED
    BY <2>1, <2>2
<1>7. h.found # NoTime =>
        \E j \in 2..(n + 1) : \E i \in 2..j :
          Recovering(new, i, j) /\ Long(new, i, j) /\ new[j].stamp = h.found
  <2> SUFFICES ASSUME h.found # NoTime
               PROVE  \E j \in 2..(n + 1) : \E i \in 2..j :
                        Recovering(new, i, j) /\ Long(new, i, j) /\ new[j].stamp = h.found
    OBVIOUS
  <2>1. PICK j \in 2..n : \E i \in 2..j :
          Recovering(t, i, j) /\ Long(t, i, j) /\ t[j].stamp = g.found
    BY <1>1 DEF FoundInv, n
  <2>2. PICK i \in 2..j : Recovering(t, i, j) /\ Long(t, i, j) /\ t[j].stamp = g.found
    BY <2>1
  <2>3. j \in 2..(n + 1) /\ j \in 1..n
    BY <1>1
  <2> QED
    BY <1>1, <1>2, <2>2, <2>3
<1>8. ASSUME NEW j \in 2..(n + 1), NEW i \in 2..j, Recovering(new, i, j), Long(new, i, j)
      PROVE  Recovering(new, i, n + 1) \/ (h.found # NoTime /\ new[j].stamp <= h.found)
  <2>1. CASE j = n + 1
    BY <1>8, <2>1
  <2>2. CASE j # n + 1
    <3>1. j \in 2..n /\ i \in 2..n /\ j \in 1..n
      BY <1>1, <2>2
    <3>2. Recovering(t, i, j) /\ Long(t, i, j)
      BY <1>2, <1>8, <3>1
    <3>3. Recovering(t, i, n) \/ (g.found # NoTime /\ t[j].stamp <= g.found)
      BY <1>1, <3>1, <3>2 DEF FoundInv, n
    <3> QED
      BY <1>1, <1>2, <3>1, <3>3
  <2> QED
    BY <2>1, <2>2
<1> QED
  BY <1>1, <1>6, <1>7, <1>8 DEF FoundInv

\* The windows, when a pose ends the stretch.
LEMMA ClosedWindowStep ==
  ASSUME NEW t, NEW new, NEW p, OneMore(t, new, p), NEW g, GraderInv(t, g), g.lost,
         ~(Near(p) /\ p.stamp - t[Len(t)].stamp <= SampleGap),
         NEW h, h.open = NoTime,
         h.found = IF g.open # NoTime /\ g.prev - g.open >= MinWindow
                   THEN g.prev ELSE g.found
  PROVE  OpenInv(new, h) /\ FoundInv(new, h)
<1> DEFINE n == Len(t)
<1>1. /\ n \in Nat /\ n >= 1 /\ Len(new) = n + 1 /\ (\A k \in 1..n : new[k] = t[k])
      /\ new[n + 1] = p /\ InOrder(t) /\ InOrder(new) /\ g \in GraderType
      /\ OpenInv(t, g) /\ FoundInv(t, g) /\ g.prev = t[n].stamp
  BY DEF OneMore, GraderInv
<1>2. /\ \A j \in 2..n : \A i \in 2..j : /\ Recovering(new, i, j) <=> Recovering(t, i, j)
                                         /\ Long(new, i, j) <=> Long(t, i, j)
      /\ \A i \in 2..n : ~Recovering(new, i, n + 1)
      /\ ~Recovering(new, n + 1, n + 1)
  BY <1>1, RecoveringOf
<1>3. \A i \in 2..(n + 1) : ~Recovering(new, i, n + 1)
  <2>1. \A i \in 2..(n + 1) : i = n + 1 \/ i \in 2..n
    BY <1>1
  <2> QED
    BY <1>2, <2>1
<1>4. /\ \A k \in 1..n : t[k].stamp \in Nat /\ t[k].stamp # NoTime
      /\ \A i \in 1..n : \A j \in i..n : t[i].stamp <= t[j].stamp
  BY <1>1, StampsOf
<1> HIDE DEF n
<1>5. OpenInv(new, h)
  BY <1>1, <1>3 DEF OpenInv
<1>6. ASSUME h.found # NoTime
      PROVE  \E j \in 2..(n + 1) : \E i \in 2..j :
               Recovering(new, i, j) /\ Long(new, i, j) /\ new[j].stamp = h.found
  <2>1. \E j \in 2..n : \E i \in 2..j :
          Recovering(t, i, j) /\ Long(t, i, j) /\ t[j].stamp = h.found
    <3>1. CASE g.open # NoTime /\ g.prev - g.open >= MinWindow
      <4>1. PICK i \in 2..n : Recovering(t, i, n) /\ t[i].stamp = g.open
        BY <1>1, <3>1 DEF OpenInv, n
      <4>2. n \in 2..n
        BY <1>1
      <4>3. Long(t, i, n) /\ t[n].stamp = h.found
        BY <1>1, <3>1, <4>1 DEF Long
      <4> QED
        BY <4>1, <4>2, <4>3
    <3>2. CASE ~(g.open # NoTime /\ g.prev - g.open >= MinWindow)
      BY <1>1, <1>6, <3>2 DEF FoundInv, n
    <3> QED
      BY <3>1, <3>2
  <2>2. PICK j \in 2..n : \E i \in 2..j :
          Recovering(t, i, j) /\ Long(t, i, j) /\ t[j].stamp = h.found
    BY <2>1
  <2>3. PICK i \in 2..j : Recovering(t, i, j) /\ Long(t, i, j) /\ t[j].stamp = h.found
    BY <2>2
  <2>4. j \in 2..(n + 1) /\ j \in 1..n
    BY <1>1
  <2> QED
    BY <1>1, <1>2, <2>3, <2>4
<1>7. ASSUME NEW j \in 2..(n + 1), NEW i \in 2..j, Recovering(new, i, j), Long(new, i, j)
      PROVE  h.found # NoTime /\ new[j].stamp <= h.found
  <2>1. j \in 2..n /\ i \in 2..n /\ i \in 1..n /\ j \in 1..n /\ n \in j..n /\ n \in 1..n
    <3>1. j # n + 1
      BY <1>3, <1>7
    <3> QED
      BY <1>1, <3>1
  <2>2. Recovering(t, i, j) /\ Long(t, i, j) /\ new[j] = t[j]
    BY <1>1, <1>2, <1>7, <2>1
  <2>3. /\ t[j].stamp \in Nat /\ t[i].stamp \in Nat /\ t[n].stamp \in Nat
        /\ t[n].stamp # NoTime /\ t[j].stamp <= t[n].stamp
        /\ g.open \in Nat /\ MinWindow \in Nat
    BY <1>1, <1>4, <2>1, GapsTypes DEF GraderType
  <2>4. CASE Recovering(t, i, n)
    <3>1. g.open # NoTime /\ g.open <= t[i].stamp
      BY <1>1, <2>1, <2>4 DEF OpenInv, n
    <3>2. g.prev - g.open >= MinWindow
      BY <1>1, <2>2, <2>3, <3>1 DEF Long
    <3>3. h.found = t[n].stamp
      BY <1>1, <3>1, <3>2
    <3> QED
      BY <2>2, <2>3, <3>3
  <2>5. CASE ~Recovering(t, i, n)
    <3>1. g.found # NoTime /\ t[j].stamp <= g.found
      BY <1>1, <2>1, <2>2, <2>5 DEF FoundInv, n
    <3>2. CASE g.open # NoTime /\ g.prev - g.open >= MinWindow
      BY <1>1, <2>2, <2>3, <3>2
    <3>3. CASE ~(g.open # NoTime /\ g.prev - g.open >= MinWindow)
      BY <2>2, <3>1, <3>3
    <3> QED
      BY <3>2, <3>3
  <2> QED
    BY <2>4, <2>5
<1> QED
  BY <1>1, <1>5, <1>6, <1>7 DEF FoundInv

LEMMA GraderStep ==
  ASSUME NEW t, NEW new, NEW p, OneMore(t, new, p), NEW g, GraderInv(t, g)
  PROVE  GraderInv(new, Graded(g, p))
<1> DEFINE h == Graded(g, p)
           n == Len(t)
           keeps == Near(p) /\ p.stamp - t[n].stamp <= SampleGap
<1>1. /\ n \in Nat /\ Len(new) = n + 1 /\ (\A k \in 1..n : new[k] = t[k]) /\ new[n + 1] = p
      /\ p \in TracePoses /\ InOrder(new) /\ InOrder(t) /\ g \in GraderType
      /\ MatchedInv(t, g)
  BY DEF OneMore, GraderInv
<1>2. h \in GraderType /\ (h.lost <=> g.lost \/ Lost(p))
  BY <1>1, GradedOf
<1>3. MatchedInv(new, h)
  BY <1>1, MatchedStep
<1>4. g.lost \/ Lost(p) => h.prev = p.stamp
  BY <1>1, GradedOf
<1>5. CASE ~g.lost
  <2>1. /\ h.lost <=> \E k \in 1..Len(new) : Lost(new[k])
        /\ OpenInv(new, h) /\ FoundInv(new, h)
        /\ h.open = NoTime /\ h.found = NoTime
        /\ ~Lost(p) => h.prev = NoTime
    BY <1>5, BeforeLossStep
  <2> HIDE DEF h
  <2>2. h.lost => h.prev = new[Len(new)].stamp
    BY <1>1, <1>2, <1>4, <1>5
  <2>3. ~h.lost => h.open = NoTime /\ h.found = NoTime /\ h.prev = NoTime
    BY <1>2, <2>1
  <2>4. GraderInv(new, h)
    BY <1>1, <1>2, <1>3, <2>1, <2>2, <2>3 DEF GraderInv
  <2> QED
    BY <2>4 DEF h
<1>6. CASE g.lost
  <2>1. n >= 1 /\ g.prev = t[n].stamp /\ \E k \in 1..n : Lost(t[k])
    BY <1>1, <1>6 DEF GraderInv
  <2>2. n \in 1..n /\ t[n].stamp # NoTime
    BY <1>1, <2>1, StampsOf
  <2>3. \E k \in 1..Len(new) : Lost(new[k])
    <3>1. \A k \in 1..n : k \in 1..Len(new)
      BY <1>1
    <3> QED
      BY <1>1, <2>1, <3>1
  <2>4. keeps <=> Near(p) /\ (g.prev = NoTime \/ p.stamp - g.prev <= SampleGap)
    BY <2>1, <2>2
  <2>5. OpenInv(new, h) /\ FoundInv(new, h)
    <3>1. CASE keeps
      <4>1. /\ h.found = g.found
            /\ h.open = IF g.open = NoTime THEN p.stamp ELSE g.open
        BY <1>1, <1>6, <2>4, <3>1, GradedOf
      <4> HIDE DEF h
      <4> QED
        BY <1>6, <3>1, <4>1, KeptWindowStep
    <3>2. CASE ~keeps
      <4>1. /\ h.open = NoTime
            /\ h.found = IF g.open # NoTime /\ g.prev - g.open >= MinWindow
                         THEN g.prev ELSE g.found
        BY <1>1, <1>6, <2>4, <3>2, GradedOf
      <4> HIDE DEF h
      <4> QED
        BY <1>6, <3>2, <4>1, ClosedWindowStep
    <3> QED
      BY <3>1, <3>2
  <2> HIDE DEF h
  <2>6. h.lost /\ h.prev = new[Len(new)].stamp
    BY <1>1, <1>2, <1>4, <1>6
  <2>7. GraderInv(new, h)
    BY <1>1, <1>2, <1>3, <2>3, <2>5, <2>6 DEF GraderInv
  <2> QED
    BY <2>7 DEF h
<1> QED
  BY <1>5, <1>6

\* Closing the window that is open at the end finds the last stretch there is.
LEMMA LastWindow ==
  ASSUME NEW t, NEW g, GraderInv(t, g), g.lost
  PROVE  LET found == Closed(g).found
         IN  /\ found # NoTime =>
                  \E j \in 2..Len(t) : \E i \in 2..j :
                    Recovering(t, i, j) /\ Long(t, i, j) /\ t[j].stamp = found
             /\ \A j \in 2..Len(t) : \A i \in 2..j :
                  Recovering(t, i, j) /\ Long(t, i, j) => found # NoTime /\ t[j].stamp <= found
             /\ found \in Nat
<1> DEFINE n == Len(t)
           found == IF g.open # NoTime /\ g.prev - g.open >= MinWindow
                    THEN g.prev ELSE g.found
<1>1. /\ n \in Nat /\ n >= 1 /\ InOrder(t) /\ g \in GraderType
      /\ OpenInv(t, g) /\ FoundInv(t, g) /\ g.prev = t[n].stamp
  BY DEF GraderInv
<1>2. Closed(g).found = found
  BY <1>1 DEF Closed, GraderType
<1>3. /\ \A k \in 1..n : t[k].stamp \in Nat /\ t[k].stamp # NoTime
      /\ \A i \in 1..n : \A j \in i..n : t[i].stamp <= t[j].stamp
  BY <1>1, StampsOf
<1>4. g.open \in Nat /\ g.prev \in Nat /\ g.found \in Nat /\ MinWindow \in Nat
  BY <1>1, GapsTypes DEF GraderType
<1> HIDE DEF n
<1>5. ASSUME found # NoTime
      PROVE  \E j \in 2..n : \E i \in 2..j :
               Recovering(t, i, j) /\ Long(t, i, j) /\ t[j].stamp = found
  <2>1. CASE g.open # NoTime /\ g.prev - g.open >= MinWindow
    <3>1. PICK i \in 2..n : Recovering(t, i, n) /\ t[i].stamp = g.open
      BY <1>1, <2>1 DEF OpenInv, n
    <3>2. n \in 2..n
      BY <1>1
    <3>3. Long(t, i, n) /\ t[n].stamp = found
      BY <1>1, <2>1, <3>1 DEF Long
    <3> QED
      BY <3>1, <3>2, <3>3
  <2>2. CASE ~(g.open # NoTime /\ g.prev - g.open >= MinWindow)
    BY <1>1, <1>5, <2>2 DEF FoundInv, n
  <2> QED
    BY <2>1, <2>2
<1>6. ASSUME NEW j \in 2..n, NEW i \in 2..j, Recovering(t, i, j), Long(t, i, j)
      PROVE  found # NoTime /\ t[j].stamp <= found
  <2>1. i \in 2..n /\ i \in 1..n /\ j \in 1..n /\ n \in j..n /\ n \in 1..n
    BY <1>1
  <2>2. /\ t[j].stamp \in Nat /\ t[i].stamp \in Nat /\ t[n].stamp \in Nat
        /\ t[n].stamp # NoTime /\ t[j].stamp <= t[n].stamp
    BY <1>3, <2>1
  <2>3. CASE Recovering(t, i, n)
    <3>1. g.open # NoTime /\ g.open <= t[i].stamp
      BY <1>1, <2>1, <2>3 DEF OpenInv, n
    <3>2. g.prev - g.open >= MinWindow
      BY <1>1, <1>4, <1>6, <2>2, <3>1 DEF Long
    <3> QED
      BY <1>1, <2>2, <3>1, <3>2
  <2>4. CASE ~Recovering(t, i, n)
    <3>1. g.found # NoTime /\ t[j].stamp <= g.found
      BY <1>1, <1>6, <2>1, <2>4 DEF FoundInv, n
    <3> QED
      BY <1>1, <2>2, <3>1
  <2> QED
    BY <2>3, <2>4
<1> HIDE DEF found
<1>7. found \in Nat
  BY <1>4 DEF found
<1> QED
  BY <1>2, <1>5, <1>6, <1>7 DEF n

LEMMA VerdictOfTrace ==
  ASSUME NEW t, NEW g, GraderInv(t, g)
  PROVE  /\ Verdict(g) = "recovered_true" <=> Recovered(t)
         /\ Verdict(g) = "never_lost" <=> \A i \in DOMAIN t : ~Lost(t[i])
<1> DEFINE n == Len(t)
           c == Closed(g)
<1>1. /\ n \in Nat /\ DOMAIN t = 1..n /\ InOrder(t) /\ g \in GraderType /\ MatchedInv(t, g)
      /\ g.lost <=> \E k \in 1..n : Lost(t[k])
      /\ g.lost \in BOOLEAN
  BY LenProperties DEF GraderInv, InOrder, GraderType
<1>2. Verdict(g) = "never_lost" <=> ~g.lost
  BY DEF Verdict
<1>3. CASE ~g.lost
  <2>1. ~Recovered(t)
    BY <1>1, <1>3 DEF Recovered
  <2> QED
    BY <1>1, <1>2, <1>3, <2>1
<1>4. CASE g.lost
  <2>1. /\ c.found # NoTime =>
             \E j \in 2..n : \E i \in 2..j :
               Recovering(t, i, j) /\ Long(t, i, j) /\ t[j].stamp = c.found
        /\ \A j \in 2..n : \A i \in 2..j :
             Recovering(t, i, j) /\ Long(t, i, j) => c.found # NoTime /\ t[j].stamp <= c.found
        /\ c.found \in Nat
    BY <1>4, LastWindow
  <2>2. c.matched = g.matched /\ (c.near <=> g.near) /\ SampleGap \in Nat
    BY <1>1, GapsTypes DEF Closed, GraderType
  <2>3. Verdict(g) = "recovered_true"
          <=> c.found # NoTime /\ (c.near \/ c.matched <= c.found + SampleGap)
    BY <1>4 DEF Verdict, EndsRecovered
  <2>4. \A k \in 1..n : t[k].stamp \in Nat
    BY <1>1, StampsOf
  <2>5. PICK last \in 1..n : /\ LastMatched(t, last) /\ g.matched = t[last].stamp
                             /\ g.near <=> Near(t[last])
    <3>1. \E k \in 1..n : Matched(t[k])
      BY <1>1, <1>4 DEF Lost
    <3> QED
      BY <1>1, <3>1 DEF MatchedInv
  <2> HIDE DEF c, n
  <2>6. ASSUME c.found # NoTime, c.near \/ c.matched <= c.found + SampleGap
        PROVE  Recovered(t)
    <3>1. PICK j \in 2..n : \E i \in 2..j :
            Recovering(t, i, j) /\ Long(t, i, j) /\ t[j].stamp = c.found
      BY <2>1, <2>6
    <3>2. PICK i \in 2..j : Recovering(t, i, j) /\ Long(t, i, j) /\ t[j].stamp = c.found
      BY <3>1
    <3>3. PICK loss \in 1..(i - 1) : Lost(t[loss])
      BY <3>2 DEF Recovering
    <3>4. loss \in 1..n /\ i \in (loss + 1)..n /\ j \in i..n
      BY <1>1
    <3>5. Stretch(t, i, j)
      BY <3>2 DEF Recovering, Long, Stretch
    <3>6. Near(t[last]) \/ t[last].stamp <= t[j].stamp + SampleGap
      BY <2>2, <2>5, <2>6, <3>2
    <3>7. Matched(t[last]) /\ \A k \in last + 1..n : ~Matched(t[k])
      BY <2>5 DEF LastMatched, n
    <3> QED
      BY <1>1, <3>3, <3>4, <3>5, <3>6, <3>7 DEF Recovered, n
  <2>7. ASSUME Recovered(t)
        PROVE  c.found # NoTime /\ (c.near \/ c.matched <= c.found + SampleGap)
    <3>1. PICK loss \in 1..n : \E i \in (loss + 1)..n : \E j \in i..n :
            /\ Lost(t[loss]) /\ Stretch(t, i, j)
            /\ \E e \in 1..n :
                 /\ Matched(t[e]) /\ \A k \in e + 1..n : ~Matched(t[k])
                 /\ Near(t[e]) \/ t[e].stamp =< t[j].stamp + SampleGap
      BY <1>1, <2>7 DEF Recovered, n
    <3>2. PICK i \in (loss + 1)..n : \E j \in i..n :
            /\ Lost(t[loss]) /\ Stretch(t, i, j)
            /\ \E e \in 1..n :
                 /\ Matched(t[e]) /\ \A k \in e + 1..n : ~Matched(t[k])
                 /\ Near(t[e]) \/ t[e].stamp =< t[j].stamp + SampleGap
      BY <3>1
    <3>3. PICK j \in i..n :
            /\ Lost(t[loss]) /\ Stretch(t, i, j)
            /\ \E e \in 1..n :
                 /\ Matched(t[e]) /\ \A k \in e + 1..n : ~Matched(t[k])
                 /\ Near(t[e]) \/ t[e].stamp =< t[j].stamp + SampleGap
      BY <3>2
    <3>4. PICK e \in 1..n :
            /\ Matched(t[e]) /\ \A k \in e + 1..n : ~Matched(t[k])
            /\ Near(t[e]) \/ t[e].stamp =< t[j].stamp + SampleGap
      BY <3>3
    <3>5. i \in 2..j /\ j \in 2..n /\ loss \in 1..(i - 1) /\ j \in 1..n
      BY <1>1
    <3>6. Recovering(t, i, j) /\ Long(t, i, j)
      BY <3>3, <3>5 DEF Recovering, Stretch, Long, n
    <3>7. c.found # NoTime /\ t[j].stamp <= c.found
      BY <2>1, <3>5, <3>6
    <3>8. e = last
      <4>1. Matched(t[last]) /\ \A k \in last + 1..n : ~Matched(t[k])
        BY <2>5 DEF LastMatched, n
      <4>2. ~(e < last)
        <5>1. e < last => last \in e + 1..n
          BY <1>1
        <5> QED
          BY <3>4, <4>1, <5>1
      <4>3. ~(last < e)
        <5>1. last < e => e \in last + 1..n
          BY <1>1
        <5> QED
          BY <3>4, <4>1, <5>1
      <4> QED
        BY <4>2, <4>3
    <3>9. t[last].stamp \in Nat /\ t[j].stamp \in Nat
      BY <2>4, <3>5
    <3> QED
      BY <2>1, <2>2, <2>5, <3>4, <3>7, <3>8, <3>9
  <2>8. Verdict(g) = "recovered_true" <=> Recovered(t)
    BY <2>3, <2>6, <2>7
  <2>9. Verdict(g) = "never_lost" <=> \A i \in DOMAIN t : ~Lost(t[i])
    BY <1>1, <1>2, <1>4 DEF n
  <2> QED
    BY <2>8, <2>9
<1> QED
  BY <1>1, <1>3, <1>4

\* A step leaves the recording alone, drops it, or adds a pose to it.
LEMMA TraceMoves ==
  ASSUME Next
  PROVE  \/ UNCHANGED <<trace, grader>>
         \/ trace' = <<>> /\ grader' = GraderStart
         \/ \E p \in Samples : Record(p)
<1>1. CASE OperatorRuns
  BY <1>1 DEF OperatorRuns, Launch
<1>2. CASE Harness
  <2>1. ASSUME NEW code \in {0, 1}, ContainerEnds(code)
        PROVE  UNCHANGED <<trace, grader>> \/ (trace' = <<>> /\ grader' = GraderStart)
    BY <2>1 DEF ContainerEnds, Finish, Proceed
  <2>2. CASE Complete
    BY <2>2 DEF Complete, AfterCompletion, Finish, Proceed
  <2>3. CASE Grade
    BY <2>3 DEF Grade, Finish
  <2>4. CASE Interrupt
    BY <2>4 DEF Interrupt, Finish
  <2> QED
    BY <1>2, <2>1, <2>2, <2>3, <2>4 DEF Harness
<1>3. CASE Matrix
  BY <1>3 DEF Matrix, MatrixRefuses, MatrixStart, MatrixLaunches, Launch, MatrixCollects
<1>4. CASE FreshRoot
  BY <1>4 DEF FreshRoot
<1> QED
  BY <1>1, <1>2, <1>3, <1>4 DEF Next

LEMMA GraderHolds == Spec => []GraderInv(trace, grader)
<1>1. Init => GraderInv(trace, grader)
  BY GraderStarts DEF Init
<1>2. ASSUME GraderInv(trace, grader), [Next]_vars
      PROVE  GraderInv(trace, grader)'
  <2>1. CASE UNCHANGED <<trace, grader>>
    BY <1>2, <2>1
  <2>2. CASE trace' = <<>> /\ grader' = GraderStart
    BY <2>2, GraderStarts
  <2>3. ASSUME NEW p \in Samples, Record(p)
        PROVE  GraderInv(trace, grader)'
    <3> DEFINE s == Stamped(trace, p)
    <3>1. trace' = Append(trace, s) /\ grader' = Graded(grader, s)
      BY <2>3 DEF Record
    <3>2. InOrder(trace) /\ trace \in Seq(TracePoses)
      BY <1>2 DEF GraderInv, InOrder
    <3>3. s \in TracePoses /\ (trace # <<>> => s.stamp > trace[Len(trace)].stamp)
      BY <3>2, StampedOf
    <3> HIDE DEF s
    <3>4. OneMore(trace, Append(trace, s), s)
      BY <3>2, <3>3, OneMoreOf
    <3>5. GraderInv(Append(trace, s), Graded(grader, s))
      BY <1>2, <3>4, GraderStep
    <3> QED
      BY <3>1, <3>5
  <2> QED
    BY <1>2, <2>1, <2>2, <2>3, TraceMoves DEF vars
<1> QED
  BY <1>1, <1>2, PTL DEF Spec

\* For every recording, however long, with every gap, every unmatched pose and
\* every relapse in it: the verdict the window scan of check_recovery_pose_gt.py
\* comes to is that the run recovered exactly when there is a long enough stretch
\* of recovered poses behind a loss and the recording ends recovered.
THEOREM VerdictsAreEarned == Spec => []VerdictIsEarned
<1>1. GraderInv(trace, grader) => VerdictIsEarned
  BY VerdictOfTrace DEF VerdictIsEarned
<1> QED
  BY <1>1, GraderHolds, PTL

-----------------------------------------------------------------------------
(* The IMU comparison.                                                     *)

FileType == [summary: Nat, level: {"n/a", "FAIL", "WARN", "OK"}, validation: Nat, trajectory: Nat]

InvType ==
  [id: Nat, kind: {"run", "script", "report"}, modes: Seq(Modes), reference: BOOLEAN,
   continue: BOOLEAN, failed: BOOLEAN, step: {"commands", "compare", "report", "ended"},
   at: Nat, command: {"benchmark", "validation", "trajectory"}, printed: BOOLEAN, exit: 0..2]

CompTypes ==
  /\ inv \in InvType /\ files \in [Modes -> FileType] /\ comparison \in [Modes -> FileType]
  /\ report \in [Modes -> FileType] /\ plan \in [modes: Seq(Modes), reference: BOOLEAN]

\* What the files of mode m in row come to when invocation i made all of them.
Validates(row, i) == row.validation = i.id /\ row.level # "FAIL"

FreshRow(row, m, i) ==
  /\ row.summary = i.id
  /\ m \in Validated => Validates(row, i)
  /\ i.reference => row.trajectory = i.id

\* The files of the mode whose command is next: those of its earlier commands.
StartedRow(row, m, i) ==
  /\ i.command # "benchmark" => row.summary = i.id
  /\ i.command = "validation" => m \in Validated
  /\ i.command = "trajectory" => i.reference /\ (m \in Validated => Validates(row, i))

\* As long as nothing has failed, the files of the modes that are done are of
\* this invocation, and so is the comparison made of them.
CompInv ==
  /\ CompTypes
  /\ inv.step # "ended" => inv.id # Never /\ inv.at \in DOMAIN inv.modes
  /\ inv.step = "commands" /\ ~inv.failed =>
       /\ \A k \in 1..(inv.at - 1) : FreshRow(files[inv.modes[k]], inv.modes[k], inv)
       /\ StartedRow(files[inv.modes[inv.at]], inv.modes[inv.at], inv)
  /\ inv.step \in {"compare", "report"} /\ ~inv.failed =>
       \A k \in DOMAIN inv.modes : FreshRow(files[inv.modes[k]], inv.modes[k], inv)
  /\ inv.step = "report" /\ ~inv.failed =>
       \A k \in DOMAIN inv.modes : comparison[inv.modes[k]] = files[inv.modes[k]]
  /\ GreenReportIsFresh

LEMMA ModesTypes ==
  /\ Validated \subseteq Modes
  /\ \A modes \in Plans : modes \in Seq(Modes) /\ modes # <<>>
  /\ MaxInvocations \in Nat
BY ModesAssumption

LEMMA ModesOf ==
  ASSUME NEW modes \in Seq(Modes)
  PROVE  /\ Len(modes) \in Nat /\ DOMAIN modes = 1..Len(modes)
         /\ \A k \in DOMAIN modes : modes[k] \in Modes
         /\ modes # <<>> => 1 \in DOMAIN modes
<1>1. Len(modes) \in Nat /\ DOMAIN modes = 1..Len(modes)
  BY LenProperties
<1>2. modes # <<>> => Len(modes) # 0
  BY EmptySeq
<1> QED
  BY <1>1, <1>2, ElementOfSeq

LEMMA NoFilesType == NoFiles \in FileType /\ NoRows \in [Modes -> FileType]
BY DEF NoFiles, NoRows, Never, FileType

LEMMA CompInitInv == CompInit => CompInv
<1> SUFFICES ASSUME CompInit PROVE CompInv
  OBVIOUS
<1>1. <<>> \in Seq(Modes)
  BY EmptySeq
<1>2. CompTypes
  BY <1>1, NoFilesType DEF CompInit, CompTypes, InvType
<1>3. inv.step = "ended" /\ inv.exit = 2
  BY DEF CompInit
<1> QED
  BY <1>2, <1>3 DEF CompInv, GreenReportIsFresh

\* An invocation that ends without a green exit of the loop.
LEMMA EndedInv ==
  ASSUME CompTypes', inv'.step = "ended",
         inv'.exit # 0 \/ inv'.printed \/ inv'.kind = "report"
  PROVE  CompInv'
BY DEF CompInv, GreenReportIsFresh

\* One that begins: nothing is done yet.
LEMMA BegunInv ==
  ASSUME CompTypes', inv'.step = "commands", inv'.id # Never, inv'.modes # <<>>,
         inv'.at = 1, inv'.command = "benchmark"
  PROVE  CompInv'
<1>1. 1 \in DOMAIN inv'.modes
  BY ModesOf DEF CompTypes, InvType
<1>2. StartedRow(files[inv.modes[inv.at]], inv.modes[inv.at], inv)'
  BY DEF StartedRow
<1> QED
  BY <1>1, <1>2 DEF CompInv, GreenReportIsFresh

LEMMA StartStep ==
  ASSUME CompInv, NEW modes \in Plans, NEW reference \in BOOLEAN, NEW continue \in BOOLEAN,
         Start(modes, reference, continue)
  PROVE  CompInv'
<1>1. PICK outcome \in Outcomes :
       /\ inv' = [id |-> inv.id + 1, kind |-> "run", modes |-> modes,
                  reference |-> reference, continue |-> continue, failed |-> FALSE,
                  step |-> IF outcome = "runs" THEN "commands" ELSE "ended",
                  at |-> 1, command |-> "benchmark", printed |-> outcome = "printed",
                  exit |-> CASE outcome = "bad_input" -> 2
                             [] outcome = "bad_config" -> 1
                             [] OTHER -> 0]
       /\ plan' = Planned(outcome, modes, reference)
  BY DEF Start
<1>2. modes \in Seq(Modes) /\ modes # <<>> /\ inv.id + 1 \in Nat /\ inv.id + 1 # Never
  BY ModesTypes DEF CompInv, CompTypes, InvType, Never
<1>3. inv'.exit = (CASE outcome = "bad_input" -> 2 [] outcome = "bad_config" -> 1
                     [] OTHER -> 0)
  BY <1>1
<1>4. /\ inv'.exit \in 0..2
      /\ outcome \in {"bad_input", "bad_config"} => inv'.exit # 0
  BY <1>3
<1>5. inv' \in InvType
  BY <1>1, <1>2, <1>4 DEF InvType
<1>6. plan' \in [modes: Seq(Modes), reference: BOOLEAN]
  BY <1>1, <1>2 DEF Planned, CompInv, CompTypes
<1>7. CompTypes'
  BY <1>5, <1>6 DEF CompTypes, CompInv, Start
<1>8. CASE outcome = "runs"
  BY <1>1, <1>2, <1>7, <1>8, BegunInv
<1>9. CASE outcome # "runs"
  <2>1. inv'.step = "ended" /\ (inv'.exit # 0 \/ inv'.printed)
    BY <1>1, <1>4, <1>9 DEF Outcomes
  <2> QED
    BY <1>7, <2>1, EndedInv
<1> QED
  BY <1>8, <1>9

LEMMA ScriptStep ==
  ASSUME CompInv, StartScript
  PROVE  CompInv'
<1>1. /\ inv' = [id |-> inv.id + 1, kind |-> "script", modes |-> plan.modes,
             reference |-> plan.reference, continue |-> FALSE, failed |-> FALSE,
             step |-> "commands", at |-> 1, command |-> "benchmark",
             printed |-> FALSE, exit |-> 0]
      /\ plan.modes # <<>>
  BY DEF StartScript
<1>2. /\ inv.id + 1 \in Nat /\ inv.id + 1 # Never
      /\ plan.modes \in Seq(Modes) /\ plan.reference \in BOOLEAN
  BY DEF CompInv, CompTypes, InvType, Never
<1>3. inv' \in InvType
  BY <1>1, <1>2 DEF InvType
<1>4. CompTypes'
  BY <1>3 DEF CompInv, CompTypes, StartScript
<1> QED
  BY <1>1, <1>2, <1>4, BegunInv

LEMMA EndsOf ==
  ASSUME CompTypes, NEW code \in 0..2, Ends(code)
  PROVE  /\ inv' \in InvType /\ inv'.step = "ended" /\ inv'.exit = code
         /\ inv'.modes = inv.modes /\ inv'.id = inv.id /\ inv'.kind = inv.kind
         /\ inv'.reference = inv.reference /\ inv'.printed = inv.printed
BY DEF Ends, CompTypes, InvType

LEMMA InterruptedStep ==
  ASSUME CompInv, Interrupted
  PROVE  CompInv'
<1>1. inv' \in InvType /\ inv'.step = "ended" /\ inv'.exit = 1
  BY EndsOf DEF Interrupted, CompInv
<1>2. CompTypes'
  BY <1>1 DEF Interrupted, CompInv, CompTypes
<1> QED
  BY <1>1, <1>2, EndedInv

\* What a command leaves is its own file; the file says that it failed when its
\* exit code does.
LEMMA LeftOf ==
  ASSUME NEW row \in FileType, NEW command \in {"benchmark", "validation", "trajectory"},
         NEW code \in 0..2, NEW left \in Left(row, command, code), CompTypes
  PROVE  /\ left \in FileType
         /\ code = 0 /\ command = "benchmark" => left.summary = inv.id
         /\ code = 0 /\ command = "validation" => Validates(left, inv)
         /\ code = 0 /\ command = "trajectory" => left.trajectory = inv.id
         /\ command # "benchmark" => left.summary = row.summary
         /\ command # "validation" =>
              left.validation = row.validation /\ left.level = row.level
         /\ command # "trajectory" => left.trajectory = row.trajectory
<1>0. inv.id \in Nat
  BY DEF CompTypes, InvType
<1>1. CASE command = "benchmark"
  <2>1. left \in IF code = 0 THEN {[row EXCEPT !.summary = inv.id]}
                 ELSE {row, [row EXCEPT !.summary = inv.id]}
    <3>1. CASE code = 0
      BY <1>1, <3>1 DEF Left
    <3>2. CASE code # 0
      BY <1>1, <3>2 DEF Left
    <3> QED
      BY <3>1, <3>2
  <2> QED
    BY <1>0, <1>1, <2>1 DEF FileType
<1>2. CASE command = "validation"
  <2>1. CASE code = 2
    <3>1. left = row
      BY <1>2, <2>1 DEF Left
    <3> QED
      BY <1>2, <2>1, <3>1
  <2>2. CASE code # 2
    <3>1. PICK l \in {"FAIL", "WARN", "OK"} :
            /\ left = [row EXCEPT !.validation = inv.id, !.level = l]
            /\ code = 0 => l # "FAIL"
      BY <1>2, <2>2 DEF Left
    <3>2. /\ left \in FileType /\ left.validation = inv.id /\ left.level = l
          /\ left.summary = row.summary /\ left.trajectory = row.trajectory
      BY <1>0, <3>1 DEF FileType
    <3> QED
      BY <1>2, <3>1, <3>2 DEF Validates
  <2> QED
    BY <2>1, <2>2
<1>3. CASE command = "trajectory"
  <2>1. left \in IF code = 0 THEN {[row EXCEPT !.trajectory = inv.id]} ELSE {row}
    <3>1. CASE code = 0
      BY <1>3, <3>1 DEF Left
    <3>2. CASE code # 0
      BY <1>3, <3>2 DEF Left
    <3> QED
      BY <3>1, <3>2
  <2> QED
    BY <1>0, <1>3, <2>1 DEF FileType
<1> QED
  BY <1>1, <1>2, <1>3

LEMMA NextCommandOf ==
  ASSUME NEW m, NEW reference \in BOOLEAN,
         NEW command \in {"benchmark", "validation", "trajectory"}
  PROVE  LET next == NextCommand(m, reference, command)
         IN /\ next \in {"validation", "trajectory", "none"}
            /\ next = "validation" => m \in Validated /\ command = "benchmark"
            /\ next = "trajectory" => /\ reference /\ command # "trajectory"
                                      /\ m \in Validated => command = "validation"
            /\ next = "none" => /\ reference => command = "trajectory"
                                /\ ~reference /\ m \in Validated => command # "benchmark"
BY DEF NextCommand

\* The loop one command further: in the same mode, at the next one, or over.
LEMMA MovedOf ==
  ASSUME CompTypes, inv.step = "commands", inv.at \in DOMAIN inv.modes,
         NEW failed \in BOOLEAN, inv' = [Moved EXCEPT !.failed = failed]
  PROVE  LET next == NextCommand(inv.modes[inv.at], inv.reference, inv.command)
         IN /\ inv' \in InvType /\ inv'.failed = failed
            /\ inv'.modes = inv.modes /\ inv'.id = inv.id /\ inv'.kind = inv.kind
            /\ inv'.reference = inv.reference /\ inv'.at \in DOMAIN inv.modes
            /\ \/ /\ next # "none" /\ inv'.step = "commands"
                  /\ inv'.command = next /\ inv'.at = inv.at
               \/ /\ next = "none" /\ inv'.step = "commands"
                  /\ inv'.command = "benchmark" /\ inv'.at = inv.at + 1
               \/ /\ next = "none" /\ inv'.step = "compare" /\ inv.at = Len(inv.modes)
<1> DEFINE next == NextCommand(inv.modes[inv.at], inv.reference, inv.command)
           over == next = "none" /\ inv.at = Len(inv.modes)
<1>1. /\ inv \in InvType /\ Len(inv.modes) \in Nat /\ DOMAIN inv.modes = 1..Len(inv.modes)
      /\ inv.at \in Nat /\ inv.at =< Len(inv.modes)
  BY ModesOf DEF CompTypes, InvType
<1>2. next \in {"validation", "trajectory", "none"} /\ over \in BOOLEAN
  BY <1>1, NextCommandOf DEF InvType
<1>3. inv' = [inv EXCEPT !.command = IF next = "none" THEN "benchmark" ELSE next,
                !.at = IF next = "none" /\ ~over THEN @ + 1 ELSE @,
                !.step = IF over THEN "compare" ELSE @, !.failed = failed]
  BY <1>1 DEF Moved, InvType
<1> HIDE DEF next
<1>4. /\ inv'.command = (IF next = "none" THEN "benchmark" ELSE next)
      /\ inv'.at = (IF next = "none" /\ ~over THEN inv.at + 1 ELSE inv.at)
      /\ inv'.step = (IF over THEN "compare" ELSE inv.step) /\ inv'.failed = failed
      /\ inv'.modes = inv.modes /\ inv'.id = inv.id /\ inv'.kind = inv.kind
      /\ inv'.reference = inv.reference
  BY <1>1, <1>3 DEF InvType
<1>5. inv'.at \in DOMAIN inv.modes /\ inv'.at \in Nat
  BY <1>1, <1>2, <1>4
<1>6. inv' \in InvType
  <2> DEFINE command == IF next = "none" THEN "benchmark" ELSE next
             at == IF next = "none" /\ ~over THEN inv.at + 1 ELSE inv.at
             step == IF over THEN "compare" ELSE inv.step
  <2>1. /\ command \in {"benchmark", "validation", "trajectory"} /\ at \in Nat
        /\ step \in {"commands", "compare", "report", "ended"}
    BY <1>1, <1>2 DEF InvType
  <2>2. inv' = [inv EXCEPT !.command = command, !.at = at, !.step = step, !.failed = failed]
    BY <1>3
  <2> HIDE DEF command, at, step
  <2> QED
    BY <1>1, <2>1, <2>2 DEF InvType
<1>7. \/ /\ next # "none" /\ inv'.step = "commands"
         /\ inv'.command = next /\ inv'.at = inv.at
      \/ /\ next = "none" /\ inv'.step = "commands"
         /\ inv'.command = "benchmark" /\ inv'.at = inv.at + 1
      \/ /\ next = "none" /\ inv'.step = "compare" /\ inv.at = Len(inv.modes)
  BY <1>2, <1>4
<1> QED
  BY <1>4, <1>5, <1>6, <1>7 DEF next

LEMMA RunCommandStep ==
  ASSUME CompInv, NEW code \in 0..2, RunCommand(code)
  PROVE  CompInv'
<1> DEFINE m == inv.modes[inv.at]
           next == NextCommand(m, inv.reference, inv.command)
<1>0. /\ CompTypes /\ inv.step = "commands" /\ inv.at \in DOMAIN inv.modes /\ inv.id # Never
      /\ AfterCommand(inv.command, code) /\ UNCHANGED <<comparison, plan, report>>
      /\ inv \in InvType /\ files \in [Modes -> FileType]
  BY DEF RunCommand, CompInv, CompTypes
<1>1. /\ Len(inv.modes) \in Nat /\ DOMAIN inv.modes = 1..Len(inv.modes)
      /\ inv.at \in 1..Len(inv.modes) /\ m \in Modes /\ files[m] \in FileType
      /\ inv.command \in {"benchmark", "validation", "trajectory"} /\ inv.reference \in BOOLEAN
      /\ inv.failed \in BOOLEAN
      /\ \A k \in DOMAIN inv.modes : inv.modes[k] \in Modes
  BY <1>0, ModesOf DEF InvType
<1>2. PICK left \in Left(files[m], inv.command, code) : files' = [files EXCEPT ![m] = left]
  BY DEF RunCommand
<1>3. /\ left \in FileType
      /\ code = 0 /\ inv.command = "benchmark" => left.summary = inv.id
      /\ code = 0 /\ inv.command = "validation" => Validates(left, inv)
      /\ code = 0 /\ inv.command = "trajectory" => left.trajectory = inv.id
      /\ inv.command # "benchmark" => left.summary = files[m].summary
      /\ inv.command # "validation" =>
           left.validation = files[m].validation /\ left.level = files[m].level
      /\ inv.command # "trajectory" => left.trajectory = files[m].trajectory
  BY <1>0, <1>1, LeftOf
<1>4. files' \in [Modes -> FileType] /\ files'[m] = left
      /\ \A n \in Modes : n # m => files'[n] = files[n]
  BY <1>0, <1>1, <1>2, <1>3
<1>5. CASE code # 0 /\ ~inv.continue
  <2>1. Ends(code)
    BY <1>0, <1>5 DEF AfterCommand
  <2>2. inv' \in InvType /\ inv'.step = "ended" /\ inv'.exit = code
    BY <1>0, <2>1, EndsOf
  <2>3. CompTypes'
    BY <1>0, <1>4, <2>2 DEF CompTypes
  <2> QED
    BY <1>5, <2>2, <2>3, EndedInv
<1>6. CASE ~(code # 0 /\ ~inv.continue)
  <2>1. PICK failed \in BOOLEAN : /\ failed = (inv.failed \/ code # 0)
                                  /\ inv' = [Moved EXCEPT !.failed = failed]
    <3>1. inv' = [Moved EXCEPT !.failed = @ \/ code # 0]
      BY <1>0, <1>6 DEF AfterCommand
    <3>2. Moved.failed = inv.failed
      BY <1>0 DEF Moved, InvType
    <3> QED
      BY <1>1, <3>1, <3>2
  <2>2. /\ inv' \in InvType /\ inv'.failed = failed
        /\ inv'.modes = inv.modes /\ inv'.id = inv.id /\ inv'.kind = inv.kind
        /\ inv'.reference = inv.reference /\ inv'.at \in DOMAIN inv.modes
        /\ \/ /\ next # "none" /\ inv'.step = "commands"
              /\ inv'.command = next /\ inv'.at = inv.at
           \/ /\ next = "none" /\ inv'.step = "commands"
              /\ inv'.command = "benchmark" /\ inv'.at = inv.at + 1
           \/ /\ next = "none" /\ inv'.step = "compare" /\ inv.at = Len(inv.modes)
    BY <1>0, <2>1, MovedOf
  <2>3. CompTypes'
    BY <1>0, <1>4, <2>2 DEF CompTypes
  <2>4. CASE failed
    BY <1>0, <2>2, <2>3, <2>4 DEF CompInv, GreenReportIsFresh
  <2>5. CASE ~failed
    <3>1. code = 0 /\ ~inv.failed
      BY <2>1, <2>5
    <3>2. /\ \A k \in 1..(inv.at - 1) : FreshRow(files[inv.modes[k]], inv.modes[k], inv)
          /\ StartedRow(files[m], m, inv)
      BY <1>0, <3>1 DEF CompInv
    <3> HIDE DEF m, next
    <3>3. /\ next \in {"validation", "trajectory", "none"}
          /\ next = "validation" => m \in Validated /\ inv.command = "benchmark"
          /\ next = "trajectory" => /\ inv.reference /\ inv.command # "trajectory"
                                    /\ m \in Validated => inv.command = "validation"
          /\ next = "none" => /\ inv.reference => inv.command = "trajectory"
                              /\ ~inv.reference /\ m \in Validated => inv.command # "benchmark"
      BY <1>1, NextCommandOf DEF next
    <3>4. next # "none" => left.summary = inv.id
      BY <1>1, <1>3, <3>1, <3>2, <3>3 DEF StartedRow
    <3>5. next = "trajectory" /\ m \in Validated => Validates(left, inv)
      BY <1>3, <3>1, <3>3
    <3>6. next = "none" => FreshRow(left, m, inv)
      <4> SUFFICES ASSUME next = "none" PROVE FreshRow(left, m, inv)
        OBVIOUS
      <4>1. left.summary = inv.id
        BY <1>1, <1>3, <3>1, <3>2 DEF StartedRow
      <4>2. inv.reference => left.trajectory = inv.id
        BY <1>3, <3>1, <3>3
      <4>3. ASSUME m \in Validated PROVE Validates(left, inv)
        <5>1. CASE inv.command = "validation"
          BY <1>3, <3>1, <5>1
        <5>2. CASE inv.command = "trajectory"
          BY <1>3, <3>2, <4>3, <5>2 DEF StartedRow, Validates
        <5> QED
          BY <1>1, <3>3, <4>3, <5>1, <5>2
      <4> QED
        BY <4>1, <4>2, <4>3 DEF FreshRow
    <3>7. ASSUME NEW k \in 1..(inv.at - 1)
          PROVE  FreshRow(files'[inv.modes[k]], inv.modes[k], inv)
      <4>1. inv.modes[k] \in Modes /\ FreshRow(files[inv.modes[k]], inv.modes[k], inv)
        BY <1>1, <3>2
      <4>2. CASE inv.modes[k] = m
        <5>1. FreshRow(files[m], m, inv)
          BY <4>1, <4>2
        <5> QED
          BY <1>1, <1>3, <1>4, <3>1, <4>2, <5>1 DEF FreshRow, Validates
      <4> QED
        BY <1>4, <4>1, <4>2
    <3>8. \A row, mode : FreshRow(row, mode, inv) => FreshRow(row, mode, inv')
      BY <2>2 DEF FreshRow, Validates
    <3>9. CASE inv'.step = "commands" /\ inv'.at = inv.at /\ inv'.command = next /\ next # "none"
      <4>1. StartedRow(left, m, inv')
        BY <2>2, <3>3, <3>4, <3>5, <3>9 DEF StartedRow, Validates
      <4>2. m = inv'.modes[inv'.at]
        BY <2>2, <3>9 DEF m
      <4> QED
        BY <1>0, <1>4, <2>2, <2>3, <3>7, <3>8, <3>9, <4>1, <4>2 DEF CompInv, GreenReportIsFresh
    <3>10. CASE /\ inv'.step = "commands" /\ inv'.at = inv.at + 1 /\ next = "none"
                /\ inv'.command = "benchmark"
      <4>1. \A k \in 1..inv.at : FreshRow(files'[inv.modes[k]], inv.modes[k], inv')
        BY <1>1, <1>4, <3>6, <3>7, <3>8, <3>10 DEF m
      <4>2. StartedRow(files'[inv'.modes[inv'.at]], inv'.modes[inv'.at], inv')
        BY <3>10 DEF StartedRow
      <4> QED
        BY <1>0, <1>1, <2>2, <2>3, <3>10, <4>1, <4>2 DEF CompInv, GreenReportIsFresh
    <3>11. CASE inv'.step = "compare" /\ next = "none" /\ inv.at = Len(inv.modes)
      <4>1. \A k \in 1..inv.at : FreshRow(files'[inv.modes[k]], inv.modes[k], inv')
        BY <1>1, <1>4, <3>6, <3>7, <3>8, <3>11 DEF m
      <4> QED
        BY <1>0, <1>1, <2>2, <2>3, <3>11, <4>1 DEF CompInv, GreenReportIsFresh
    <3> QED
      BY <2>2, <3>9, <3>10, <3>11
  <2> QED
    BY <2>4, <2>5
<1> QED
  BY <1>5, <1>6

LEMMA CompareStep ==
  ASSUME CompInv, NEW code \in 0..2, Compare(code)
  PROVE  CompInv'
<1>0. /\ CompTypes /\ inv.step = "compare" /\ inv \in InvType /\ inv.id # Never
      /\ inv.at \in DOMAIN inv.modes /\ UNCHANGED <<files, plan, report>>
      /\ \A k \in DOMAIN inv.modes : inv.modes[k] \in Modes
  BY ModesOf DEF Compare, CompInv, CompTypes, InvType
<1>1. comparison' = IF code # 0 THEN comparison
                    ELSE [m \in Modes |-> IF files[m].summary = Never THEN NoFiles ELSE files[m]]
  BY DEF Compare
<1>2. comparison' \in [Modes -> FileType]
  BY <1>0, <1>1, NoFilesType DEF CompTypes
<1>3. CASE inv.kind = "script" /\ code # 0
  <2>1. inv' \in InvType /\ inv'.step = "ended" /\ inv'.exit = code
    BY <1>0, <1>3 DEF Compare, InvType
  <2>2. CompTypes'
    BY <1>0, <1>2, <2>1 DEF CompTypes
  <2> QED
    BY <1>3, <2>1, <2>2, EndedInv
<1>4. CASE ~(inv.kind = "script" /\ code # 0)
  <2>1. inv' = [inv EXCEPT !.step = "report", !.failed = @ \/ code # 0]
    BY <1>4 DEF Compare
  <2>2. /\ inv' \in InvType /\ inv'.step = "report" /\ inv'.modes = inv.modes
        /\ inv'.at = inv.at /\ inv'.id = inv.id /\ inv'.reference = inv.reference
        /\ inv'.failed = (inv.failed \/ code # 0)
    BY <1>0, <2>1 DEF InvType
  <2>3. CompTypes'
    BY <1>0, <1>2, <2>2 DEF CompTypes
  <2>4. ASSUME ~inv'.failed, NEW k \in DOMAIN inv.modes
        PROVE  /\ FreshRow(files[inv.modes[k]], inv.modes[k], inv')
               /\ comparison'[inv.modes[k]] = files[inv.modes[k]]
    <3>1. code = 0 /\ ~inv.failed
      BY <2>2, <2>4
    <3>2. FreshRow(files[inv.modes[k]], inv.modes[k], inv)
      BY <1>0, <2>4, <3>1 DEF CompInv
    <3>3. files[inv.modes[k]].summary # Never /\ inv.modes[k] \in Modes
      BY <1>0, <2>4, <3>2 DEF FreshRow
    <3>4. FreshRow(files[inv.modes[k]], inv.modes[k], inv')
      BY <2>2, <3>2 DEF FreshRow, Validates
    <3> QED
      BY <1>1, <3>1, <3>3, <3>4
  <2> QED
    BY <1>0, <2>2, <2>3, <2>4 DEF CompInv, GreenReportIsFresh
<1> QED
  BY <1>3, <1>4

LEMMA RowsOf ==
  ASSUME CompTypes, NEW modes \in Seq(Modes)
  PROVE  /\ Rows(modes) \in [Modes -> FileType]
         /\ \A k \in DOMAIN modes :
              Rows(modes)[modes[k]] = [comparison[modes[k]] EXCEPT
                 !.level = files[modes[k]].level, !.validation = files[modes[k]].validation]
<1>1. files \in [Modes -> FileType] /\ comparison \in [Modes -> FileType]
  BY DEF CompTypes
<1>2. \A m \in Modes : [comparison[m] EXCEPT !.level = files[m].level,
                        !.validation = files[m].validation] \in FileType
  BY <1>1 DEF FileType
<1>3. \A k \in DOMAIN modes : modes[k] \in Modes /\ modes[k] \in ToSet(modes)
  BY ModesOf DEF ToSet
<1> QED
  BY <1>2, <1>3, NoFilesType DEF Rows

LEMMA ReportStep ==
  ASSUME CompInv, Report
  PROVE  CompInv'
<1>0. /\ CompTypes /\ inv.step = "report" /\ inv \in InvType
      /\ inv.modes \in Seq(Modes) /\ inv.failed \in BOOLEAN
      /\ report' = Rows(inv.modes) /\ UNCHANGED <<files, comparison, plan>>
      /\ Ends(IF inv.failed THEN 1 ELSE 0)
  BY DEF Report, CompInv, CompTypes, InvType
<1>1. /\ inv' \in InvType /\ inv'.step = "ended" /\ inv'.exit = (IF inv.failed THEN 1 ELSE 0)
      /\ inv'.modes = inv.modes /\ inv'.id = inv.id /\ inv'.reference = inv.reference
  BY <1>0, EndsOf
<1>2. CompTypes'
  BY <1>0, <1>1, RowsOf DEF CompTypes
<1>3. GreenReportIsFresh'
  <2> SUFFICES ASSUME ~inv.failed, NEW k \in DOMAIN inv.modes
               PROVE  FreshRow(report'[inv.modes[k]], inv.modes[k], inv)
    BY <1>1 DEF GreenReportIsFresh, FreshRow, Validates, ToSet
  <2>1. /\ FreshRow(files[inv.modes[k]], inv.modes[k], inv)
        /\ comparison[inv.modes[k]] = files[inv.modes[k]]
    BY <1>0 DEF CompInv
  <2>2. files[inv.modes[k]] \in FileType
    BY <1>0, ModesOf DEF CompTypes
  <2>3. report'[inv.modes[k]] = [files[inv.modes[k]] EXCEPT
           !.level = files[inv.modes[k]].level, !.validation = files[inv.modes[k]].validation]
    BY <1>0, <2>1, RowsOf
  <2>4. report'[inv.modes[k]] = files[inv.modes[k]]
    BY <2>2, <2>3 DEF FileType
  <2> QED
    BY <2>1, <2>4
<1> QED
  BY <1>1, <1>2, <1>3 DEF CompInv

LEMMA ReportOnlyStep ==
  ASSUME CompInv, ReportOnly
  PROVE  CompInv'
<1>1. /\ inv \in InvType /\ plan \in [modes: Seq(Modes), reference: BOOLEAN] /\ CompTypes
      /\ inv.step = "ended"
      /\ inv' = [inv EXCEPT !.id = @ + 1, !.kind = "report", !.modes = plan.modes,
               !.reference = plan.reference, !.failed = FALSE, !.printed = FALSE,
               !.exit = IF plan.modes = <<>> THEN 2 ELSE 0]
  BY DEF CompInv, CompTypes, ReportOnly
<1>2. inv' \in InvType /\ inv'.kind = "report" /\ inv'.step = "ended"
  <2> DEFINE exit == IF plan.modes = <<>> THEN 2 ELSE 0
  <2>1. /\ exit \in 0..2 /\ plan.modes \in Seq(Modes) /\ plan.reference \in BOOLEAN
        /\ inv.id + 1 \in Nat /\ inv.step \in {"commands", "compare", "report", "ended"}
    BY <1>1 DEF InvType
  <2>2. inv' = [inv EXCEPT !.id = inv.id + 1, !.kind = "report", !.modes = plan.modes,
               !.reference = plan.reference, !.failed = FALSE, !.printed = FALSE,
               !.exit = exit]
    BY <1>1
  <2> HIDE DEF exit
  <2>3. inv' \in InvType
    BY <1>1, <2>1, <2>2 DEF InvType
  <2>4. inv'.kind = "report" /\ inv'.step = inv.step
    BY <1>1, <2>2 DEF InvType
  <2> QED
    BY <1>1, <2>3, <2>4
<1>3. CompTypes'
  BY <1>1, <1>2, RowsOf DEF CompTypes, ReportOnly
<1> QED
  BY <1>2, <1>3, EndedInv

\* A green run or script reports files of its own commands only, whatever was
\* in the directory, whatever was planned there before, and with or without
\* --continue-on-failure (run_lidar_localization_imu_comparison.py).
THEOREM GreenReportsAreFresh == CompSpec => []GreenReportIsFresh
<1>1. CompInv /\ [CompNext]_compVars => CompInv'
  <2> SUFFICES ASSUME CompInv, [CompNext]_compVars PROVE CompInv'
    OBVIOUS
  <2>1. CASE \E modes \in Plans, reference, continue \in BOOLEAN :
               Start(modes, reference, continue)
    BY <2>1, StartStep
  <2>2. CASE StartScript \/ Report \/ ReportOnly \/ Interrupted
    BY <2>2, ScriptStep, ReportStep, ReportOnlyStep, InterruptedStep
  <2>3. CASE \E code \in 0..2 : RunCommand(code) \/ Compare(code)
    BY <2>3, RunCommandStep, CompareStep
  <2>4. CASE UNCHANGED compVars
    BY <2>4 DEF compVars, CompInv, CompTypes, GreenReportIsFresh
  <2> QED
    BY <2>1, <2>2, <2>3, <2>4 DEF CompNext
<1>2. CompInv => GreenReportIsFresh
  BY DEF CompInv
<1> QED
  BY <1>1, <1>2, CompInitInv, PTL DEF CompSpec

-----------------------------------------------------------------------------
(* The recovery report: the supervisor's stable window.                    *)

RowType == [stamp: Nat, ok: BOOLEAN, accepted: BOOLEAN, requested: BOOLEAN,
            healthy: BOOLEAN, fitness: Int]
WindowType == [awaiting: BOOLEAN, count: Nat, logged: BOOLEAN]
TickType == [quiet: BOOLEAN, reason: EpisodeEnds \cup {"none"}, stable: BOOLEAN]

ReportTypes ==
  /\ rows \in Seq(RowType) /\ ticks \in Seq(TickType)
  /\ asked \in BOOLEAN /\ tracked \in BOOLEAN
  /\ window \in WindowType

\* The last count ticks of a list were quiet, none of them before the tick that
\* ended an episode, and no stable window was claimed since.
Waited(list, count) ==
  \E end \in 1..Len(list) :
    /\ list[end].reason \in EpisodeEnds
    /\ Len(list) - end + 1 >= count
    /\ \A j \in (Len(list) - count + 1)..Len(list) : list[j].quiet
    /\ \A j \in end..Len(list) : ~list[j].stable

\* The stable window claimed at a tick was held (StableWindowHeld).
HeldAt(list, k) ==
  \E end \in 1..k :
    /\ list[end].reason \in EpisodeEnds
    /\ k - end + 1 >= ConfirmSamples
    /\ \A j \in (k - ConfirmSamples + 1)..k : list[j].quiet
    /\ \A j \in end..(k - 1) : ~list[j].stable

Tracked(row) == row.ok /\ row.accepted /\ ~row.requested

WindowInv ==
  /\ ReportTypes
  /\ window.awaiting => ~window.logged /\ Waited(ticks, window.count)
  /\ \A k \in 1..Len(ticks) : ticks[k].stable => HeldAt(ticks, k)
  /\ tracked => \E i \in 1..Len(rows) : Tracked(rows[i])
  /\ \A k \in 1..Len(ticks) : ticks[k].quiet => \E i \in 1..Len(rows) : Tracked(rows[i])

\* A nonempty set of indices has a least one.
LEMMA LeastIndex ==
  ASSUME NEW T, T \subseteq Nat, T # {}
  PROVE  \E x \in T : \A y \in T : x =< y
<1> DEFINE R == {ss \in Nat \X Nat : ss[1] < ss[2]}
<1>1. OpToRel(<, Nat) = R
  BY DEF OpToRel
<1>2. IsWellFoundedOn(R, Nat)
  BY <1>1, NatLessThanWellFounded
<1> HIDE DEF R
<1>3. PICK x \in T : \A y \in T : ~ (<<y, x>> \in R)
  BY <1>2, WFMin
<1>4. \A y \in T : x =< y
  <2> SUFFICES ASSUME NEW y \in T PROVE x =< y
    OBVIOUS
  <2>1. x \in Nat /\ y \in Nat /\ ~(<<y, x>> \in R)
    BY <1>3
  <2>2. ~(y < x)
    BY <2>1 DEF R
  <2> QED
    BY <2>1, <2>2
<1> QED
  BY <1>4

LEMMA AppendedAt ==
  ASSUME NEW S, NEW s \in Seq(S), NEW e \in S
  PROVE  LET t == Append(s, e)
         IN  /\ t \in Seq(S) /\ Len(s) \in Nat /\ Len(t) = Len(s) + 1
             /\ \A i \in 1..Len(s) : t[i] = s[i]
             /\ t[Len(s) + 1] = e
BY AppendProperties, LenProperties

\* A tick that neither ends an episode nor disturbs the count lengthens the
\* wait; one that ends an episode starts it.
LEMMA WaitedLonger ==
  ASSUME NEW s \in Seq(TickType), NEW e \in TickType, NEW count \in Nat,
         ~e.stable,
         \/ e.reason \in EpisodeEnds /\ count = 0
         \/ Waited(s, count)
  PROVE  /\ Waited(Append(s, e), 0)
         /\ e.quiet => Waited(Append(s, e), count + 1)
<1> DEFINE t == Append(s, e)
           n == Len(s)
<1>1. n \in Nat /\ Len(t) = n + 1 /\ (\A i \in 1..n : t[i] = s[i]) /\ t[n + 1] = e
  BY AppendedAt
<1> HIDE DEF t, n
<1>2. CASE e.reason \in EpisodeEnds /\ count = 0
  <2>1. n + 1 \in 1..Len(t) /\ t[n + 1].reason \in EpisodeEnds
    BY <1>1, <1>2
  <2>2. \A j \in (n + 1)..Len(t) : j = n + 1
    BY <1>1
  <2>3. \A j \in (n + 1)..Len(t) : ~t[j].stable
    BY <1>1, <2>2
  <2>4. Waited(t, 0)
    <3>1. Len(t) - (n + 1) + 1 >= 0 /\ \A j \in (Len(t) - 0 + 1)..Len(t) : t[j].quiet
      BY <1>1
    <3> QED
      BY <2>1, <2>3, <3>1 DEF Waited
  <2>5. ASSUME e.quiet PROVE Waited(t, count + 1)
    <3>1. Len(t) - (n + 1) + 1 >= count + 1
      BY <1>1, <1>2
    <3>2. \A j \in (Len(t) - (count + 1) + 1)..Len(t) : j = n + 1
      BY <1>1, <1>2
    <3>3. \A j \in (Len(t) - (count + 1) + 1)..Len(t) : t[j].quiet
      BY <1>1, <2>5, <3>2
    <3> QED
      BY <2>1, <2>3, <3>1, <3>3 DEF Waited
  <2> QED
    BY <2>4, <2>5 DEF t
<1>3. CASE Waited(s, count)
  <2>1. PICK end \in 1..n :
          /\ s[end].reason \in EpisodeEnds
          /\ n - end + 1 >= count
          /\ \A j \in (n - count + 1)..n : s[j].quiet
          /\ \A j \in end..n : ~s[j].stable
    BY <1>3 DEF Waited, n
  <2>2. end \in 1..Len(t) /\ t[end].reason \in EpisodeEnds
    BY <1>1, <2>1
  <2>3. \A j \in end..Len(t) : ~t[j].stable
    <3> TAKE j \in end..Len(t)
    <3>1. CASE j = n + 1
      BY <1>1, <3>1
    <3>2. CASE j # n + 1
      <4>1. j \in end..n /\ j \in 1..n
        BY <1>1, <2>1, <3>2
      <4> QED
        BY <1>1, <2>1, <4>1
    <3> QED
      BY <3>1, <3>2
  <2>4. Waited(t, 0)
    <3>1. Len(t) - end + 1 >= 0 /\ \A j \in (Len(t) - 0 + 1)..Len(t) : t[j].quiet
      BY <1>1, <2>1
    <3> QED
      BY <2>2, <2>3, <3>1 DEF Waited
  <2>5. ASSUME e.quiet PROVE Waited(t, count + 1)
    <3>1. Len(t) - end + 1 >= count + 1
      BY <1>1, <2>1
    <3>2. \A j \in (Len(t) - (count + 1) + 1)..Len(t) : t[j].quiet
      <4> TAKE j \in (Len(t) - (count + 1) + 1)..Len(t)
      <4>1. CASE j = n + 1
        BY <1>1, <2>5, <4>1
      <4>2. CASE j # n + 1
        <5>1. j \in (n - count + 1)..n /\ j \in 1..n
          BY <1>1, <2>1, <4>2
        <5> QED
          BY <1>1, <2>1, <5>1
      <4> QED
        BY <4>1, <4>2
    <3> QED
      BY <2>2, <2>3, <3>1, <3>2 DEF Waited
  <2> QED
    BY <2>4, <2>5 DEF t
<1> QED
  BY <1>2, <1>3

\* A claim is held when the wait before it and its own tick make it long enough.
LEMMA ClaimIsHeld ==
  ASSUME NEW s \in Seq(TickType), NEW e \in TickType, NEW count \in Nat,
         e.quiet, count + 1 >= ConfirmSamples,
         \/ e.reason \in EpisodeEnds /\ count = 0
         \/ Waited(s, count)
  PROVE  HeldAt(Append(s, e), Len(s) + 1)
<1> DEFINE t == Append(s, e)
           n == Len(s)
<1>1. n \in Nat /\ Len(t) = n + 1 /\ (\A i \in 1..n : t[i] = s[i]) /\ t[n + 1] = e
  BY AppendedAt
<1>0. ConfirmSamples \in Nat /\ ConfirmSamples >= 1
  BY ReportAssumption
<1> HIDE DEF t, n
<1>2. CASE e.reason \in EpisodeEnds /\ count = 0
  <2>1. n + 1 \in 1..(n + 1) /\ t[n + 1].reason \in EpisodeEnds
        /\ (n + 1) - (n + 1) + 1 >= ConfirmSamples
    BY <1>0, <1>1, <1>2
  <2>2. \A j \in ((n + 1) - ConfirmSamples + 1)..(n + 1) : j = n + 1
    BY <1>0, <1>1, <1>2
  <2>3. \A j \in ((n + 1) - ConfirmSamples + 1)..(n + 1) : t[j].quiet
    BY <1>1, <2>2
  <2>4. \A j \in (n + 1)..((n + 1) - 1) : ~t[j].stable
    BY <1>1
  <2> QED
    BY <2>1, <2>3, <2>4 DEF HeldAt, t, n
<1>3. CASE Waited(s, count)
  <2>1. PICK end \in 1..n :
          /\ s[end].reason \in EpisodeEnds
          /\ n - end + 1 >= count
          /\ \A j \in (n - count + 1)..n : s[j].quiet
          /\ \A j \in end..n : ~s[j].stable
    BY <1>3 DEF Waited, n
  <2>2. end \in 1..(n + 1) /\ t[end].reason \in EpisodeEnds
        /\ (n + 1) - end + 1 >= ConfirmSamples
    BY <1>0, <1>1, <2>1
  <2>3. \A j \in ((n + 1) - ConfirmSamples + 1)..(n + 1) : t[j].quiet
    <3> TAKE j \in ((n + 1) - ConfirmSamples + 1)..(n + 1)
    <3>1. CASE j = n + 1
      BY <1>1, <3>1
    <3>2. CASE j # n + 1
      <4>1. j \in (n - count + 1)..n /\ j \in 1..n
        <5>1. n - end + 1 >= count /\ end \in 1..n
          BY <2>1
        <5>2. j \in Int /\ j >= n + 1 - ConfirmSamples + 1 /\ j <= n
          BY <1>0, <1>1, <3>2
        <5>3. j >= n - count + 1
          BY <1>0, <1>1, <5>2
        <5> QED
          BY <1>1, <5>1, <5>2, <5>3
      <4> QED
        BY <1>1, <2>1, <4>1
    <3> QED
      BY <3>1, <3>2
  <2>4. \A j \in end..((n + 1) - 1) : ~t[j].stable
    <3> TAKE j \in end..((n + 1) - 1)
    <3>1. j \in end..n /\ j \in 1..n
      BY <1>1, <2>1
    <3> QED
      BY <1>1, <2>1, <3>1
  <2> QED
    BY <2>2, <2>3, <2>4 DEF HeldAt, t, n
<1> QED
  BY <1>2, <1>3

\* A claim stays held: the log only grows.
LEMMA HeldStays ==
  ASSUME NEW s \in Seq(TickType), NEW e \in TickType, NEW k \in 1..Len(s), HeldAt(s, k)
  PROVE  HeldAt(Append(s, e), k)
<1> DEFINE t == Append(s, e)
<1>1. Len(s) \in Nat /\ \A i \in 1..Len(s) : t[i] = s[i]
  BY AppendedAt
<1> HIDE DEF t
<1>2. PICK end \in 1..k :
        /\ s[end].reason \in EpisodeEnds
        /\ k - end + 1 >= ConfirmSamples
        /\ \A j \in (k - ConfirmSamples + 1)..k : s[j].quiet
        /\ \A j \in end..(k - 1) : ~s[j].stable
  BY DEF HeldAt
<1>3. ConfirmSamples \in Nat
  BY ReportAssumption
<1>4. t[end].reason \in EpisodeEnds
  BY <1>1, <1>2
<1>5. \A j \in (k - ConfirmSamples + 1)..k : t[j].quiet
  BY <1>1, <1>2, <1>3
<1>6. \A j \in end..(k - 1) : ~t[j].stable
  BY <1>1, <1>2
<1> QED
  BY <1>2, <1>4, <1>5, <1>6 DEF HeldAt, t

LEMMA WindowStarts == ReportInit => WindowInv
<1> SUFFICES ASSUME ReportInit PROVE WindowInv
  OBVIOUS
<1>1. Len(rows) = 0 /\ Len(ticks) = 0 /\ rows \in Seq(RowType) /\ ticks \in Seq(TickType)
  BY EmptySeq DEF ReportInit
<1>2. window \in WindowType /\ ~window.awaiting /\ ~tracked
  BY DEF ReportInit, Closed0, WindowType
<1>3. asked \in BOOLEAN /\ tracked \in BOOLEAN
  BY DEF ReportInit
<1> QED
  BY <1>1, <1>2, <1>3 DEF WindowInv, ReportTypes

\* A recorded row is a row, later than every row before it.
LEMMA RecordedType ==
  ASSUME rows \in Seq(RowType), NEW kind \in RowKinds
  PROVE  /\ Recorded(kind) \in RowType
         /\ Recorded(kind).stamp >= 1
         /\ rows # <<>> => rows[Len(rows)].stamp < Recorded(kind).stamp
<1>1. /\ kind.gap \in Nat \ {0} /\ kind.fitness \in Int
      /\ {kind.ok, kind.accepted, kind.requested, kind.healthy} \subseteq BOOLEAN
  BY ReportAssumption
<1>2. rows # <<>> => rows[Len(rows)] \in RowType
  BY ElementOfSeq, LenProperties, EmptySeq
<1>3. /\ RowStamp(kind) \in Nat /\ RowStamp(kind) >= 1
      /\ rows # <<>> => rows[Len(rows)].stamp < RowStamp(kind)
  BY <1>1, <1>2 DEF RowStamp, RowType
<1>4. Recorded(kind).stamp = RowStamp(kind)
  BY DEF Recorded
<1>5. Recorded(kind) \in RowType
  BY <1>1, <1>3 DEF Recorded, RowType
<1> QED
  BY <1>3, <1>4, <1>5

LEMMA StatusKeepsWindow ==
  ASSUME WindowInv, Status
  PROVE  WindowInv'
<1>1. PICK kind \in RowKinds :
        /\ rows' = Append(rows, Recorded(kind))
        /\ tracked' = (kind.ok /\ kind.accepted /\ ~kind.requested)
        /\ UNCHANGED <<asked, window, ticks>>
  BY DEF Status
<1>2. rows \in Seq(RowType) /\ Recorded(kind) \in RowType
  BY RecordedType DEF WindowInv, ReportTypes
<1>3. /\ rows' \in Seq(RowType) /\ Len(rows) \in Nat /\ Len(rows') = Len(rows) + 1
      /\ \A i \in 1..Len(rows) : rows'[i] = rows[i]
      /\ rows'[Len(rows) + 1] = Recorded(kind)
  BY <1>1, <1>2, AppendedAt
<1>4. tracked' \in BOOLEAN /\ (tracked' <=> Tracked(Recorded(kind)))
  BY <1>1 DEF Tracked, Recorded
<1>5. ASSUME \E i \in 1..Len(rows) : Tracked(rows[i])
      PROVE  \E i \in 1..Len(rows') : Tracked(rows'[i])
  BY <1>3, <1>5
<1>6. tracked' => \E i \in 1..Len(rows') : Tracked(rows'[i])
  BY <1>3, <1>4
<1> QED
  BY <1>1, <1>3, <1>4, <1>5, <1>6 DEF WindowInv, ReportTypes

LEMMA TickKeepsWindow ==
  ASSUME WindowInv, Tick
  PROVE  WindowInv'
<1>0. /\ window \in WindowType /\ ticks \in Seq(TickType)
      /\ asked \in BOOLEAN /\ tracked \in BOOLEAN
      /\ ConfirmSamples \in Nat /\ ConfirmSamples >= 1
  BY ReportAssumption DEF WindowInv, ReportTypes
<1>1. PICK reason \in EpisodeEnds \cup {"none"} :
        /\ window' = UpdatedWindow(Opened(reason))
        /\ ticks' = Append(ticks,
                           [quiet |-> ~asked /\ tracked, reason |-> reason,
                            stable |-> UpdatedWindow(Opened(reason)).logged
                                       /\ ~Opened(reason).logged])
        /\ UNCHANGED <<rows, asked, tracked>>
  BY DEF Tick
<1> DEFINE o == Opened(reason)
           u == UpdatedWindow(o)
           quiet == ~asked /\ tracked
           e == [quiet |-> quiet, reason |-> reason, stable |-> u.logged /\ ~o.logged]
\* The wait before the tick: of the window that is open, or of the one this
\* tick opens.
<1>2. /\ o \in WindowType
      /\ o.awaiting => /\ ~o.logged
                       /\ \/ reason \in EpisodeEnds /\ o.count = 0
                          \/ Waited(ticks, o.count)
  <2>1. CASE reason \in EpisodeEnds
    BY <2>1 DEF Opened, WindowType
  <2>2. CASE reason \notin EpisodeEnds
    BY <1>0, <2>2 DEF Opened, WindowInv
  <2> QED
    BY <2>1, <2>2
<1> HIDE DEF o
<1>3. \/ ~o.awaiting /\ u = o
      \/ o.awaiting /\ ~o.logged /\ ~quiet /\ u = [o EXCEPT !.count = 0]
      \/ /\ o.awaiting /\ ~o.logged /\ quiet /\ o.count + 1 >= ConfirmSamples
         /\ u = [awaiting |-> FALSE, count |-> o.count + 1, logged |-> TRUE]
      \/ /\ o.awaiting /\ ~o.logged /\ quiet /\ ~(o.count + 1 >= ConfirmSamples)
         /\ u = [o EXCEPT !.count = o.count + 1]
  BY <1>2 DEF UpdatedWindow
<1>4. o.awaiting \in BOOLEAN /\ o.logged \in BOOLEAN /\ o.count \in Nat
  BY <1>2 DEF WindowType
<1>5. /\ u \in WindowType
      /\ u.logged /\ ~o.logged => o.awaiting /\ quiet /\ o.count + 1 >= ConfirmSamples
      /\ u.awaiting => /\ o.awaiting /\ ~u.logged /\ ~o.logged
                       /\ \/ u.count = 0
                          \/ quiet /\ u.count = o.count + 1
  <2>1. CASE ~o.awaiting /\ u = o
    BY <1>2, <2>1
  <2>2. CASE o.awaiting /\ ~o.logged /\ ~quiet /\ u = [o EXCEPT !.count = 0]
    BY <1>2, <1>4, <2>2 DEF WindowType
  <2>3. CASE /\ o.awaiting /\ ~o.logged /\ quiet /\ o.count + 1 >= ConfirmSamples
             /\ u = [awaiting |-> FALSE, count |-> o.count + 1, logged |-> TRUE]
    BY <1>4, <2>3 DEF WindowType
  <2>4. CASE /\ o.awaiting /\ ~o.logged /\ quiet
             /\ u = [o EXCEPT !.count = o.count + 1]
    BY <1>2, <1>4, <2>4 DEF WindowType
  <2> QED
    BY <1>3, <2>1, <2>2, <2>3, <2>4
<1> HIDE DEF u
<1>6. e \in TickType /\ e.quiet = quiet /\ e.stable = (u.logged /\ ~o.logged)
      /\ e.reason = reason
  BY <1>0, <1>4, <1>5 DEF TickType, WindowType
<1>7. ticks' = Append(ticks, e) /\ window' = u
  BY <1>1 DEF u, o
<1> HIDE DEF e, quiet
<1>8. /\ ticks' \in Seq(TickType) /\ Len(ticks) \in Nat /\ Len(ticks') = Len(ticks) + 1
      /\ \A i \in 1..Len(ticks) : ticks'[i] = ticks[i]
      /\ ticks'[Len(ticks) + 1] = e
  BY <1>0, <1>6, <1>7, AppendedAt
<1>9. u.awaiting => ~u.logged /\ Waited(ticks', u.count)
  <2> SUFFICES ASSUME u.awaiting PROVE Waited(ticks', u.count)
    BY <1>5
  <2>1. o.awaiting /\ ~e.stable
    BY <1>5, <1>6
  <2>2. \/ e.reason \in EpisodeEnds /\ o.count = 0
        \/ Waited(ticks, o.count)
    BY <1>2, <1>6, <2>1
  <2>3. Waited(ticks', 0) /\ (e.quiet => Waited(ticks', o.count + 1))
    BY <1>0, <1>4, <1>6, <1>7, <2>1, <2>2, WaitedLonger
  <2> QED
    BY <1>5, <1>6, <2>3
<1>10. ASSUME NEW k \in 1..Len(ticks'), ticks'[k].stable
       PROVE  HeldAt(ticks', k)
  <2>1. CASE k = Len(ticks) + 1
    <3>1. o.awaiting /\ e.quiet /\ o.count + 1 >= ConfirmSamples
      BY <1>5, <1>6, <1>8, <1>10, <2>1
    <3>2. \/ e.reason \in EpisodeEnds /\ o.count = 0
          \/ Waited(ticks, o.count)
      BY <1>2, <1>6, <3>1
    <3> QED
      BY <1>0, <1>4, <1>6, <1>7, <2>1, <3>1, <3>2, ClaimIsHeld
  <2>2. CASE k # Len(ticks) + 1
    <3>1. k \in 1..Len(ticks) /\ ticks[k].stable
      BY <1>8, <1>10, <2>2
    <3>2. HeldAt(ticks, k)
      BY <3>1 DEF WindowInv
    <3> QED
      BY <1>0, <1>6, <1>7, <3>1, <3>2, HeldStays
  <2> QED
    BY <2>1, <2>2
<1>11. ASSUME NEW k \in 1..Len(ticks'), ticks'[k].quiet
       PROVE  \E i \in 1..Len(rows) : Tracked(rows[i])
  <2>1. CASE k = Len(ticks) + 1
    <3>1. tracked
      BY <1>6, <1>8, <1>11, <2>1 DEF quiet
    <3> QED
      BY <3>1 DEF WindowInv
  <2>2. CASE k # Len(ticks) + 1
    <3>1. k \in 1..Len(ticks) /\ ticks[k].quiet
      BY <1>8, <1>11, <2>2
    <3> QED
      BY <3>1 DEF WindowInv
  <2> QED
    BY <2>1, <2>2
<1>12. ReportTypes'
  BY <1>1, <1>5, <1>7, <1>8 DEF WindowInv, ReportTypes
<1> QED
  BY <1>1, <1>7, <1>9, <1>10, <1>11, <1>12 DEF WindowInv

LEMMA WindowKeeps ==
  ASSUME WindowInv, [ReportNext]_reportVars
  PROVE  WindowInv'
<1>1. CASE Status
  BY <1>1, StatusKeepsWindow
<1>2. CASE Tick
  BY <1>2, TickKeepsWindow
<1>3. CASE RequestHeard \/ UNCHANGED reportVars
  <2>1. /\ UNCHANGED <<rows, tracked, window, ticks>>
        /\ asked' \in BOOLEAN
    BY <1>3 DEF RequestHeard, reportVars, WindowInv, ReportTypes
  <2> QED
    BY <2>1 DEF WindowInv, ReportTypes
<1> QED
  BY <1>1, <1>2, <1>3 DEF ReportNext

LEMMA WindowsAreHeld == WindowInv => StableWindowHeld
<1> SUFFICES ASSUME WindowInv PROVE StableWindowHeld
  OBVIOUS
<1>1. ASSUME NEW k \in StableWindows
      PROVE  \E end \in 1..k :
               /\ ticks[end].reason \in EpisodeEnds
               /\ k - end + 1 >= ConfirmSamples
               /\ \A j \in k - ConfirmSamples + 1..k : ticks[j].quiet
               /\ \A other \in StableWindows \ {k} : ~(other >= end /\ other < k)
  <2>1. k \in 1..Len(ticks) /\ HeldAt(ticks, k)
    BY <1>1 DEF StableWindows, WindowInv
  <2>2. PICK end \in 1..k :
          /\ ticks[end].reason \in EpisodeEnds
          /\ k - end + 1 >= ConfirmSamples
          /\ \A j \in (k - ConfirmSamples + 1)..k : ticks[j].quiet
          /\ \A j \in end..(k - 1) : ~ticks[j].stable
    BY <2>1 DEF HeldAt
  <2>3. \A other \in StableWindows \ {k} : ~(other >= end /\ other < k)
    BY <2>1, <2>2 DEF StableWindows
  <2> QED
    BY <2>2, <2>3
<1>2. ASSUME HealthOk
      PROVE  \E i \in 1..Len(rows) : rows[i].ok /\ rows[i].accepted /\ ~rows[i].requested
  <2>1. PICK k \in StableWindows : TRUE
    BY <1>2 DEF HealthOk
  <2>2. k \in 1..Len(ticks) /\ ConfirmSamples \in Nat /\ ConfirmSamples >= 1
    BY ReportAssumption DEF StableWindows
  <2>3. ticks[k].quiet
    <3>1. \A j \in k - ConfirmSamples + 1..k : ticks[j].quiet
      BY <1>1, <2>1
    <3>2. k \in k - ConfirmSamples + 1..k
      BY <2>2
    <3> QED
      BY <3>1, <3>2
  <2> QED
    BY <2>2, <2>3 DEF WindowInv, Tracked
<1> QED
  BY <1>1, <1>2 DEF StableWindowHeld

-----------------------------------------------------------------------------
(* The recovery report: stretches of rows that carry the request.          *)

Starts(list) ==
  {i \in 1..Len(list) : list[i].requested /\ (i = 1 \/ ~list[i - 1].requested)}

\* The rows i to j carry the request, and i is the first row that does.
Carries(list, i, j) ==
  i \in Starts(list) /\ j \in i..Len(list) /\ \A k \in i..j : list[k].requested

\* The request was gone before the file ended.
Ended(list, i, j) == Carries(list, i, j) /\ j < Len(list) /\ ~list[j + 1].requested

Ordered(list) ==
  \A i, j \in 1..Len(list) : i < j => list[i].stamp < list[j].stamp

\* A list with one more row, seen from the list.
Longer(list, new, row) ==
  /\ list \in Seq(RowType) /\ new \in Seq(RowType) /\ row \in RowType
  /\ Len(list) \in Nat /\ Len(new) = Len(list) + 1
  /\ \A i \in 1..Len(list) : new[i] = list[i]
  /\ new[Len(list) + 1] = row

LEMMA RowAt ==
  ASSUME NEW list \in Seq(RowType), NEW i \in 1..Len(list)
  PROVE  list[i].stamp \in Nat /\ list[i].requested \in BOOLEAN /\ list[i].ok \in BOOLEAN
<1>1. list[i] \in RowType
  BY ElementOfSeq
<1> QED
  BY <1>1 DEF RowType

\* Two stretches that end at the same row start at the same row.
LEMMA OneStart ==
  ASSUME NEW list, NEW i, NEW k, NEW j, Len(list) \in Nat,
         Carries(list, i, j), Carries(list, k, j)
  PROVE  i = k
<1>1. i \in 1..j /\ k \in 1..j /\ j \in Nat
  BY DEF Carries, Starts
<1>2. ~(i < k)
  <2> SUFFICES ASSUME i < k PROVE FALSE
    OBVIOUS
  <2>1. k - 1 \in i..j /\ k # 1
    BY <1>1
  <2>2. list[k - 1].requested /\ ~list[k - 1].requested
    BY <2>1 DEF Carries, Starts
  <2> QED
    BY <2>2
<1>3. ~(k < i)
  <2> SUFFICES ASSUME k < i PROVE FALSE
    OBVIOUS
  <2>1. i - 1 \in k..j /\ i # 1
    BY <1>1
  <2>2. list[i - 1].requested /\ ~list[i - 1].requested
    BY <2>1 DEF Carries, Starts
  <2> QED
    BY <2>2
<1> QED
  BY <1>1, <1>2, <1>3

\* One more row starts a stretch, continues the last one, or ends it.
LEMMA StartsLonger ==
  ASSUME NEW list, NEW new, NEW row, Longer(list, new, row)
  PROVE  Starts(new) =
           Starts(list) \cup
             IF row.requested /\ ~(Len(list) > 0 /\ list[Len(list)].requested)
             THEN {Len(list) + 1} ELSE {}
<1> DEFINE n == Len(list)
           late == row.requested /\ ~(n > 0 /\ list[n].requested)
<1>1. /\ n \in Nat /\ Len(new) = n + 1 /\ new[n + 1] = row
      /\ \A i \in 1..n : new[i] = list[i]
  BY DEF Longer
<1> HIDE DEF n
<1>2. ASSUME NEW i \in 1..n PROVE i \in Starts(new) <=> i \in Starts(list)
  <2>1. i \in 1..Len(new) /\ new[i] = list[i] /\ (i # 1 => i - 1 \in 1..n /\ new[i - 1] = list[i - 1])
    BY <1>1, <1>2
  <2> QED
    BY <1>2, <2>1 DEF Starts, n
<1>3. n + 1 \in Starts(new) <=> late
  <2>1. n + 1 \in 1..Len(new) /\ (n > 0 => n \in 1..n /\ new[n] = list[n])
    BY <1>1
  <2>2. n + 1 = 1 <=> ~(n > 0)
    BY <1>1
  <2>3. (n + 1) - 1 = n
    BY <1>1
  <2>4. n + 1 \in Starts(new) <=> row.requested /\ (n + 1 = 1 \/ ~new[n].requested)
    BY <1>1, <2>1, <2>3 DEF Starts
  <2> QED
    BY <2>1, <2>2, <2>4
<1>4. Starts(new) \subseteq 1..(n + 1) /\ Starts(list) \subseteq 1..n
  BY <1>1 DEF Starts, n
<1>5. \A i \in 1..(n + 1) : i \in 1..n \/ i = n + 1
  BY <1>1
<1>6. n + 1 \notin 1..n /\ 1..n \subseteq 1..(n + 1)
  BY <1>1
<1>7. Starts(new) = Starts(list) \cup IF late THEN {n + 1} ELSE {}
  BY <1>2, <1>3, <1>4, <1>5, <1>6
<1> QED
  BY <1>7 DEF n

LEMMA EndedLonger ==
  ASSUME NEW list, NEW new, NEW row, Longer(list, new, row), NEW i, NEW j
  PROVE  Ended(new, i, j) <=>
           \/ Ended(list, i, j)
           \/ j = Len(list) /\ Carries(list, i, j) /\ ~row.requested
<1> DEFINE n == Len(list)
<1>1. /\ n \in Nat /\ Len(new) = n + 1 /\ new[n + 1] = row
      /\ \A k \in 1..n : new[k] = list[k]
  BY DEF Longer
<1> HIDE DEF n
<1>2. Starts(list) \subseteq 1..n /\ Starts(new) \subseteq 1..(n + 1)
  BY <1>1 DEF Starts, n
<1>3. \A k \in 1..n : k \in Starts(new) <=> k \in Starts(list)
  <2>1. n + 1 \notin 1..n
    BY <1>1
  <2> QED
    BY <2>1, StartsLonger DEF n
<1>4. ASSUME Ended(new, i, j)
      PROVE  Ended(list, i, j) \/ (j = n /\ Carries(list, i, j) /\ ~row.requested)
  <2>1. /\ i \in Starts(new) /\ j \in i..(n + 1) /\ j < n + 1
        /\ \A k \in i..j : new[k].requested
        /\ ~new[j + 1].requested
    BY <1>1, <1>4 DEF Ended, Carries
  <2>2. i \in 1..n /\ j \in i..n
    BY <1>1, <1>2, <2>1
  <2>3. \A k \in i..j : k \in 1..n /\ list[k].requested
    BY <1>1, <2>1, <2>2
  <2>4. Carries(list, i, j)
    BY <1>3, <2>1, <2>2, <2>3 DEF Carries, n
  <2>5. CASE j = n
    BY <1>1, <2>1, <2>4, <2>5
  <2>6. CASE j # n
    <3>1. j < n /\ j + 1 \in 1..n
      BY <1>1, <2>2, <2>6
    <3> QED
      BY <1>1, <2>1, <2>4, <3>1 DEF Ended, n
  <2> QED
    BY <2>5, <2>6
<1>5. ASSUME Carries(list, i, j)
      PROVE  Carries(new, i, j) /\ i \in 1..n /\ j \in i..n
  <2>1. i \in 1..n /\ j \in i..n
    BY <1>2, <1>5 DEF Carries, n
  <2>2. \A k \in i..j : k \in 1..n /\ new[k].requested
    BY <1>1, <1>5, <2>1 DEF Carries
  <2>3. j \in i..Len(new)
    BY <1>1, <2>1
  <2> QED
    BY <1>3, <1>5, <2>1, <2>2, <2>3 DEF Carries
<1>6. ASSUME Ended(list, i, j) PROVE Ended(new, i, j)
  <2>1. Carries(list, i, j) /\ j < n /\ ~list[j + 1].requested
    BY <1>6 DEF Ended, n
  <2>2. Carries(new, i, j) /\ i \in 1..n /\ j \in i..n
    BY <1>5, <2>1
  <2>3. j + 1 \in 1..n /\ j < Len(new)
    BY <1>1, <2>1, <2>2
  <2> QED
    BY <1>1, <2>1, <2>2, <2>3 DEF Ended
<1>7. ASSUME j = n, Carries(list, i, j), ~row.requested PROVE Ended(new, i, j)
  BY <1>1, <1>5, <1>7 DEF Ended
<1> QED
  BY <1>4, <1>6, <1>7 DEF n

-----------------------------------------------------------------------------
(* The recovery report: the loops that read the file front to back.        *)

PassType == [count: Nat, previous: BOOLEAN, start: Int, now: Nat, longest: Nat]

\* What the loops carry after a list of rows: the number of stretches, whether
\* the last row carries the request and since when it has been carried, and the
\* longest stretch that ended.
PassOf(p, list) ==
  /\ p \in PassType
  /\ IsFiniteSet(Starts(list)) /\ p.count = Cardinality(Starts(list))
  /\ p.previous = (Len(list) > 0 /\ list[Len(list)].requested)
  /\ Len(list) > 0 => p.now = list[Len(list)].stamp
  /\ p.start >= 0 <=> p.previous
  /\ p.previous => \E i \in Starts(list) :
                     Carries(list, i, Len(list)) /\ p.start = list[i].stamp
  /\ \A i, j \in 1..Len(list) :
       Ended(list, i, j) => list[j].stamp - list[i].stamp <= p.longest
  /\ \/ p.longest = 0
     \/ \E i, j \in 1..Len(list) :
          Ended(list, i, j) /\ p.longest = list[j].stamp - list[i].stamp

LEMMA PassOfNothing == PassOf(PassStart, <<>>)
<1>1. Len(<<>>) = 0
  OBVIOUS
<1>2. Starts(<<>>) = {}
  BY <1>1 DEF Starts
<1>3. IsFiniteSet({}) /\ Cardinality({}) = 0
  BY FS_EmptySet
<1>4. /\ PassStart \in PassType /\ PassStart.count = 0 /\ PassStart.previous = FALSE
      /\ PassStart.start = -1 /\ PassStart.longest = 0
  BY DEF PassStart, PassType
<1>5. ~(-1 >= 0) /\ 1..0 = {}
  OBVIOUS
<1>6. ~(Len(<<>>) > 0) /\ 1..Len(<<>>) = {}
  BY <1>1, <1>5
<1> DEFINE none == <<>>
<1> HIDE DEF none
<1>7. /\ Starts(none) = {} /\ ~(Len(none) > 0) /\ 1..Len(none) = {}
  BY <1>2, <1>6 DEF none
<1>8. PassOf(PassStart, none)
  BY <1>3, <1>4, <1>5, <1>7 DEF PassOf
<1> QED
  BY <1>8 DEF none

\* The open stretch is the one whose length LongestWith takes into account.
LEMMA LongestType ==
  ASSUME NEW p \in PassType
  PROVE  /\ LongestWith(p) \in Nat /\ p.longest <= LongestWith(p)
         /\ p.start >= 0 => p.now - p.start <= LongestWith(p)
         /\ \/ LongestWith(p) = p.longest
            \/ p.start >= 0 /\ LongestWith(p) = p.now - p.start
<1>1. p.start \in Int /\ p.now \in Nat /\ p.longest \in Nat
  BY DEF PassType
<1>2. CASE p.start >= 0 /\ p.now - p.start > p.longest
  BY <1>1, <1>2 DEF LongestWith
<1>3. CASE ~(p.start >= 0 /\ p.now - p.start > p.longest)
  BY <1>1, <1>3 DEF LongestWith
<1> QED
  BY <1>2, <1>3

LEMMA PassOfMore ==
  ASSUME NEW list, NEW new, NEW row, Longer(list, new, row), NEW p, PassOf(p, list)
  PROVE  PassOf(Advanced(p, row), new)
<1> DEFINE n == Len(list)
           late == row.requested /\ ~p.previous
           q == Advanced(p, row)
           count == p.count + (IF late THEN 1 ELSE 0)
           start == IF ~row.requested THEN -1 ELSE IF p.start < 0 THEN row.stamp ELSE p.start
           longest == IF row.requested THEN p.longest ELSE LongestWith(p)
<1>1. /\ n \in Nat /\ Len(new) = n + 1 /\ new[n + 1] = row
      /\ \A k \in 1..n : new[k] = list[k]
      /\ row.requested \in BOOLEAN /\ row.stamp \in Nat
  BY DEF Longer, RowType
<1>2. /\ p.count \in Nat /\ p.previous \in BOOLEAN /\ p.start \in Int
      /\ p.now \in Nat /\ p.longest \in Nat
  BY DEF PassOf, PassType
<1>3. \A k \in 1..n : list[k].stamp \in Nat /\ list[k].requested \in BOOLEAN
  BY RowAt DEF Longer
<1>4. /\ LongestWith(p) \in Nat /\ p.longest <= LongestWith(p)
      /\ p.start >= 0 => p.now - p.start <= LongestWith(p)
      /\ \/ LongestWith(p) = p.longest
         \/ p.start >= 0 /\ LongestWith(p) = p.now - p.start
  BY LongestType DEF PassOf
<1>5. count \in Nat /\ start \in Int /\ longest \in Nat
  BY <1>1, <1>2, <1>4
<1>6. /\ q = [count |-> count, previous |-> row.requested, start |-> start,
              now |-> row.stamp, longest |-> longest]
      /\ q \in PassType
  BY <1>1, <1>5 DEF Advanced, PassType
<1>7. /\ q.count = count /\ q.previous = row.requested /\ q.start = start
      /\ q.now = row.stamp /\ q.longest = longest
  BY <1>6
<1>8. /\ p.previous = (n > 0 /\ list[n].requested)
      /\ n > 0 => p.now = list[n].stamp
      /\ p.start >= 0 <=> p.previous
      /\ p.previous => \E i \in Starts(list) :
                         Carries(list, i, n) /\ p.start = list[i].stamp
      /\ \A i, j \in 1..n : Ended(list, i, j) => list[j].stamp - list[i].stamp <= p.longest
      /\ \/ p.longest = 0
         \/ \E i, j \in 1..n :
              Ended(list, i, j) /\ p.longest = list[j].stamp - list[i].stamp
      /\ IsFiniteSet(Starts(list)) /\ p.count = Cardinality(Starts(list))
  BY DEF PassOf
<1>9. Starts(list) \subseteq 1..n
  BY DEF Starts
<1>10. \A i, j : Ended(new, i, j) <=>
                   Ended(list, i, j) \/ (j = n /\ Carries(list, i, j) /\ ~row.requested)
  BY EndedLonger
<1>11. Starts(new) = Starts(list) \cup IF late THEN {n + 1} ELSE {}
  BY <1>8, StartsLonger
<1> HIDE DEF n, q
<1>12. IsFiniteSet(Starts(new)) /\ count = Cardinality(Starts(new))
  <2>1. CASE late
    <3>1. n + 1 \notin Starts(list)
      BY <1>1, <1>9
    <3>2. Starts(new) = Starts(list) \cup {n + 1}
      BY <1>11, <2>1
    <3> HIDE DEF late
    <3>3. /\ IsFiniteSet(Starts(list) \cup {n + 1})
          /\ Cardinality(Starts(list) \cup {n + 1}) = Cardinality(Starts(list)) + 1
      BY <1>8, <3>1, FS_AddElement
    <3> QED
      BY <1>8, <2>1, <3>2, <3>3
  <2>2. CASE ~late
    <3>1. Starts(new) = Starts(list)
      BY <1>11, <2>2
    <3> QED
      BY <1>2, <1>8, <2>2, <3>1
  <2> QED
    BY <2>1, <2>2
<1>13. row.requested = (Len(new) > 0 /\ new[Len(new)].requested)
       /\ row.stamp = new[Len(new)].stamp
  BY <1>1
<1>14. start >= 0 <=> row.requested
  BY <1>1, <1>2
\* The stretch that is open at the new row.
<1>15. ASSUME row.requested
       PROVE  \E i \in Starts(new) : Carries(new, i, Len(new)) /\ start = new[i].stamp
  <2>1. CASE p.previous
    <3>1. PICK i \in Starts(list) : Carries(list, i, n) /\ p.start = list[i].stamp
      BY <1>8, <2>1
    <3>2. i \in Starts(new) /\ i \in 1..n
      BY <1>9, <1>11, <3>1
    <3>3. \A k \in i..n : k \in 1..n /\ list[k].requested
      BY <1>1, <3>1, <3>2 DEF Carries
    <3>4. \A k \in i..(n + 1) : k = n + 1 \/ k \in i..n
      BY <1>1, <3>2
    <3>5. \A k \in i..(n + 1) : new[k].requested
      BY <1>1, <1>15, <3>3, <3>4
    <3>6. Len(new) \in i..Len(new)
      BY <1>1, <3>2
    <3>7. Carries(new, i, Len(new))
      BY <1>1, <3>2, <3>5, <3>6 DEF Carries
    <3>8. start = new[i].stamp
      BY <1>1, <1>2, <1>8, <1>15, <2>1, <3>1, <3>2
    <3> QED
      BY <3>2, <3>7, <3>8
  <2>2. CASE ~p.previous
    <3>1. n + 1 \in Starts(new)
      BY <1>11, <1>15, <2>2
    <3>2. \A k \in (n + 1)..Len(new) : k = n + 1
      BY <1>1
    <3>3. Carries(new, n + 1, Len(new))
      BY <1>1, <1>15, <3>1, <3>2 DEF Carries
    <3>4. start = row.stamp
      BY <1>2, <1>8, <1>15, <2>2
    <3> QED
      BY <1>1, <3>1, <3>3, <3>4
  <2> QED
    BY <1>2, <2>1, <2>2
\* The stretch the new row ends is the one that was open.
<1>16. ASSUME NEW i, Carries(list, i, n), ~row.requested
       PROVE  p.start >= 0 /\ list[n].stamp - list[i].stamp = p.now - p.start
              /\ i \in 1..n /\ n \in 1..n
  <2>1. i \in 1..n /\ n \in i..n
    BY <1>9, <1>16 DEF Carries, n
  <2>2. n > 0 /\ list[n].requested
    BY <1>1, <1>16, <2>1 DEF Carries
  <2>3. PICK k \in Starts(list) : Carries(list, k, n) /\ p.start = list[k].stamp
    BY <1>8, <2>2
  <2>4. i = k
    BY <1>1, <1>16, <2>3, OneStart DEF n
  <2>5. p.previous /\ p.now = list[n].stamp
    BY <1>8, <2>2
  <2>6. p.start >= 0
    BY <1>8, <2>5
  <2> QED
    BY <1>1, <2>1, <2>3, <2>4, <2>5, <2>6
<1>17. ASSUME NEW i \in 1..Len(new), NEW j \in 1..Len(new), Ended(new, i, j)
       PROVE  new[j].stamp - new[i].stamp <= longest
  <2>1. CASE Ended(list, i, j)
    <3>1. i \in 1..n /\ j \in 1..n
      BY <1>1, <1>9, <1>17, <2>1 DEF Ended, Carries, n
    <3>2. list[j].stamp - list[i].stamp <= p.longest
      BY <1>8, <2>1, <3>1
    <3>3. p.longest <= longest
      BY <1>2, <1>4
    <3>4. list[j].stamp - list[i].stamp \in Int /\ p.longest \in Int /\ longest \in Int
      BY <1>3, <1>2, <1>5, <3>1
    <3> HIDE DEF longest
    <3> QED
      BY <1>1, <3>1, <3>2, <3>3, <3>4
  <2>2. CASE j = n /\ Carries(list, i, j) /\ ~row.requested
    <3>1. p.start >= 0 /\ list[n].stamp - list[i].stamp = p.now - p.start
          /\ i \in 1..n /\ n \in 1..n
      BY <1>16, <2>2
    <3>2. longest = LongestWith(p)
      BY <2>2
    <3> QED
      BY <1>1, <1>4, <2>2, <3>1, <3>2
  <2> QED
    BY <1>10, <1>17, <2>1, <2>2
<1>18. \/ longest = 0
       \/ \E i, j \in 1..Len(new) :
            Ended(new, i, j) /\ longest = new[j].stamp - new[i].stamp
  <2>1. CASE longest = p.longest
    <3> SUFFICES ASSUME p.longest # 0
                 PROVE  \E i, j \in 1..Len(new) :
                          Ended(new, i, j) /\ longest = new[j].stamp - new[i].stamp
      BY <2>1
    <3>1. PICK i \in 1..n, j \in 1..n :
                 Ended(list, i, j) /\ p.longest = list[j].stamp - list[i].stamp
      BY <1>8
    <3>2. i \in 1..Len(new) /\ j \in 1..Len(new) /\ Ended(new, i, j)
      BY <1>1, <1>10, <3>1
    <3>3. longest = new[j].stamp - new[i].stamp
      BY <1>1, <2>1, <3>1
    <3> QED
      BY <3>2, <3>3
  <2>2. CASE longest # p.longest
    <3>1. ~row.requested /\ p.start >= 0 /\ longest = p.now - p.start
      BY <1>1, <1>4, <2>2
    <3>2. PICK i \in Starts(list) : Carries(list, i, n) /\ p.start = list[i].stamp
      BY <1>8, <3>1
    <3>3. /\ list[n].stamp - list[i].stamp = p.now - p.start
          /\ i \in 1..n /\ n \in 1..n
      BY <1>16, <3>1, <3>2
    <3>4. Ended(new, i, n)
      BY <1>10, <3>1, <3>2
    <3>5. i \in 1..Len(new) /\ n \in 1..Len(new) /\ longest = new[n].stamp - new[i].stamp
      BY <1>1, <3>1, <3>3
    <3> QED
      BY <3>4, <3>5
  <2> QED
    BY <2>1, <2>2
<1> HIDE DEF count, start, longest
<1> QED
  BY <1>1, <1>6, <1>7, <1>12, <1>13, <1>14, <1>15, <1>17, <1>18 DEF PassOf, q

-----------------------------------------------------------------------------
(* The recovery report: the invariant.                                     *)

ReportInv == WindowInv /\ Ordered(rows) /\ PassOf(pass, rows)

LEMMA ReportStarts == ReportInit => ReportInv
<1> SUFFICES ASSUME ReportInit PROVE ReportInv
  OBVIOUS
<1>1. rows = <<>> /\ pass = PassStart /\ Len(rows) = 0
  BY DEF ReportInit
<1>2. Ordered(rows)
  BY <1>1 DEF Ordered
<1> QED
  BY <1>1, <1>2, WindowStarts, PassOfNothing DEF ReportInv

LEMMA StatusKeepsRows ==
  ASSUME ReportInv, Status
  PROVE  Ordered(rows') /\ PassOf(pass', rows')
<1>1. PICK kind \in RowKinds :
        rows' = Append(rows, Recorded(kind)) /\ pass' = Advanced(pass, Recorded(kind))
  BY DEF Status
<1> DEFINE row == Recorded(kind)
           n == Len(rows)
<1>2. /\ rows \in Seq(RowType) /\ row \in RowType
      /\ rows # <<>> => rows[n].stamp < row.stamp
  BY RecordedType DEF ReportInv, WindowInv, ReportTypes
<1> HIDE DEF row
<1>3. /\ rows' \in Seq(RowType) /\ n \in Nat /\ Len(rows') = n + 1
      /\ \A i \in 1..n : rows'[i] = rows[i]
      /\ rows'[n + 1] = row
  BY <1>1, <1>2, AppendedAt DEF row
<1>4. PassOf(pass', rows')
  <2>1. Longer(rows, rows', row)
    BY <1>2, <1>3 DEF Longer
  <2>2. pass' = Advanced(pass, row) /\ PassOf(pass, rows)
    BY <1>1 DEF row, ReportInv
  <2> QED
    BY <2>1, <2>2, PassOfMore
<1>5. ASSUME NEW i \in 1..Len(rows'), NEW j \in 1..Len(rows'), i < j
      PROVE  rows'[i].stamp < rows'[j].stamp
  <2>1. i \in 1..n
    BY <1>3, <1>5
  <2>2. CASE j = n + 1
    <3>1. n \in 1..n /\ rows # <<>>
      BY <1>3, <2>1
    <3>2. rows[i].stamp <= rows[n].stamp
      <4>1. CASE i = n
        BY <1>2, <2>1, <4>1, RowAt
      <4>2. CASE i # n
        <5>1. rows[i].stamp < rows[n].stamp
          BY <1>3, <2>1, <3>1, <4>2 DEF ReportInv, Ordered
        <5> QED
          BY <1>2, <2>1, <3>1, <5>1, RowAt
      <4> QED
        BY <4>1, <4>2
    <3>3. rows[i].stamp \in Nat /\ rows[n].stamp \in Nat /\ row.stamp \in Nat
      BY <1>2, <2>1, <3>1, RowAt DEF RowType
    <3> QED
      BY <1>2, <1>3, <2>1, <2>2, <3>1, <3>2, <3>3
  <2>3. CASE j # n + 1
    <3>1. j \in 1..n
      BY <1>3, <2>3
    <3> QED
      BY <1>3, <1>5, <2>1, <3>1 DEF ReportInv, Ordered
  <2> QED
    BY <2>2, <2>3
<1> QED
  BY <1>4, <1>5 DEF Ordered

LEMMA ReportKeeps ==
  ASSUME ReportInv, [ReportNext]_reportVars
  PROVE  ReportInv'
<1>1. WindowInv'
  BY WindowKeeps DEF ReportInv
<1>2. CASE Status
  BY <1>1, <1>2, StatusKeepsRows DEF ReportInv
<1>3. CASE ~Status
  <2>1. UNCHANGED <<rows, pass>>
    BY <1>3 DEF ReportNext, RequestHeard, Tick, reportVars
  <2> QED
    BY <1>1, <2>1 DEF ReportInv
<1> QED
  BY <1>2, <1>3

-----------------------------------------------------------------------------
(* The recovery report: the graders agree on the rows.                     *)

\* The least index with a property, and none when there is none.
LEMMA FirstIs ==
  ASSUME NEW indices, indices \subseteq Nat \ {0}
  PROVE  /\ indices = {} => First(indices) = NoRow
         /\ indices # {} => /\ First(indices) \in indices
                            /\ \A j \in indices : First(indices) <= j
         /\ First(indices) # NoRow <=> indices # {}
<1>1. CASE indices = {}
  BY <1>1 DEF First
<1>2. CASE indices # {}
  <2>1. \E i \in indices : \A j \in indices : i <= j
    BY <1>2, LeastIndex
  <2>2. First(indices) \in indices /\ \A j \in indices : First(indices) <= j
    BY <1>2, <2>1 DEF First
  <2> QED
    BY <1>2, <2>2 DEF NoRow
<1> QED
  BY <1>1, <1>2

\* A row of the file, by number.
LEMMA RowHas ==
  ASSUME ReportInv
  PROVE  /\ Len(rows) \in Nat
         /\ \A i \in 1..Len(rows) : /\ StampAt(i) \in Nat
                                    /\ rows[i].requested \in BOOLEAN /\ rows[i].ok \in BOOLEAN
         /\ \A i, j \in 1..Len(rows) : i < j => StampAt(i) < StampAt(j)
         /\ \A i, j \in 1..Len(rows) : i <= j => StampAt(i) <= StampAt(j)
<1>1. rows \in Seq(RowType)
  BY DEF ReportInv, WindowInv, ReportTypes
<1>2. \A i \in 1..Len(rows) : /\ StampAt(i) \in Nat
                              /\ rows[i].requested \in BOOLEAN /\ rows[i].ok \in BOOLEAN
  BY <1>1, RowAt DEF StampAt
<1>3. \A i, j \in 1..Len(rows) : i < j => StampAt(i) < StampAt(j)
  BY DEF ReportInv, Ordered, StampAt
<1>4. ASSUME NEW i \in 1..Len(rows), NEW j \in 1..Len(rows), i <= j
      PROVE  StampAt(i) <= StampAt(j)
  <2>1. i < j \/ i = j
    BY <1>1, <1>4, LenProperties
  <2> QED
    BY <1>2, <1>3, <2>1
<1> QED
  BY <1>1, <1>2, <1>3, <1>4, LenProperties

\* A segment is a stretch that cannot be longer, and every stretch is in one.
LEMMA SegmentIs ==
  ASSUME ReportInv, NEW s \in Segments
  PROVE  /\ s = [first |-> s.first, last |-> s.last]
         /\ s.first \in 1..Len(rows) /\ s.last \in s.first..Len(rows)
         /\ s.last \in 1..Len(rows) /\ s.first <= s.last
         /\ \A k \in s.first..s.last : rows[k].requested
         /\ Carries(rows, s.first, s.last)
         /\ s.last = Len(rows) \/ Ended(rows, s.first, s.last)
<1>1. /\ s \in [first : 1..Len(rows), last : 1..Len(rows)] /\ s.first <= s.last
      /\ \A k \in s.first..s.last : rows[k].requested
      /\ s.first = 1 \/ ~rows[s.first - 1].requested
      /\ s.last = Len(rows) \/ ~rows[s.last + 1].requested
  BY DEF Segments
<1>2. Len(rows) \in Nat
  BY RowHas
<1>3. /\ s = [first |-> s.first, last |-> s.last]
      /\ s.first \in 1..Len(rows) /\ s.last \in s.first..Len(rows)
      /\ s.last \in 1..Len(rows)
  BY <1>1, <1>2
<1>4. s.first \in Starts(rows)
  <2>1. s.first \in s.first..s.last
    BY <1>1, <1>2, <1>3
  <2> QED
    BY <1>1, <1>3, <2>1 DEF Starts
<1>5. Carries(rows, s.first, s.last)
  BY <1>1, <1>3, <1>4 DEF Carries
<1>6. s.last # Len(rows) => s.last < Len(rows)
  BY <1>2, <1>3
<1> QED
  BY <1>1, <1>3, <1>5, <1>6 DEF Ended

LEMMA SegmentFrom ==
  ASSUME ReportInv, NEW i \in Starts(rows)
  PROVE  \E s \in Segments : s.first = i
<1>1. Len(rows) \in Nat /\ i \in 1..Len(rows) /\ rows[i].requested
  BY RowHas DEF Starts
<1> DEFINE Lasts == {j \in i..Len(rows) : j = Len(rows) \/ ~rows[j + 1].requested}
<1>2. Lasts \subseteq Nat /\ Len(rows) \in Lasts
  BY <1>1
<1>3. PICK j \in Lasts : \A k \in Lasts : j <= k
  BY <1>2, LeastIndex
<1>4. j \in i..Len(rows) /\ (j = Len(rows) \/ ~rows[j + 1].requested)
  BY <1>3
<1>5. \A k \in i..j : rows[k].requested
  <2> TAKE k \in i..j
  <2>1. CASE k = i
    BY <1>1, <2>1
  <2>2. CASE k # i
    <3>1. k - 1 \in i..Len(rows) /\ ~(j <= k - 1) /\ k - 1 # Len(rows)
      BY <1>1, <1>4, <2>2
    <3>2. k - 1 \notin Lasts
      BY <1>3, <3>1
    <3>3. rows[(k - 1) + 1].requested
      BY <3>1, <3>2
    <3>4. (k - 1) + 1 = k
      BY <1>1, <1>4
    <3> QED
      BY <3>3, <3>4
  <2> QED
    BY <2>1, <2>2
<1> DEFINE s == [first |-> i, last |-> j]
<1>6. s \in [first : 1..Len(rows), last : 1..Len(rows)] /\ s.first = i /\ s.last = j /\ i <= j
  BY <1>1, <1>4
<1>7. i = 1 \/ ~rows[i - 1].requested
  BY DEF Starts
<1> HIDE DEF s
<1>8. s \in Segments
  BY <1>4, <1>5, <1>6, <1>7 DEF Segments
<1> QED
  BY <1>6, <1>8

\* Two segments that start together are the same.
LEMMA SegmentByStart ==
  ASSUME ReportInv, NEW s \in Segments, NEW t \in Segments, s.first = t.first
  PROVE  s = t
<1>1. ASSUME NEW u \in Segments, NEW v \in Segments, u.first = v.first
      PROVE  ~(u.last < v.last)
  <2> SUFFICES ASSUME u.last < v.last PROVE FALSE
    OBVIOUS
  <2>1. /\ Len(rows) \in Nat /\ u.last \in 1..Len(rows) /\ v.last \in 1..Len(rows)
        /\ u.first <= u.last /\ u.first \in 1..Len(rows)
    BY RowHas, SegmentIs
  <2>2. u.last # Len(rows) /\ u.last + 1 \in v.first..v.last
    BY <1>1, <2>1
  <2>3. ~rows[u.last + 1].requested
    BY <2>2 DEF Segments
  <2>4. rows[u.last + 1].requested
    BY <2>2, SegmentIs
  <2> QED
    BY <2>3, <2>4
<1>2. s.last \in Nat /\ t.last \in Nat
  BY SegmentIs
<1>3. s.last = t.last
  BY <1>1, <1>2
<1>4. s = [first |-> s.first, last |-> s.last] /\ t = [first |-> t.first, last |-> t.last]
  BY SegmentIs
<1> QED
  BY <1>3, <1>4

LEMMA SegmentAround ==
  ASSUME ReportInv, NEW i \in 1..Len(rows), rows[i].requested
  PROVE  \E s \in Segments : s.first <= i /\ i <= s.last
<1>0. Len(rows) \in Nat
  BY RowHas
<1> DEFINE Back == {n \in 0..(i - 1) : i - n = 1 \/ ~rows[i - n - 1].requested}
<1>1. Back \subseteq Nat /\ i - 1 \in Back
  BY <1>0
<1>2. PICK n \in Back : \A m \in Back : n <= m
  BY <1>1, LeastIndex
<1> DEFINE first == i - n
<1>3. /\ n \in 0..(i - 1) /\ first \in 1..i
      /\ first = 1 \/ ~rows[first - 1].requested
  BY <1>0, <1>2
<1>4. \A k \in first..i : rows[k].requested
  <2> TAKE k \in first..i
  <2>1. CASE k = i
    BY <2>1
  <2>2. CASE k # i
    <3>1. i - k - 1 \in 0..(i - 1) /\ ~(n <= i - k - 1)
      BY <1>0, <1>3, <2>2
    <3>2. i - k - 1 \notin Back
      BY <1>2, <3>1
    <3>3. i - (i - k - 1) - 1 = k
      BY <1>0, <1>3
    <3> QED
      BY <3>1, <3>2, <3>3
  <2> QED
    BY <2>1, <2>2
<1> HIDE DEF first
<1>5. first \in Starts(rows)
  <2>1. first \in first..i /\ first \in 1..Len(rows)
    BY <1>0, <1>3
  <2> QED
    BY <1>3, <1>4, <2>1 DEF Starts
<1>6. PICK s \in Segments : s.first = first
  BY <1>5, SegmentFrom
<1>7. i <= s.last
  <2> SUFFICES ASSUME s.last < i PROVE FALSE
    <3>1. s.last \in Nat
      BY SegmentIs
    <3> QED
      BY <1>0, <3>1
  <2>1. s.last \in 1..Len(rows) /\ s.first <= s.last
    BY SegmentIs
  <2>2. s.last + 1 \in first..i /\ s.last # Len(rows)
    BY <1>0, <1>3, <1>6, <2>1
  <2>3. rows[s.last + 1].requested
    BY <1>4, <2>2
  <2>4. ~rows[s.last + 1].requested
    BY <2>2 DEF Segments
  <2> QED
    BY <2>3, <2>4
<1> QED
  BY <1>0, <1>3, <1>6, <1>7

\* There are as many segments as transitions (summarize_alignment counts one,
\* _segment_rows the other).
LEMMA SegmentsAreCounted ==
  ASSUME ReportInv
  PROVE  IsFiniteSet(Segments) /\ Transitions = Cardinality(Segments)
<1> DEFINE f == [i \in Starts(rows) |-> CHOOSE s \in Segments : s.first = i]
<1>1. \A i \in Starts(rows) : f[i] \in Segments /\ f[i].first = i
  BY SegmentFrom
<1>2. f \in [Starts(rows) -> Segments]
  BY <1>1
<1>3. \A i, j \in Starts(rows) : f[i] = f[j] => i = j
  BY <1>1
<1>4. \A s \in Segments : \E i \in Starts(rows) : f[i] = s
  <2> TAKE s \in Segments
  <2>1. s.first \in Starts(rows)
    BY SegmentIs DEF Carries
  <2>2. f[s.first] = s
    BY <1>1, <2>1, SegmentByStart
  <2> QED
    BY <2>1, <2>2
<1> HIDE DEF f
<1>5. f \in Bijection(Starts(rows), Segments)
  BY <1>2, <1>3, <1>4 DEF Bijection, Injection, Surjection, IsInjective
<1>6. ExistsBijection(Starts(rows), Segments)
  BY <1>5 DEF ExistsBijection
<1>7. IsFiniteSet(Starts(rows)) /\ pass.count = Cardinality(Starts(rows))
  BY DEF ReportInv, PassOf
<1> QED
  BY <1>6, <1>7, FS_Bijection DEF Transitions

\* The longest loss is the longest segment (_longest_true_window of the health
\* checker, duration_sec of the window summaries).
LEMMA LongestIsLongest ==
  ASSUME ReportInv
  PROVE  /\ \A s \in Segments : Duration(s) <= LongestLost
         /\ Segments # {} => \E s \in Segments : Duration(s) = LongestLost
<1> DEFINE n == Len(rows)
<1>1. /\ n \in Nat
      /\ \A i \in 1..n : StampAt(i) \in Nat
      /\ \A i, j \in 1..n : i <= j => StampAt(i) <= StampAt(j)
  BY RowHas
<1>2. /\ LongestLost \in Nat /\ pass.longest <= LongestLost
      /\ pass.start >= 0 => pass.now - pass.start <= LongestLost
      /\ \/ LongestLost = pass.longest
         \/ pass.start >= 0 /\ LongestLost = pass.now - pass.start
      /\ pass.longest \in Nat
  BY LongestType DEF LongestLost, ReportInv, PassOf, PassType
<1>3. /\ pass.previous = (n > 0 /\ rows[n].requested)
      /\ n > 0 => pass.now = StampAt(n)
      /\ pass.start >= 0 <=> pass.previous
      /\ pass.previous => \E i \in Starts(rows) :
                            Carries(rows, i, n) /\ pass.start = StampAt(i)
      /\ \A i, j \in 1..n : Ended(rows, i, j) => StampAt(j) - StampAt(i) <= pass.longest
      /\ \/ pass.longest = 0
         \/ \E i, j \in 1..n :
              Ended(rows, i, j) /\ pass.longest = StampAt(j) - StampAt(i)
  BY DEF ReportInv, PassOf, StampAt
<1>4. ASSUME NEW s \in Segments
      PROVE  Duration(s) \in Nat /\ Duration(s) <= LongestLost
  <2>1. /\ s.first \in 1..n /\ s.last \in 1..n /\ s.first <= s.last
        /\ Carries(rows, s.first, s.last)
        /\ s.last = n \/ Ended(rows, s.first, s.last)
        /\ s.last \in s.first..s.last /\ rows[s.last].requested
    <3>1. /\ s.first \in 1..n /\ s.last \in 1..n /\ s.first <= s.last
          /\ Carries(rows, s.first, s.last)
          /\ s.last = n \/ Ended(rows, s.first, s.last)
          /\ \A k \in s.first..s.last : rows[k].requested
      BY SegmentIs
    <3>2. s.last \in s.first..s.last
      BY <3>1
    <3> QED
      BY <3>1, <3>2
  <2>2. StampAt(s.first) \in Nat /\ StampAt(s.last) \in Nat
        /\ StampAt(s.first) <= StampAt(s.last)
    BY <1>1, <2>1
  <2>3. Duration(s) = StampAt(s.last) - StampAt(s.first)
    BY DEF Duration
  <2>4. CASE Ended(rows, s.first, s.last)
    <3>1. StampAt(s.last) - StampAt(s.first) <= pass.longest
      BY <1>3, <2>1, <2>4
    <3> QED
      BY <1>2, <2>2, <2>3, <3>1
  <2>5. CASE s.last = n
    <3>1. n > 0 /\ rows[n].requested
      BY <1>1, <2>1, <2>5
    <3>2. pass.previous /\ pass.start >= 0 /\ pass.now = StampAt(n)
      BY <1>3, <3>1
    <3>3. PICK i \in Starts(rows) : Carries(rows, i, n) /\ pass.start = StampAt(i)
      BY <1>3, <3>2
    <3>4. i = s.first
      BY <1>1, <2>1, <2>5, <3>3, OneStart
    <3> QED
      BY <1>2, <2>2, <2>3, <2>5, <3>2, <3>3, <3>4
  <2> QED
    BY <2>1, <2>4, <2>5
\* Every stretch that cannot be longer is a segment.
<1>5. ASSUME NEW i, NEW j, Carries(rows, i, j), j = n \/ Ended(rows, i, j)
      PROVE  /\ [first |-> i, last |-> j] \in Segments
             /\ Duration([first |-> i, last |-> j]) = StampAt(j) - StampAt(i)
  <2> DEFINE s == [first |-> i, last |-> j]
  <2>1. /\ i \in 1..n /\ j \in i..n /\ (i = 1 \/ ~rows[i - 1].requested)
        /\ \A k \in i..j : rows[k].requested
        /\ j = n \/ ~rows[j + 1].requested
    BY <1>5 DEF Carries, Starts, Ended
  <2>2. s \in [first : 1..n, last : 1..n] /\ s.first = i /\ s.last = j /\ i <= j
    BY <1>1, <2>1
  <2> HIDE DEF s
  <2>3. s \in Segments
    BY <2>1, <2>2 DEF Segments
  <2>4. Duration(s) = StampAt(j) - StampAt(i)
    BY <2>2 DEF Duration
  <2> QED
    BY <2>3, <2>4 DEF s
<1>6. ASSUME Segments # {}
      PROVE  \E s \in Segments : Duration(s) = LongestLost
  <2>1. CASE pass.start >= 0 /\ LongestLost = pass.now - pass.start
    <3>1. pass.previous /\ n > 0 /\ pass.now = StampAt(n)
      BY <1>3, <2>1
    <3>2. PICK i \in Starts(rows) : Carries(rows, i, n) /\ pass.start = StampAt(i)
      BY <1>3, <3>1
    <3> QED
      BY <1>5, <2>1, <3>1, <3>2
  <2>2. CASE LongestLost = pass.longest /\ pass.longest # 0
    <3>1. PICK i \in 1..n, j \in 1..n :
                 Ended(rows, i, j) /\ pass.longest = StampAt(j) - StampAt(i)
      BY <1>3, <2>2
    <3>2. Carries(rows, i, j)
      BY <3>1 DEF Ended
    <3> QED
      BY <1>5, <2>2, <3>1, <3>2
  <2>3. CASE LongestLost = 0
    <3>1. PICK s \in Segments : TRUE
      BY <1>6
    <3>2. Duration(s) \in Nat /\ Duration(s) <= 0
      BY <1>4, <2>3
    <3>3. Duration(s) = 0
      BY <3>2
    <3> QED
      BY <2>3, <3>3
  <2> QED
    BY <1>2, <2>1, <2>2, <2>3
<1> QED
  BY <1>4, <1>6

\* A window the run comparison calls answered was answered by the same row for
\* the summary, unless that row came after the deadline.
LEMMA AnswersAgree ==
  ASSUME ReportInv, NEW s \in Segments, ComparedFirstOk(s) # NoRow
  PROVE  FirstOkAfter(s) \in {ComparedFirstOk(s), NoRow}
<1> DEFINE n == Len(rows)
           deadline == StampAt(s.first) + RecoveryWindow
           A == {i \in s.last + 1..n : rows[i].ok \/ rows[i].requested}
           B == {i \in s.last + 1..n : rows[i].ok /\ StampAt(i) <= deadline}
           a == First(A)
           b == First(B)
<1>1. /\ n \in Nat /\ s.last \in 1..n /\ s.first \in 1..n
      /\ \A i \in 1..n : StampAt(i) \in Nat
      /\ \A i, j \in 1..n : i <= j => StampAt(i) <= StampAt(j)
      /\ deadline \in Nat
  BY RowHas, SegmentIs, ReportAssumption
<1>2. A \subseteq Nat \ {0} /\ B \subseteq Nat \ {0}
  BY <1>1
<1>3. ComparedFirstOk(s) = a /\ a # NoRow /\ rows[a].ok /\ FirstOkAfter(s) = b
  BY DEF ComparedFirstOk, FirstOkAfter
<1> HIDE DEF a, b, A, B, deadline
<1>4. a \in A /\ \A j \in A : a <= j
  BY <1>2, <1>3, FirstIs DEF a
<1> SUFFICES ASSUME b # NoRow PROVE b = a
  BY <1>3
<1>5. b \in B /\ \A j \in B : b <= j
  BY <1>2, FirstIs DEF b
<1>6. b \in A /\ a \in 1..n /\ b \in 1..n
  BY <1>1, <1>4, <1>5 DEF A, B
<1>7. a <= b
  BY <1>4, <1>6
<1>8. StampAt(a) <= StampAt(b) /\ StampAt(b) <= deadline
  BY <1>1, <1>5, <1>6, <1>7 DEF B
<1>9. StampAt(a) <= deadline
  BY <1>1, <1>6, <1>8
<1>10. a \in B
  BY <1>3, <1>4, <1>9 DEF A, B
<1>11. b <= a
  BY <1>5, <1>10
<1> QED
  BY <1>1, <1>6, <1>7, <1>11

\* The rows that make a window recovered are ok rows after the first request.
LEMMA RecoveredRowsCount ==
  ASSUME ReportInv, NEW s \in Segments
  PROVE  StableOkRows(s) <= Cardinality(OkAfterTrigger)
<1> DEFINE n == Len(rows)
           start == FirstOkAfter(s)
           Bad == {i \in start..n : i >= 1 /\ ~rows[i].ok}
           stop == First(Bad)
           after == IF stop = NoRow THEN n + 1 ELSE stop
           Requests == {i \in 1..n : rows[i].requested}
           trigger == First(Requests)
<1>1. /\ n \in Nat /\ s.last \in 1..n /\ s.first \in 1..n /\ s.first <= s.last
      /\ \A i \in 1..n : StampAt(i) \in Nat
      /\ \A i, j \in 1..n : i < j => StampAt(i) < StampAt(j)
      /\ \A k \in s.first..s.last : rows[k].requested
  BY RowHas, SegmentIs
<1>2. IsFiniteSet(OkAfterTrigger) /\ Cardinality(OkAfterTrigger) \in Nat
  <2>1. OkAfterTrigger \in SUBSET (1..n)
    BY DEF OkAfterTrigger
  <2>2. IsFiniteSet(1..n)
    BY <1>1, FS_Interval
  <2> QED
    BY <2>1, <2>2, FS_Subset, FS_CardinalityType
<1>3. StableOkRows(s) = IF start = NoRow THEN 0 ELSE after - start
  BY DEF StableOkRows
<1>4. CASE start = NoRow
  BY <1>2, <1>3, <1>4
<1>5. CASE start # NoRow
  <2> DEFINE Ok == {i \in s.last + 1..n :
                      rows[i].ok /\ StampAt(i) <= StampAt(s.first) + RecoveryWindow}
  <2>1. Ok \subseteq Nat \ {0}
    BY <1>1
  <2>2. start = First(Ok)
    BY DEF FirstOkAfter
  <2> HIDE DEF Ok, start
  <2>3. start \in Ok
    BY <1>5, <2>1, <2>2, FirstIs
  <2>4. start \in s.last + 1..n /\ rows[start].ok
    BY <2>3 DEF Ok
  <2>5. Bad \subseteq Nat \ {0}
    BY <1>1, <2>4
  <2> HIDE DEF stop, Bad
  <2>6. /\ stop = NoRow => Bad = {}
        /\ stop # NoRow => stop \in Bad /\ \A j \in Bad : stop <= j
    BY <2>5, FirstIs DEF stop
  <2>7. after \in start..(n + 1) /\ \A i \in start..(after - 1) : i \in start..n /\ i \notin Bad
    <3>1. CASE stop = NoRow
      BY <1>1, <2>4, <2>6, <3>1
    <3>2. CASE stop # NoRow
      <4>1. stop \in start..n /\ \A j \in Bad : stop <= j
        BY <2>6, <3>2 DEF Bad
      <4> QED
        BY <1>1, <2>4, <3>2, <4>1
    <3> QED
      BY <3>1, <3>2
  <2> HIDE DEF after
  \* The first request is no later than the window's first row.
  <2>8. Requests \subseteq Nat \ {0} /\ s.first \in Requests
    <3>1. s.first \in s.first..s.last
      BY <1>1
    <3> QED
      BY <1>1, <3>1
  <2> HIDE DEF Requests, trigger
  <2>9. trigger # NoRow /\ trigger \in Requests /\ trigger <= s.first
    BY <2>8, FirstIs DEF trigger
  <2>10. trigger \in 1..n /\ trigger < start
    BY <1>1, <2>4, <2>9 DEF Requests
  <2>11. ASSUME NEW i \in start..(after - 1) PROVE i \in OkAfterTrigger
    <3>1. i \in start..n /\ i \notin Bad /\ i \in 1..n
      BY <1>1, <2>4, <2>7
    <3>2. rows[i].ok
      BY <1>1, <3>1 DEF Bad
    <3>3. StampAt(i) > StampAt(trigger)
      <4>1. trigger < i
        BY <1>1, <2>4, <2>10, <3>1
      <4> QED
        BY <1>1, <2>10, <3>1, <4>1
    <3> QED
      BY <2>9, <3>1, <3>2, <3>3 DEF OkAfterTrigger, trigger, Requests
  <2>12. start \in Int /\ after - 1 \in Int /\ start <= after /\ after \in Int
    BY <1>1, <2>4, <2>7
  <2>13. Cardinality(start..(after - 1)) = IF start > after - 1 THEN 0 ELSE (after - 1) - start + 1
    BY <2>12, FS_Interval
  <2>14. Cardinality(start..(after - 1)) = after - start
    BY <2>12, <2>13
  <2>15. Cardinality(start..(after - 1)) <= Cardinality(OkAfterTrigger)
    <3>1. start..(after - 1) \in SUBSET OkAfterTrigger
      BY <2>11
    <3> QED
      BY <1>2, <3>1, FS_Subset
  <2> QED
    BY <1>3, <1>5, <2>14, <2>15
<1> QED
  BY <1>4, <1>5

LEMMA GradersDoAgree == ReportInv => GradersAgree
<1> SUFFICES ASSUME ReportInv PROVE GradersAgree
  OBVIOUS
<1>1. IsFiniteSet(Segments) /\ Transitions = Cardinality(Segments)
  BY SegmentsAreCounted
<1>2. /\ \A s \in Segments : Duration(s) <= LongestLost
      /\ Segments # {} => \E s \in Segments : Duration(s) = LongestLost
  BY LongestIsLongest
<1>3. \A s \in Segments :
        ComparedFirstOk(s) # NoRow => FirstOkAfter(s) \in {ComparedFirstOk(s), NoRow}
  BY AnswersAgree
<1>4. \A s \in RecoveredWindows : StableOkRows(s) <= Cardinality(OkAfterTrigger)
  BY RecoveredRowsCount DEF RecoveredWindows
<1>5. ASSUME NEW i \in 1..Len(rows), rows[i].requested
      PROVE  WindowsOfAttempt(i) # {}
  <2>1. PICK s \in Segments : s.first <= i /\ i <= s.last
    BY <1>5, SegmentAround
  <2>2. s.first \in 1..Len(rows) /\ s.last \in 1..Len(rows)
    BY SegmentIs
  <2>3. /\ StampAt(i) \in Nat /\ StampAt(s.last) \in Nat /\ MatchWindow \in Nat
        /\ StampAt(s.first) \in Nat
        /\ StampAt(s.first) <= StampAt(i) /\ StampAt(i) <= StampAt(s.last)
    BY <2>1, <2>2, RowHas, ReportAssumption
  <2>4. StampAt(i) >= StampAt(s.first) /\ StampAt(i) <= StampAt(s.last) + MatchWindow
    BY <2>3
  <2> QED
    BY <2>4 DEF WindowsOfAttempt
<1>6. Cardinality(RecoveredWindows) <= Transitions
  <2>1. RecoveredWindows \in SUBSET Segments
    BY DEF RecoveredWindows
  <2> QED
    BY <1>1, <2>1, FS_Subset
<1> QED
  BY <1>1, <1>2, <1>3, <1>4, <1>5, <1>6 DEF GradersAgree

\* Every stable window the log claims was held, and the scripts that grade the
\* same rows agree (_update_stable_window_tracking of the supervisor node, the
\* four report scripts).
THEOREM ReportsAreRight == ReportSpec => []ReportsHold
<1>1. ReportInit => ReportInv
  BY ReportStarts
<1>2. ReportInv /\ [ReportNext]_reportVars => ReportInv'
  BY ReportKeeps
<1>3. ReportInv => ReportsHold
  BY WindowsAreHeld, GradersDoAgree DEF ReportInv, ReportsHold
<1> QED
  BY <1>1, <1>2, <1>3, PTL DEF ReportSpec
=============================================================================
