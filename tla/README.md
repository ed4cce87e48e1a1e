# A verification project for the lidar localization workspace

TLA+ models, model-checking runs and machine-checked proofs about the control
logic of this workspace: the code that decides *when* something may happen,
under callbacks that interleave, replies that are late or lost, timers, files
that outlive a process, and scripts that are run again. Numeric code
(registration, filtering, kinematics) is left to its tests; where the control
depends on it, its outcome is a free choice.

Source paths below are relative to the workspace's `src/` directory; `scripts/`
and `docs/` are those of `lidar_localization_ros2`.

## 1. Inventory

| Component | State it keeps | Operations | Talks to |
|---|---|---|---|
| **Supervisor policy** `scripts/reinitialization_supervisor_policy.py` | `SupervisorState`: phase, attempt counter, four times, ranked list and index, evidence, alias latch, bridge budget; velocity tracker; shadow gate | `decide(params, state, observation)`, 31 return statements; pose helpers | called by the node's timer |
| **Supervisor node** `scripts/reinitialization_supervisor_node.py` | request line, last fitness sample, candidate poses, one pending reply with its qualifiers, query bookkeeping, bridge history, event log | 4 subscriptions, service reply, timer | localizer (`/reinitialization_requested`, `/alignment_status`, `/initialpose`, odometry bridge), G2 |
| **Global localization (G2)** `scripts/global_localization_node.py`, `make_bbs_relocalization_attempts.py` | latest cloud, map pyramid | `~/query`, branch and bound | supervisor, startup node |
| **Localizer** `lidar_localization_ros2/src/lidar_localization_component.cpp` and its policy headers | pose, prediction, map/target, recovery state, request latch, pose generation | cloud, map, odometry, IMU, twist, `/initialpose`, publish timer, lifecycle; three executor threads, one recursive state mutex released during the alignment | everything above, Nav2 |
| **Startup initialization** `scripts/startup_initialization_node.py`, `quickstart_model.py` | phase, attempts, consensus, saved pose on disk with its map's identity | query, publish, verify, save | G2, localizer, the operator |
| **Republisher** `scripts/republish_initialpose_on_reinit.py` | request, last pose, burst and cooldown | request line, timer | localizer |
| **Bringup** `scripts/create_lidar_localization_config.py`, `quickstart.py`, `launch/*.launch.py`, `scripts/check_*bringup.py`, `validate_lidar_localization_imu.py` | a parameter file, a launch, a lifecycle node, the verdicts | generate, launch, transition, judge | localizer, robot description |
| **Relocalization pipeline** thirteen scripts from `make_*_relocalization_attempts.py` to `observe_relocalization_reset_execution.py` | csv and json files of earlier steps | one program per step, `--overwrite` | localizer, through `/initialpose` |
| **Acceptance** `run_koide_glil_tightly_coupled_matrix.py`, `run_koide_glim_odometry_benchmark.py`, `check_koide_odometry_completion.py`, `check_recovery_pose_gt.py` | an output directory per sequence | record, gate, judge, collect | each other, by exit codes and files |
| **IMU comparison** `run_lidar_localization_imu_comparison.py` | summary, validation, trajectory and comparison files | plan, run, resume, report | benchmark scripts |
| **Health reports** `check_koide_recovery_health.py`, `summarize_*.py`, `compare_nav2_reinit_supervisor_runs.py` | none: they read two logs | segment and grade | event log and alignment csv |
| **Velocity path** `isaac_go2_nav2/isaac_go2_nav2/` limiter, bridge, two controllers, two simulators | last command and feedback with their ages, last target | message callbacks, timer | Nav2, the robot |
| **Odometry chain** `fastlio_nav2_odom_filter.py`, `external_pose_map_corrector.py` | last accepted pose, correction | odometry, external pose, timer | FAST-LIO, Nav2 |
| **Goal clients** `send_nav2_goal.py`, `person_target_follower.py` | stage of five waits; last goal | wait, send, result | Nav2's action server |
| Sensor relays, dataset, report and demo scripts, Livox driver, FAST-LIO, NDT library, robot description | see section 6 | | |

### What is hard in them

* **Supervisor.** A guard whose bounds must not be reset by what they bound,
  over arbitrarily long mixtures of failed settles, ranked walks, alias rounds,
  self-cleared requests and bridge resets; evidence that may predate the reset
  it is evidence for; a service that is never cancelled and whose replies carry
  no identity; an obligation (a standing request must be settled) with half a
  dozen waiting states.
* **Seeds.** A query takes 5 to 23 s (`docs/g3_live_closed_loop.md`), so its
  answer is moved by a velocity that was estimated at another time, from poses
  that may lie on another track, for a query that may not be the one answered.
* **Localizer.** The alignment runs without the state lock, so a reset, a map or
  a timer may come under it; the request latch is the other half of the
  supervisor's loop, and the localizer drops it when it accepts a reset.
* **Startup.** A file survives a crash, the map may have been replaced since;
  replies outlive the wait for them; the same scan may answer twice.
* **Offline tools.** Nothing ties the files together but their names: a step
  takes whatever an earlier run left, and an exit code stands for a whole run.
* **Robot.** Watchdogs race late commands; blending and step limits are applied
  after clipping; filters hold state across resets and clock jumps.
* **Search.** Branch and bound is exact only if its bound is admissible. It is
  where the low borders of the map are free, and is not at those borders.

### What makes each correct

The supervisor stays within its attempt and publication budgets, confirms on
fresh evidence only, leaves no residue between episodes and settles every
request. A seed is moved by no more than the vehicle can have driven. No result
from before a reset overwrites the reset, and a request stands until tracking is
back. A start ends active or with the operator, and restores only poses of its
own map. A deployment applies the pose it prints, has a tree of frames, and its
doctor is right. No verdict rests on a file of another run, and nothing is
published that was not eligible. A silent command source stops the robot within
its limits, blindness makes it stand, and exit 0 means that the goal was
reached.

Every hazard behind these sentences is listed with its line in `PROJECT.json`.

## 2. Plan

What is in place, in the order in which it was built:

1. `SupervisorPolicy`, `BoundedRecovery` (its abstract specification),
   `SupervisorNode`; their proofs; run `supervisor` and its liveness,
   `supervisor_options`.
2. `Localizer`, its proofs, run `localizer_safety` with two configurations.
3. `SeedMotion` and `ShadowMotionGate`: the data of the supervisor that the first
   module leaves free; run `motion`.
4. `StartupInitialization` with crash and restart; proofs; run `startup`.
5. `MotionCommands`, `OdometryChain`, `NavGoals`, `Republisher`; proofs; run
   `motion`.
6. `Bringup`; run `bringup`.
7. `BranchAndBound`, `ResetPipeline`, `AcceptanceMatrix`, `ImuComparison`,
   `RecoveryReport`; run `offline`.
8. Proofs of every safety property the runs check, in eight modules: one per
   group of components that a run puts together (section 5).

What is left, most important first:

1. The localizer's lifecycle after its first activation (deactivation keeps the
   subscriptions, a second activation publishes "not requested" over a set latch
   at `lidar_localization_component.cpp:252`, cleanup keeps the prediction), and
   above it a pose register in which no measurement older than the last reset is
   ever applied.
2. `SupervisorNode` and `Localizer` in one instance: the attempt ceiling across
   request drops that the supervisor's own resets cause.
3. The gate with samples that are paired with odometry of a neighbouring stamp:
   `PublishedFixesAgree` is proved for exact pairs, the run covers the others.
4. `legged` topic discovery, the yaw axis of the odometry chain, and the drivers'
   queues, should they ever be changed here.

Every module that is proved about declares its parameters as `CONSTANTS` with
one named assumption, has one action per operation and uses no recursive
operator.

## 3. The models

### SupervisorPolicy

One step is one call of `decide`. `sup` is the `SupervisorState` the code
threads through; `decision` is what the call returned; `hist` is history that
only properties read (resets published since the loop last rested, by source,
and the time since the last one). There is one action per return statement,
named after the reason string it returns, so `CrossCheckReseed` is the return of
`"cross_check_reseed"`; an action per phase (`Settling`, `Verifying`, ...)
gathers them, and `Decide` is the whole function.

Abstractions:

* *Time.* The code stores absolute times and only compares `now - t` with a
  threshold. The model stores the age `now - t`, in ticks, saturated at `AgeCap`,
  which is at least every threshold (`ParamsAssumption`); saturation therefore
  changes no comparison. `NoTime` is `None`. `Observed` ages the state and
  refreshes `request_age` as the head of `decide` does.
* *Scores* are integers compared with the floor only.
* *Fitness*, its threshold and `stable_tracking` are one value: none, recovered,
  not recovered. A sample's observation time is an opaque identity (`Stamps`),
  because the reducer only compares it with the one it counted last.
* *Mismatch*: none, agree, differ.

### SupervisorNode

`rclpy.spin` with the default executor runs every callback of the node on one
thread, so a callback is one atomic action: `OnReinit`, `OnAlignmentStatus`, the
outcomes of a query (`QuerySucceeds`, `QueryComesBackEmpty`, `QueryLost`) and
`NodeTick`. `NodeTick` is `_tick` in full: it consumes the pending reply, applies
the request-clear confirmation, masks samples older than the reset, calls the
policy and carries out the action; the pose it publishes is taken from
`candidates`, which is a different copy of the list than `sup.scores`.

`inflight` is the queue of outstanding queries. A service answers in order, late
or never; with `LateReplies` a reply can outlive the wait for it.
`afterReset` is the comparison `_fitness_observed_sec > last_reset_sec`.
`nodeHist` is history for properties: how many good samples came since the
reset, what the last publication sent (a pose above the floor, one below it, or
none because the list had become too short), and whether a reply replaced
`candidates` while the policy walked its own copy. `_issue_query` may find the
service not ready, and then sends nothing.

G2 reports `success = bool(candidates)`, so a successful reply has a candidate
and an unsuccessful one is empty; the shadow gate yields either all scores
withheld or rank 1 alone. Here both outcomes are possible whenever rank 1 clears
the floor; which of them it is, is the subject of `ShadowMotionGate`.

Not in this module: a malformed reply as distinct from an empty one (the code
treats both alike, except that the malformed one is never retryable, which the
free choice of `retryable` covers) and exceptions from publishing.

### BoundedRecovery

The promise, without the mechanism: an attempt is paid once and buys at most
`WalkPerAttempt` publications; the budget is refilled only on coming to rest;
giving up takes a spent budget; an exposed alias cannot be dropped by the request
line. `RecoveryIsBounded` is its specification under the mapping at the end of
`SupervisorPolicy`: `spent` is the attempt counter, `held` the alias latch.

### SeedMotion

Where a reset is published. A candidate is a fix of the scan the service held
when the query started; the node pushes it forward by a velocity it has
estimated in one of three ways (trusted tracker, pose delta, simulation fix).
The vehicle drives along a line, so the true pose is known and the estimate can
be compared with it; velocities and distances are fractions `num / den`, exact.
Queries, replies, fixes and publications come in any order of an episode.
`/alignment_status` and `/pose` are separate callbacks: `OnAlignmentStatus` sets
`stable`, `OnPose` reads the flag of whichever status was heard last, so that a
pose can be trusted on the status of another scan. `doubt` remembers whether a
pose that was not trusted lay between two that a velocity was measured on, and
`honest` whether every pose trusted was one of the vehicle: only then is the
velocity the vehicle's, which is what the code can promise.
The service's side is modelled too: its latest cloud has an age, candidates are
ranked by search score or by registration fitness.

### ShadowMotionGate

Whether a reset is published, with `enable_bbs_shadow_motion_gate`: a fix is
withheld until successive fixes describe the same relative motion as the
odometry bridge. Headings are quarter turns, so rotations are exact on the grid.
The vehicle follows `Path`; the bridge sees it through an anchor the localizer
may move at any time, a fix through an alias (a rigid motion; the identity for
a right fix). The bridge history, its window, the nearest-stamp lookup, the
reset on a rising request edge and the flickering request are the code's.

### Localizer

One module for the node's callbacks that share the state lock. Scans and maps
run in one mutually exclusive callback group; `/initialpose` and the publish
timer have groups of their own. Every handler holds the lock from end to end,
except that `runAlignmentAttempt` releases it around `registration_->align`.
So a scan is two or three atomic steps: `StartAlignment` (admission, seed, local
map, lock released), `PrimaryDone` (lock taken again, generation check, gate,
then either the end of the scan or the start of the retry from the last accepted
pose), `RetryDone`; `DiscardStale` is the generation check that fails. A scan
that is dropped without an alignment is one step (`DropGuarded`,
`DropUnprepared`). `scan` holds the locals of a scan between its steps.
`InitialPose`, `MapReceived` and `TimerPublish` are the other callbacks; `Tick` is
time.

| Variable | Code |
|---|---|
| `generation` | `initial_pose_generation_` |
| `current`, `accepted`, `predicted` | `corrent_pose_with_cov_stamped_ptr_`, `last_accepted_pose_matrix_`, `predicted_pose_matrix_` |
| `poseAge`, `gap` | ages of `last_initial_pose_stamp_sec_`, `last_accepted_pose_time_sec_` |
| `rejects`, `crops`, `guard` | `consecutive_rejected_updates_`, `consecutive_crop_failures_`, `crop_failure_guard_active_` |
| `latched`, `clears`, `requested`, `recovery` | the request latch, the request topic, `recovery_supervisor_state_` |
| `anchor` | `last_good_map_to_odom_` |
| `output` | the last pose on `/pcl_pose` |

Abstractions: *poses* are the pose generation they descend from (a reset installs
its own generation, an alignment result descends from the pose its seed was
taken from, motion does not change descent), because that is what the reset
rules are about; *registration and gate* are one free outcome per attempt
(accepted, accepted with a warning, rejected, rejected but reused as seed, not
converged), with seed distance and fitness explosion as free evidence in the
request score, which is otherwise computed with the weights of the code;
*stamps* are ages, and a message may be delivered `lag` ticks after its stamp;
*transforms* may or may not be found at each lookup.

### StartupInitialization

`decide_startup` in full, the node around it, the saved-pose file, and G2's
service. `st` is `StartupState`, `node` the node's fields, `file` the saved pose by
the identity of the map it was saved for. Callbacks are atomic
(`rclpy.spin`); node and service receive the cloud topic over best-effort links,
so each may miss a scan. `Crash` and `Launch` end the process and start it again,
possibly on another map, in any of its modes (automatic, explicit pose, manual).
Poses are integers that agree when they are one apart; the consensus, the
preverification of a saved pose, verification, its timeout, the operator's own
pose at any time, and the save interval are as in the code.

### Republisher

Time is counted in timer periods. `pending` is what is left of the burst,
`untilNext` the wait before the next pose, `burst` and `standing` are history.

### Bringup

From a command line to a verdict: the generator or quickstart writes a table of
parameters; a launch file overrides some of them, in the precedence ROS 2 gives
launch arguments over defaults over the file; static transforms depend on the
profile and the printed switches; the localizer is configured and activated by
the launch file's event handlers or by an operator; the doctor listens for a while and then judges by the parameters, the static
transforms and what it has heard, the validator by a series of statuses. `heard`
is what the doctor keeps over its listening window: topics, and the moving
transforms, which its buffer finds again after their publisher has died. What a
deployment needs is read from `effective`, the table that really runs. A table is a function from parameter names, of which only those that
steer a transform, a pose or a verdict are kept; `Over` lays one table over
another. `QuickstartOffers` names what quickstart's own command line can ask for.
`DoctorIsRight` leaves out, by name, two cases in which the launch file asks for
more than the command line, and the check was written for the command line:
`StandaloneQuickstart` (the launch file turns the IMU path on) and
`DeskewUnasked` (`use_continuous_time_deskew` defaults to true in the launch files
and overrides the file, so that `--deskew off` does not turn it off;
`docs/imu_estimation.md:245`).

### ResetPipeline

The directory is the state: `file` maps the product of every step to its rows.
Each script is an action that refuses to overwrite without its option, reads
what is there and writes its product; a later step may therefore see a mixture
of generations. The log may be recorded again. What a registration returns is
free among `Scorings`, a score that is not a number and a row that is not run
(`--max-jobs`, a target with too few points) among them, so that scored and
unscored rows of one attempt mix. The job limit of `resolver`'s smoke test is left
out; the last step publishes, or only pretends to (dry run), and
the observer reads the rows after it.

### AcceptanceMatrix, ImuComparison, RecoveryReport

`AcceptanceMatrix`: the matrix script, one harness run with its recorder
(started, stopped or dying), the completion gates and the ground-truth verdict
over a recorded trace; a pose of the trace is its stamp, how far it is from the
truth and how closely a truth stamp matches it. Two poses never share a stamp
(a gap is at least one), and none has the stamp zero, which
`load_pose_trace` drops (`min_stamp_sec`). `grader` is what the loops of
`check_recovery_pose_gt.py` know after each pose they have read: the checker
reads the file once it is complete, the model reads it as it grows, so that the
loop is a step that can be reasoned about and not a recursion. Every file carries
the number of the run that wrote it.
`ImuComparison`: plan, run, resume and report over the modes, with the failures
that leave files of an earlier invocation behind.
`RecoveryReport`: the node's event log and the localizer's alignment rows, and the
loops of four scripts that segment and grade the same two logs. Rows carry their
stamps, and `pass` is, like `grader`, what `_longest_true_window` and the counter of
`summarize_alignment` carry from row to row.

### BranchAndBound

The search of `make_bbs_relocalization_attempts.py` with its pyramid, heap,
tie-break, bound, expansion and non-maximum suppression, one action per
iteration. Yaws are quarter turns and scan points whole cells, so rotated scans
are exact. Maps may have cells on every border. `SearchIsExact` promises the best
poses for those of its maps whose low borders are free (`LowBordersFree`); at a low
border the bound of the code is not admissible, which the run
`offline_border_bound` shows.

### MotionCommands, OdometryChain, NavGoals

`MotionCommands`: one velocity axis and one joint target, but several `Joints`:
a joint state message carries any subset of them, and the code keeps one age for
all, refreshed by a message that carries at least one. A joint that is silent
among reported ones is therefore not noticed by the code, and `StopsWhenBlind`
speaks of all of them. `clip` is `safe_joint_clip`, off in the node
(`go2_isaac_policy_controller.py:463`) and on in its launch file
(`isaac_nav2.launch.py:97`, 167); a run takes both, and the safe range is promised
with the clip on only. Each back end is a callback
that stores the last command with its arrival time and a timer that acts on it;
what matters is how old the stored values are when the timer fires, so ages are
counted in timer periods up to `MaxAge`. The policy network's output is free.
`OdometryChain`: FAST-LIO may report anything; the filter accepts against the last
accepted pose or repeats it; the corrector blends. Nav2 sees their composition.
`NavGoals`: the goal script's five waits with their timeouts, its exit codes, and a
follower that shares the action server, which is external and may reject, abort
or preempt.

### MC modules

`MCSupervisor` only names constants. `MCSeed`, `MCRobot`, `MCMotion` and
`MCOffline` put parts that share no variable into one run: a behaviour chooses one
part (`half`, `part`, `side`, `tool`) at the start and leaves the others at rest, so
that a run explores the sum and not the product. `MCLocalizer` has two
configurations of one module in the same way (`configuration`; the second is an
instance with constants of its own), and `MCBringup` lets a behaviour use the
doctor or the validator (`judge`), neither of which changes what the other sees.

## 4. Runs

| Run | Question | Result |
|---|---|---|
| `supervisor` | Late, lost and missing replies with cross-check, bridge and shadow gate on: evidence, alias latch, refinement, a standing request is settled | holds, @supervisor |
| `supervisor_options` | Ranked walks with two queries out, bridge but no cross-check and no gate, a cleared request as evidence, ticks that come late: the books of the episode, what is sent, evidence never older than the reset | holds, @supervisor_options |
| `motion` | A seed is moved within its bound and never past the vehicle; the gate opens for, and only for, fixes that agree with odometry; silence and blindness stop the robot, clipped targets stay in range, the map pose moves gradually, exit 0 means reached, bursts keep their pace | holds, @motion |
| `localizer_safety` | Resets against scans in flight, retries, the guard, the latch and the timer; a localizer that lost track requests a pose or finds one | holds, @localizer_safety |
| `startup` | Crashes, restarts, a replaced map, lost and late replies, an operator: poses of this map, within the budget, by consensus, verified; a start settles | holds, @startup |
| `bringup` | One parent per frame, the printed pose is applied, the doctor is right, a readable map activates | holds, @bringup |
| `offline` | The search is exact, published poses are sound, exit codes and reports are earned by their own files | holds, @offline |
| `supervisor_late_list` | "Candidates scoring below this are never published" | violated |
| `offline_border_bound` | "an admissible branch-and-bound search" | violated |
| `seed_kept_delta` | "implausible-velocity cases return the raw position unchanged" | violated |
| `bringup_explicit_pose` | "an explicit `--initial-pose`, when supplied" is where the localizer starts | violated |
| `offline_kidnap_pass` | a kidnap run "fails unless [...] a ground-truth-verified recovery" | violated |

### Properties, by what they guard

* *Supervisor.* `EpisodeIsAccounted`: attempts within the ceiling, every
  publication paid for, a candidate that settles was scored, a rest leaves no
  residue. `RecoveryIsBounded`: the refinement, the alias latch in it.
  `EvidenceIsFresh`: samples received after the reset, each counted once.
  `EveryResetIsSent`: what the policy counts is sent, with a pose above the floor,
  unless a reply nobody waited for replaced the list under the walk.
  `StandingRequestSettles`.
* *Seed.* `SeedMotionIsSound` (bounded, over a ranked list, from a velocity that no
  untrusted pose interrupts and that is the vehicle's own if the poses trusted
  were), `FixCatchesUp`; `PublishedAgreesWithOdometry` and its converse
  `ConsistentFixesPass`. `MCSeed` assumes, and TLC checks of its path and motions,
  that the gate's limits can tell them apart (`LimitsTellApart`).
* *Localizer.* `BeliefsFollowReset`, `AppliedScansFollowReset`,
  `PublishedNeverGoesBack`; `GuardLiftedByReset`, `WithdrawnWhileTracking`;
  `EveryLossIsReported`.
* *Startup.* `AutomaticPosesBounded`, `RestoredForThisMap`, `PublishedByConsensus`,
  `ActiveIsVerified` (of automatic and
  restored poses: an operator vouches for a manual one), `StartupSettles`.
* *Robot.* `StopsWhenSilent`, `StopsWhenBlind`, `RobotStaysSafe`, `CorrectionIsGradual`,
  `ExitMeansReached`, `RepublishingIsPaced`.
* *Bringup.* `OneParentPerFrame`, `PrintedPoseIsApplied`, `DoctorIsRight`,
  `ReadableMapActivates`.
* *Offline.* `VerdictIsEarned` (against a definition by quantifiers over the whole
  trace, which keeps the code's rule for a window's first pose),
  `HarnessPassIsEarned` (one harness at a time: the check and the creation of a
  directory, lines 351-353, are one step), `GreenMatrixIsComplete`; `GreenReportIsFresh`;
  `ReportsHold` (four readers of two logs agree); `SearchIsExact` (against the
  best poses there are); `PublishedIsSound`, `AcceptedWasPublished`.

Where a property is a conjunction, it names one part per concern, and a type
invariant that a component needs is a part of it. Each property has a mutant of
the code in `PROJECT.json` that breaks it.

### Bounds, and why they are enough

* `supervisor`: two attempts are under, at and past the ceiling; lists are
  empty, all weak, all good, or a good head with a weak tail; three sample
  identities give a new one, the last one counted and the current one; thresholds
  of one tick. One query is outstanding, whose reply may come after its timeout.
  The gate leaves rank 1 at most, so no walk happens here.
* `supervisor_options`: no gate, so a walk of two stops for each of its three
  reasons (recovered, list exhausted, walk exhausted); two queries outstanding are
  the fewest of which one can answer under a walk; thresholds of one and two ticks,
  and ticks that come one late.
* `localizer_safety`: three initial poses (two reset an alignment in flight and its
  retry, the third adds a seed two generations old), messages up to two ticks
  late, ages saturating above every threshold, crop threshold two, streak and
  gap scales of three, two clear samples. `MaxScanAge` bounds how long one
  alignment runs. The second configuration has every outcome of an alignment,
  the bridge, one reset, and scales of two and three.
* `motion`, the seed: three seconds, two unanswered queries (the smallest number
  that can answer in the wrong place), poses of the vehicle and one a metre off
  it, a second hit five metres off or diverged; a path with one turn, aliases and
  anchors that shift or turn, three samples where two must agree.
* `motion`, the robot: commands from below the lower to above the upper limit and
  one that is not finite, a safe range of four values around the stand pose, two
  joints (a message has both, one or none), five positions and five stamps of
  which one position is outside the map, timeouts of one period and ages up to
  three (two periods of silence past the timeout), bursts of two with a cooldown
  of two intervals.
* `startup`: two maps (the saved one and another), poses that agree and that do
  not, three attempts where two make a consensus, two verification samples, two
  scans per process and one restart.
* `bringup`: every profile with each option on its own and the transform options
  together, from the generator and from quickstart; one lifecycle command typed
  by an operator; one status of each class (active, waiting, failing).
* `offline`: traces of up to four poses, which can lose, recover and relapse;
  two harness runs and two invocations (a fresh and a stale generation of every
  file); replays of five rows and ticks; every map of the far corner of a
  7 x 6 grid, which does not fill its top level, and maps with cells on each low
  border and in their corner, with scans that reach out of the map; a pipeline whose log is recorded twice, with one window
  whose scan is missing.

Deadlock is checked wherever the system cannot stop: the supervisor, localizer
and startup runs. In `motion` a seed ends at its `Horizon` and a goal script exits,
`offline` tools end, and in `bringup` a doctor has judged.

### The five disagreements

1. **Kept pose delta** (`seed_kept_delta`). `_on_query_response`
   (`reinitialization_supervisor_node.py:679`) sets the issue time but leaves
   `_current_query_pose_delta`; the test at 979 never differs afterwards, and a
   later query with an implausible velocity is moved by an older query's delta.
   The docstring at 943-946 promises the raw position.
2. **Explicit pose** (`bringup_explicit_pose`). Quickstart writes the pose into
   the parameter file, `quickstart.launch.py:30-45` does not pass
   `set_initial_pose` on, and the mid360 launch file's default `'false'` overrides
   the file. `docs/quickstart.md:43` lists the explicit pose first.
3. **Kidnap verdict** (`offline_kidnap_pass`). `check_recovery_pose_gt.py:72-73`
   accepts `never_lost`; `docs/g3_live_closed_loop.md:395-398` asks for a verified
   recovery.
4. **Late list** (`supervisor_late_list`). The policy walks the scores it copied
   from one reply, the node publishes from its own list, and
   `_on_query_response` (node 679) replaces that list whenever a reply comes. A
   query times out, its retry is answered from the first reply, and the second
   reply comes under the walk: the candidate published next is one below the
   floor. The comment at policy 120 says "never published".
5. **Bound at the border** (`offline_border_bound`). The pooled grids are dilated by
   one cell and cut at the border (989-996), and a corner of a block that falls
   off the map counts nothing (298-304, 322-331, 1025 of
   `make_bbs_relocalization_attempts.py`), although points of the block may fall on
   border cells: the bound of a node is below the score of a pose in its block.
   The module docstring (5-7) and
   `test_pyramid_upper_bound_is_admissible` call it admissible.

Met while modelling, and described here only:

* `cross_check_reseed` (policy 552) publishes without looking at
  `last_reset_sec`; the module docstring (line 31) promises a spacing. The
  spacing holds between the other resets.
* An empty verify reply confirms the reset (node 603-616), since the mismatch is
  evaluated for successful replies only; the comment at 753-755 says otherwise.
* A bridge reset that settles and then fails its cross-check is charged to
  nobody (policy 475, 564 against the comment at 158-160).
* A cross-check that times out stands down on purpose and thereby zeroes the
  attempt counter with the request still asserted (node 762-764).
* The crop failure guard drops scans before a status is computed
  (`scan_admission_policy.hpp:88`), so the supervisor that "could break this
  freeze automatically" (`docs/development_plan.md:222-226`) is not asked. This
  is why the second configuration of `localizer_safety` has no local map crop.
* A reset whose odometry lookup fails leaves `last_good_map_to_odom_` on the old
  track (`lidar_localization_component.cpp:3906`) although a reset moves "every
  anchor" (`docs/global_localization.md:113-116`). This is why the reset
  theorems carry `OwnSeeds`.
* The reject streak is counted by the prediction code; without a predictor
  (`Predicts = FALSE`) `EveryLossIsReported` is false, because a lost localizer then
  relies on the fitness or the seed distance alone.
* A pose is trusted on the status heard last (node 378-408), which may be that of
  another scan: a pose off the track that comes before its own status is taken
  into the velocity.
* Told that the base frame is the LiDAR's, the generator switches the static
  transform between the two off (`create_lidar_localization_config.py:302`);
  quickstart leaves that to the operator (`launch_parts` in `quickstart.py`),
  and a frame becomes its own parent unless `--no-publish-lidar-tf` is given.
  `OneParentPerFrame` leaves this command line out.
* The doctor demands an IMU path of the legacy IMU mode, which that mode leaves
  disabled; `FailIsReal` excludes that mode.
* The validator takes a fallback for a tripped correction guard
  (`validation_model.py:277-283`), but a trip resets the smoother and leaves the
  fallback mode as it was (`imu_preintegration_guard_policy.hpp:82`), so trips
  never count.
* The workspace's `README.md:108-109` says that the default action scale of zero
  keeps a policy checkpoint from moving the robot;
  `go2_isaac_policy_controller.py:503-512` takes zero as "use the scale of the
  environment file" (`ScaleOverride = 0` in `motion`).

### Fairness

* `supervisor`: `WF(NodeTick)` only. The wall timer created in `__init__` fires for
  ever and its callback never blocks. Nothing is assumed of the topics, the
  service or the request line. `StandingRequestSettles` excludes two behaviours in
  its premise: a service that reports "no scan yet" for ever, which the code
  retries for ever on purpose, and a bridge that keeps being tried.
* `localizer_safety`, second configuration: weak fairness of the scans (a sensor that keeps delivering
  admissible scans) and of `AlignmentDone` (the registration returns), strong
  fairness of `Tick` (time passes however many callbacks run). Without scans no
  request can be computed at all. The first configuration needs no fairness.
* `startup`: `WF(Tick)`, the node's timer. `StartupSettles` excludes a service that
  keeps answering from a scan it has already answered from: such answers are
  neither counted as attempts nor as consensus.
* `bringup`: weak fairness of `Configure` and `Activate`, the transitions the
  launch file's handlers have asked for.

## 5. Proofs

Eight modules, 53 named results; each holds for every value of the constants its
module's assumption allows. Every invariant and action property that a passing
run checks has a theorem, some under a hypothesis on the options that is named
below. What a run cannot say, that the bounds of section 4 do not matter and why
a property holds, is in the inductive invariants.

**`SupervisorProofs`**. *The reducer*, for every sequence of observations, with no
bound on attempts, scores, lists or time: `PolicyInvariant`, and from it `TypeCorrect`,
`AttemptsBounded`, `WalkIsPaid`, `SettlesScored`, `CleanSlate`, together
`EpisodeAccounted`; the action property `CeilingHolds`; and
`ImplementsBoundedRecovery`: `PolicySpec => RecoveryIsBounded`.
*The inductive invariant.* `PublicationsPaid` is not inductive: the walk
publishes without paying, so the invariant must know how much of the current
attempt's walk is used. `Accounted` says it: while a queried reset settles, the
publications are at most those of the earlier attempts plus `index + 1`, and an
attempt has been paid. The step from there to the next candidate needs
`index < WalkLength`, hence `SettlingCandidateScored`; `AttemptCeiling` needs
"waiting for candidates implies budget left"; `RestsWithCleanSlate` gives the
refinement its initial `held` in each episode. `EpisodeInv` is the conjunction, as
an operator of a state and a count, so that one lemma per phase can be stated
about the state `decide` receives and the one it returns.

*The node.* Every observation the shell builds is a legal one
(`NodeObservationType`, from `ShellInv`), so every `NodeTick` is a policy step:
`NodeRunsPolicy`, and hence `NodeRecoveryIsBounded`, `NodeEpisodeAccounted`
for late, lost and misattributed replies. `NodeTypeCorrect`
types the queue of queries. `EvidenceHolds` proves `EvidenceIsFresh` from
`EvidenceInv`: while a reset settles, the policy's count is backed by samples
the node received since, and the identity counted last is one of them.
`ResetsAreSent` proves `EveryResetIsSent`, whatever the options, the gate and the
number of queries, from `ListInv`: every score the policy holds above the floor is
backed by a candidate of the node above it, unless a reply has come while the
policy walked (`overtaken`). That a reset is sent with a
good pose *after* such a reply cannot be proved: it is the fourth disagreement.

**`LocalizerProofs`**, with no bound on resets, ages or thresholds:
`LocalizerTypeCorrect` and `GuardHolds` from `TypeInv`, which adds to the types that
a scan in flight was admitted at or below the crop threshold
(`GuardMeansCrops`; one scan can add two failures). `InitialPoseIsAuthoritative`
and `OlderScansAreNotApplied` from `ResetInv`: a scan in flight whose generation is
current was seeded from the current belief and is not older than the reset, and
no scan carries a generation from the future; hypothesis `OwnSeeds` (not both
`enable_map_odom_tf` and `use_odom_tf_prediction`).
`PublishedPosesAreMonotone` under `OwnSeeds` and `OwnPoses` (no bridge poses).
`RecoveryIsConsistent`, and `RequestIsHeld` under `LatchHolds` (the latch on and at
least two clear samples) from `RequestInv`: clear samples are only counted while
latched, and right after an accepted scan.

**`StartupProofs`**, across any number of crashes, restarts and replaced maps:
`StartupTypeCorrect` (attempts and preverification tries within their budgets),
`RestoredPoseIsOfThisMap` from `SavedInv` (what is loaded was saved for the map at
hand and is tried once), `PosesAreBounded` from `BudgetInv` (a search in progress
has an attempt it has not published for, and the first publication cost
`ConsensusSamples` of them), `ActiveAfterVerification` from `FreshInv` (the
policy's confirmations, with the sample that waits, are samples received since
the last pose). `CandidatesAreAgreed` from
`ConsensusInv`: what the policy counts as agreed is a chain of replies with rising
stamps that agree one with the next, and its last one is the result in hand.

**`SeedProofs`**. *Where a reset is published*, for every speed, rate of simulated
time, latency and list: `SeedsAreSound` and `SeedsCatchUp` from `MotionInv`.
`TrackerInv` says what the held sample and the velocity were measured on,
`PairsAreUnbroken` that no untrusted pose lies inside the pair the velocity was
measured on although trust is a flag of another callback, `ReplyInv` that the
list in hand is ranked and its fix is its own first
candidate at the time of its own scan, `FixInv` that velocities between true fixes
are true; `SeedInv` says it of the published seed. The step is
`CompensateOf`: each of the three ways to an estimate keeps the seed between its
candidate and the vehicle. *Whether it is published*: `ConsistentFixesOpenTheGate`
from `GateInv` (the gate holds the last sample and counts at least every run of
agreeing samples), with the lemmas on quarter turns that make
`SameOffsetSameMotion`: samples at one offset describe one motion.
`PublishedFixesAgree` from `AgreementInv` (the run that is counted lies at one
place), for samples paired with odometry of their own stamp (`OwnOdometry`), under
the hypothesis `LimitsTellApart`: what takes odometry to a fix is one of the
displacements that an anchor and an alias make, and two different displacements
never put the vehicle within the limits of one another. The hypothesis speaks of
one place at a time; that it separates two *samples*, each a motion between two
poses of the path, is proved (`OneDisplacement`, `SameMotionIsNear`, `TellsApart`:
a rotation keeps lengths, so the mismatch of two motions is the distance of the
places they lead to). The run evaluates the hypothesis for its constants and
checks the property for samples of neighbouring stamps too.

**`RobotProofs`**, four programs. *Republisher*: `RepublisherTypeCorrect`;
`RepublishingPaced` from `PlanInv` (when the next pose is planned), `PaceInv` (poses
sent and planned make up at most one burst) and `ServedInv` (while a request
stands a pose is due or the last one is recent). *Goal clients*:
`GoalsTypeCorrect`; `ExitIsEarned` from `PlaceInv`, `StageInv` (what the waits that
have ended leave behind) and `ResultInv` (the result is that of the goal at the
server, although the follower preempts it). *Velocity path*: `MotionTypeCorrect`;
`RobotIsSafe` from `SafetyInv` (with the clip on, blending and stepping between two
values of the safe range stay in it, and where the clip is off nothing is
promised; behind the limiter nothing that is not finite is stored);
`RobotStops` and `RobotStands` from `StopInv`, one part per back end: the policy
controller's distance from the stand pose is at most what the silent or blind
periods have left of it, and the one age the code keeps for all joints is at
least that of some joint (`JointsInv`).
*Odometry chain*: `OdometryTypeCorrect`; `CorrectionGradual` from `OdometryInv` (what
Nav2 got is the pose accepted last, with a twist within the speed limit). Its
hypothesis `LimitsOn` (both limits above zero) is the code's own: a limit of zero
switches a check off. The lemmas `Rounding`, `Scaling`, `MeanMoves` and
`BlendedCorrection` bound a blend with integer division.

**`BringupProofs`**, for every command line: `TransformsAreAForest`
(but for the one quickstart command line named above), `PrintedPosesAreApplied`,
`TheDoctorIsRight` (but for the two exceptions of section 3) from `BringupInv`: what runs is the table
that the command line, the launch file's defaults and its arguments make
(`RunsWhatWasAsked`), nothing runs from a command line the generator refused, and
the frames the robot publishes are those the switches left to it. The lemmas on
`Over` give the value of each parameter under the precedence of the three tables.

**`RelocalizationProofs`**. *The search*, for every map whose low borders are free
(`LowBordersFree`; on the others it is the fifth disagreement), every scan, pyramid, spacing and number of candidates: `SearchFindsTheBest`
from `SearchState`: every pose is still under a node of the heap or *settled* (in
the list, beaten by a full list, or too near to a better pose in it), and no node
of the heap holds a pose better than one listed. That needs the bound to be
admissible (`NodeBounds`: a hit of a pose is a hit of the pooled cell above it,
which free borders keep on the map), the children of a node to cover it,
and the insertion with suppression to keep the list apart and ordered. *The
offline workflow*, for every log, route, score and sequence of reruns:
`PublishedPosesAreSound`, `AcceptedPosesWerePublished` from `PipelineInv`: what each
file guarantees on its own, whatever the files it was made from have become since
(`FileOk`, one predicate per file), and that what was sent was sendable.

**`OfflineProofs`**. *Acceptance*: `HarnessesEarnTheirPass` and
`GreenMatricesAreComplete` from `HarnessInv` (a run that is not over has its
directory to itself: what it finds there it wrote itself) and `MatrixInv` (the
matrix waits for the run it launched, which is younger than itself; what it
collected as passed was graded). `VerdictsAreEarned`, for recordings of every
length: `GraderInv` relates what the loops carry to the trace read so far. The
open window is the *longest* stretch of recovered poses that reaches the last
pose (`OpenInv`), and the window found last ends where the last stretch that is
long enough ends (`FoundInv`); the second alone is not inductive, because the
stretch that closes next must be known to be the longest. *IMU comparison*:
`GreenReportsAreFresh` from `CompInv` (as long as nothing has failed, the files
of the modes that are done are of this invocation). *Recovery report*:
`ReportsAreRight` from `WindowInv` (the last ticks, as many as the stable window
counts, were quiet and none of them came before the end of the episode) and
`PassOf` (what the loops carry is the number of stretches, the start of the open
one and the longest that ended); the agreement of the four graders then follows
row by row.

The prover has no induction over data, so a loop over a list is a variable that
advances with the list (`grader`, `pass`), and the library operators it cannot
expand (`@@`, `SelectSeq`, sorting) are written with quantifiers and `Over` where a
proof needs them.

### Only model-checked

* Liveness (`StandingRequestSettles`, `EveryLossIsReported`, `StartupSettles`,
  `ReadableMapActivates`): fairness and `ENABLED` are outside the prover's reach.
* The five disagreements, which are counterexamples.
* `LimitsTellApart`, for the constants of `motion`, and the gate with samples of
  neighbouring stamps.
* The localizer's reset properties carry `OwnSeeds` in the runs as in the
  theorems.

## 6. Not modelled

* *Localizer*: deactivation, a second activation and cleanup (none of them can fall
  into an alignment: the transition services and the scans share the default,
  mutually exclusive callback group, `lidar_localization_node.cpp:9`), the numeric
  IMU, EKF and GTSAM backends and the retry they force, `use_odom` and `use_imu`
  pose propagation, the scan throttle, TF and path output.
* *G2*: map loading, the optional registration of the candidates, the csv front
  end of the search script.
* *Bringup*: `nav2_navigation.launch.py` and
  `global_localization_recovery.launch.py` (compositions without state), the topic
  discovery of the legged doctor.
* *Robot*: the policy network and its observation vector, kinematics, the yaw
  rules of the odometry chain (of the form of the distance rules) and its
  parameter reload, `send_goal.py` (a shorter `send_nav2_goal.py`).
* *Sensor relays and simulators*: one message in, one out; no state beyond a
  counter or the last pose.
* *Dataset conversion, maps, reports, demos*: single-pass scripts whose content
  is numeric or textual. The experiment runners import packages
  (`experiments/...`) that are not in the repository.
* *Livox driver, FAST-LIO with its ikd-Tree, the NDT/GICP library*: vendored;
  their output is arbitrary in every model that uses it.
* *Robot description and configuration*: assets without state.
