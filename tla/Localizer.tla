------------------------------ MODULE Localizer ------------------------------
(***************************************************************************)
(* The scan pipeline of lidar_localization_component.cpp and the           *)
(* /initialpose callback that interleaves with it.                         *)
(*                                                                         *)
(* Every handler runs under the state lock, except that the lock is        *)
(* released around registration_->align.  Scans, map and lifecycle share   *)
(* one mutually exclusive callback group; /initialpose and the publish     *)
(* timer have their own, so these two are what runs during an alignment.   *)
(*                                                                         *)
(* A pose is represented by the pose generation it descends from: a reset  *)
(* installs its own generation, and an alignment result descends from the  *)
(* pose its seed was taken from.  A stamp is represented by its age.       *)
(***************************************************************************)
EXTENDS Naturals

CONSTANTS
  MaxResets,        \* bound of the model on accepted initial poses
  MaxLag,           \* bound of the model on the age of a delivered message
  MaxAge,           \* ages saturate here
  MaxScanAge,       \* bound of the model on the age of a scan being aligned
  MaxCropFailures,  \* crop_failure_threshold
  GapScale,         \* reinitialization_trigger gap_scale_sec, in ticks
  StreakScale,      \* reinitialization_trigger reject_streak_scale
  Threshold,        \* reinitialization_trigger threshold, in hundredths
  ClearSamples,     \* reinitialization_request_clear_ok_samples
  RetryMinRejects,  \* recovery_retry_from_last_pose min_rejections
  RetryMaxGap,      \* recovery_retry_from_last_pose max_accepted_gap, in ticks
  RetryEnabled,     \* enable_recovery_retry_from_last_pose
  LatchEnabled,     \* enable_reinitialization_request_latch
  LocalMapCrop,     \* use_local_map_crop
  Predicts,         \* twist prediction, or prediction from the previous delta
  MapOdomTf,        \* enable_map_odom_tf
  OdomSeed,         \* use_odom_tf_prediction
  Bridge,           \* publish_bridge_pose_when_lost
  TimerPublishing,  \* enable_timer_publishing
  Alignments,       \* what registration and gate can say of a primary attempt
  Preparations      \* what the preparation of a scan can end with

Primaries == {"ok", "warn", "rejected", "seeded", "not_converged"}

ASSUME LocalizerAssumption ==
  /\ MaxResets \in Nat /\ MaxLag \in Nat /\ MaxAge \in Nat /\ MaxLag < MaxAge
  /\ MaxScanAge \in MaxLag..MaxAge
  /\ MaxCropFailures \in Nat
  /\ GapScale \in Nat \ {0} /\ StreakScale \in Nat \ {0} /\ Threshold \in Nat
  /\ ClearSamples \in Nat \ {0}
  /\ RetryMinRejects \in 0..StreakScale /\ RetryMaxGap \in Nat
  /\ {RetryEnabled, LatchEnabled, LocalMapCrop, Predicts, MapOdomTf,
      OdomSeed, Bridge, TimerPublishing} \subseteq BOOLEAN
  /\ Alignments \subseteq Primaries
  /\ Preparations \subseteq {"ready", "unusable", "no_transform"}

VARIABLES
  mapReceived,   \* map_recieved_
  generation,    \* initial_pose_generation_; 0 is: no initial pose received
  poseAge,       \* age of last_initial_pose_stamp_sec_
  current,       \* corrent_pose_with_cov_stamped_ptr_
  accepted,      \* last_accepted_pose_matrix_
  gap,           \* age of last_accepted_pose_time_sec_
  predicted,     \* predicted_pose_matrix_
  rejects,       \* consecutive_rejected_updates_, up to StreakScale
  crops,         \* consecutive_crop_failures_
  guard,         \* crop_failure_guard_active_
  latched,       \* reinitialization_request_latched_
  clears,        \* reinitialization_request_latch_consecutive_ok_samples_
  requested,     \* reinitialization_requested_, as published
  recovery,      \* recovery_supervisor_state_
  anchor,        \* last_good_map_to_odom_; 0 is: none frozen yet
  output,        \* the last pose on /pcl_pose
  scan           \* the scan whose alignment runs without the state lock

beliefs == <<current, accepted, predicted>>
request == <<latched, clears, requested, recovery>>
cropping == <<crops, guard>>
vars == <<mapReceived, generation, poseAge, beliefs, gap, rejects, cropping,
          request, anchor, output, scan>>

NoScan == [phase |-> "idle", generation |-> 0, seed |-> 0, retrySeed |-> 0,
           age |-> 0, gap |-> 0, fallback |-> "ok"]

Init ==
  /\ mapReceived \in BOOLEAN
  /\ generation = 0 /\ poseAge = 0 /\ gap = 0
  /\ current = 0 /\ accepted = 0 /\ predicted = 0 /\ anchor = 0 /\ output = 0
  /\ rejects = 0 /\ crops = 0 /\ guard = FALSE
  /\ latched = FALSE /\ clears = 0 /\ requested = FALSE
  /\ recovery = "tracking"
  /\ scan = NoScan

Capped(n, cap) == IF n < cap THEN n ELSE cap

-----------------------------------------------------------------------------
(* The reinitialization request. *)

\* Statuses that computeReinitializationRequest scores as a failure.
ScoredFailures == {"crop_failed", "warn", "rejected", "seeded", "not_converged"}

\* The weighted score over its threshold, or both gap and streak saturated.
Triggered(kind, age, evidence) ==
  LET unit == GapScale * StreakScale
      penalty == (IF "far" \in evidence THEN 30 ELSE 0)
               + (IF "exploded" \in evidence /\ kind # "crop_failed" THEN 15 ELSE 0)
               + (IF kind = "crop_failed" THEN 15 ELSE 0)
  IN  /\ kind \in ScoredFailures
      /\ \/ 45 * Capped(age, GapScale) * StreakScale
              + 20 * rejects * GapScale + penalty * unit >= Threshold * unit
         \/ age >= GapScale /\ rejects >= StreakScale

\* clear: the sample is good enough to count against a latched request.
\* Mutant: a sample that is not clear leaves the counter as it is.
ApplyLatchWithoutReset(trigger, clear) ==
  IF LatchEnabled
  THEN LET counts == latched /\ ~trigger /\ clear
           released == counts /\ clears + 1 >= ClearSamples
       IN  /\ latched' = IF released THEN FALSE ELSE (latched \/ trigger)
           /\ clears' = IF released THEN 0 ELSE IF counts THEN clears + 1 ELSE clears
           /\ requested' = latched'
  ELSE /\ requested' = trigger
       /\ UNCHANGED <<latched, clears>>

ApplyLatch(trigger, clear) ==
  IF LatchEnabled
  THEN LET counts == latched /\ ~trigger /\ clear
           released == counts /\ clears + 1 >= ClearSamples
       IN  /\ latched' = IF released THEN FALSE ELSE (latched \/ trigger)
           /\ clears' = IF counts /\ ~released THEN clears + 1 ELSE 0
           /\ requested' = latched'
  ELSE /\ requested' = trigger
       /\ UNCHANGED <<latched, clears>>

\* The streak is the one before this scan is counted: the status comes first.
PublishStatus(kind, age, evidence, clear) ==
  /\ ApplyLatch(Triggered(kind, age, evidence), clear /\ kind = "ok")
  /\ recovery' = IF requested' THEN "reinitialization_requested"
                 ELSE IF kind # "ok" \/ rejects > 0 THEN "recovering"
                 ELSE "tracking"

-----------------------------------------------------------------------------
(* What a scan does to the pose state. *)

\* The pose composed from the frozen map->odom edge and the live odometry.
BridgeReady(live) == MapOdomTf /\ anchor # 0 /\ live

BridgedOutput(live) == IF Bridge /\ BridgeReady(live) THEN anchor ELSE output

\* freeze: the match is good enough to move the frozen edge.
PublishAccepted(origin, live, freeze) ==
  /\ anchor' = IF MapOdomTf /\ live /\ freeze THEN origin ELSE anchor
  /\ output' = IF TimerPublishing /\ ~Bridge THEN output
               ELSE IF Bridge /\ ~freeze /\ anchor # 0 THEN BridgedOutput(live)
               ELSE origin

AcceptMeasurement(origin, age, live, freeze) ==
  /\ current' = origin /\ accepted' = origin /\ predicted' = origin
  /\ gap' = age
  /\ rejects' = 0
  /\ PublishAccepted(origin, live, freeze)

\* The prediction moves, and the streak counts, only if there is a predictor;
\* a rejected result reused as seed counts in any case.
\* Mutant: an alignment that does not converge is not counted.
MissMeasurementIfAligned(kind, seed, live) ==
  /\ predicted' = IF kind = "seeded" THEN seed ELSE predicted
  /\ rejects' = IF kind \in {"rejected", "seeded"}
                THEN Capped(rejects + 1, StreakScale) ELSE rejects
  /\ output' = BridgedOutput(live)
  /\ UNCHANGED <<current, accepted, gap, anchor>>

MissMeasurement(kind, seed, live) ==
  /\ predicted' = IF kind = "seeded" THEN seed ELSE predicted
  /\ rejects' = IF Predicts \/ kind = "seeded"
                THEN Capped(rejects + 1, StreakScale) ELSE rejects
  /\ output' = BridgedOutput(live)
  /\ UNCHANGED <<current, accepted, gap, anchor>>

\* The end of an admitted scan: its status, then its effect.
Conclude(kind, s, origin) ==
  \E evidence \in SUBSET {"far", "exploded"}, clear, live, freeze \in BOOLEAN :
    /\ PublishStatus(kind, s.gap, evidence, clear)
    /\ IF kind \in {"ok", "warn", "recovered"}
       THEN AcceptMeasurement(origin, s.age, live, freeze)
       ELSE MissMeasurement(kind, s.seed, live)
    /\ scan' = NoScan

-----------------------------------------------------------------------------
(* The scan callback. *)

CropOutcomes == IF LocalMapCrop THEN BOOLEAN ELSE {TRUE}

TargetSet == /\ crops' = IF LocalMapCrop THEN 0 ELSE crops
             /\ guard' = IF LocalMapCrop THEN FALSE ELSE guard

\* Mutant: the guard is raised by the failure that reaches the threshold.
TargetFailedEarly(n) ==
  /\ crops' = crops + n
  /\ guard' = (crops + n >= MaxCropFailures)

TargetFailed(n) == crops' = crops + n /\ UNCHANGED guard

RetryAllowed(age) == RetryEnabled /\ rejects >= RetryMinRejects /\ age <= RetryMaxGap

\* Crop failures of the retry: none if it is not taken, which the seed of an
\* alignment may cause by being too far from the last accepted pose.
RetryCrops(kind, age) ==
  {n \in {0, 1} : IF n = 0 THEN RetryAllowed(age) => kind # "crop_failed"
                  ELSE RetryAllowed(age) /\ LocalMapCrop}

\* A primary attempt failed: retry from the last accepted pose, or conclude.
\* failed: crops of the primary attempt that failed.
RetryOrConclude(kind, s, failed) ==
  \/ /\ RetryAllowed(s.gap)
     /\ TargetSet
     /\ scan' = [s EXCEPT !.phase = "retry", !.retrySeed = accepted,
                          !.fallback = kind]
     /\ UNCHANGED <<beliefs, gap, rejects, request, anchor, output>>
  \/ \E n \in RetryCrops(kind, s.gap) :
       /\ IF failed + n > 0 THEN TargetFailed(failed + n) ELSE UNCHANGED cropping
       /\ Conclude(kind, s, s.seed)

\* The localizability guard may suppress the previous-delta prediction.
Seeds(live) == IF OdomSeed /\ BridgeReady(live) THEN {anchor}
               ELSE IF Predicts THEN {predicted, current} ELSE {current}

\* Null, early and throttled scans change nothing that is modelled.
\* Mutant: scans older than the initial pose are admitted.
AdmissibleAnyAge(lag) ==
  /\ scan.phase = "idle"
  /\ mapReceived /\ generation > 0
  /\ lag <= MaxLag

Admissible(lag) ==
  /\ scan.phase = "idle"
  /\ mapReceived /\ generation > 0
  /\ lag <= poseAge

NewScan(lag, seed) ==
  [phase |-> "primary", generation |-> generation, seed |-> seed, retrySeed |-> 0,
   age |-> lag, gap |-> IF gap > lag THEN gap - lag ELSE 0, fallback |-> "ok"]

\* Too many crop failures in a row: the scan is dropped without a status.
DropGuarded(lag) ==
  /\ Admissible(lag)
  /\ crops > MaxCropFailures
  /\ guard' = TRUE
  /\ predicted' = IF guard THEN predicted ELSE accepted
  /\ UNCHANGED <<mapReceived, generation, poseAge, current, accepted, gap,
                 rejects, crops, request, anchor, output, scan>>

\* A scan that cannot be prepared: no points left, or no sensor transform.
DropUnprepared(lag) ==
  /\ Admissible(lag)
  /\ crops <= MaxCropFailures
  /\ \/ /\ "unusable" \in Preparations
        /\ Conclude("unprepared", NewScan(lag, current), current)
     \/ /\ "no_transform" \in Preparations
        /\ \E live \in BOOLEAN : output' = BridgedOutput(live)
        /\ UNCHANGED <<beliefs, gap, rejects, request, anchor, scan>>
  /\ UNCHANGED <<mapReceived, generation, poseAge, cropping>>

\* A prepared scan: seed, target, and then the lock is released to align.
StartAlignment(lag) ==
  /\ Admissible(lag)
  /\ crops <= MaxCropFailures
  /\ "ready" \in Preparations
  /\ \E live \in BOOLEAN, ready \in CropOutcomes : \E seed \in Seeds(live) :
       IF ready
       THEN /\ TargetSet
            /\ scan' = NewScan(lag, seed)
            /\ UNCHANGED <<beliefs, gap, rejects, request, anchor, output>>
       ELSE RetryOrConclude("crop_failed", NewScan(lag, seed), 1)
  /\ UNCHANGED <<mapReceived, generation, poseAge>>

ScanReceived ==
  \E lag \in 0..MaxLag :
    DropGuarded(lag) \/ DropUnprepared(lag) \/ StartAlignment(lag)

\* The lock is taken again and the pose was reset meanwhile: nothing applies.
DiscardStale ==
  /\ scan.phase # "idle"
  /\ scan.generation # generation
  /\ scan' = NoScan
  /\ UNCHANGED <<mapReceived, generation, poseAge, beliefs, gap, rejects,
                 cropping, request, anchor, output>>

\* Mutant: the result is applied whatever happened during the alignment.
PrimaryDoneUnchecked ==
  /\ scan.phase = "primary"
  /\ \E kind \in Alignments :
       IF kind \in {"ok", "warn"}
       THEN Conclude(kind, scan, scan.seed) /\ UNCHANGED cropping
       ELSE RetryOrConclude(kind, scan, 0)
  /\ UNCHANGED <<mapReceived, generation, poseAge>>

PrimaryDone ==
  /\ scan.phase = "primary"
  /\ scan.generation = generation
  /\ \E kind \in Alignments :
       IF kind \in {"ok", "warn"}
       THEN Conclude(kind, scan, scan.seed) /\ UNCHANGED cropping
       ELSE RetryOrConclude(kind, scan, 0)
  /\ UNCHANGED <<mapReceived, generation, poseAge>>

\* A retry that fails leaves the verdict on the primary attempt.
\* Mutant: the same for the retry.
RetryDoneUnchecked ==
  /\ scan.phase = "retry"
  /\ \/ Conclude("recovered", scan, scan.retrySeed)
     \/ Conclude(scan.fallback, scan, scan.seed)
  /\ UNCHANGED <<mapReceived, generation, poseAge, cropping>>

RetryDone ==
  /\ scan.phase = "retry"
  /\ scan.generation = generation
  /\ \/ Conclude("recovered", scan, scan.retrySeed)
     \/ Conclude(scan.fallback, scan, scan.seed)
  /\ UNCHANGED <<mapReceived, generation, poseAge, cropping>>

AlignmentDone == DiscardStale \/ PrimaryDone \/ RetryDone

-----------------------------------------------------------------------------
(* The other callbacks. *)

\* An accepted initial pose; live: the odometry transform can be looked up.
\* A pose in another frame, or not finite, changes nothing.
InitialPose(lag, live) ==
  /\ generation < MaxResets
  /\ generation' = generation + 1
  /\ poseAge' = lag /\ gap' = lag
  /\ current' = generation' /\ accepted' = generation' /\ predicted' = generation'
  /\ rejects' = 0 /\ crops' = 0 /\ guard' = FALSE
  /\ latched' = FALSE /\ clears' = 0 /\ requested' = FALSE
  /\ recovery' = "tracking"
  /\ anchor' = IF MapOdomTf /\ live THEN generation' ELSE anchor
  /\ output' = generation'
  /\ UNCHANGED <<mapReceived, scan>>

MapReceived ==
  /\ scan.phase = "idle"
  /\ mapReceived' = TRUE
  /\ UNCHANGED <<generation, poseAge, beliefs, gap, rejects, cropping, request,
                 anchor, output, scan>>

\* The timer republishes the last pose; in bridge mode only the bridged one.
TimerPublish ==
  /\ TimerPublishing /\ current # 0
  /\ \E live \in BOOLEAN :
       output' = IF Bridge THEN BridgedOutput(live) ELSE current
  /\ UNCHANGED <<mapReceived, generation, poseAge, beliefs, gap, rejects,
                 cropping, request, anchor, scan>>

Tick ==
  /\ generation > 0
  /\ scan.phase # "idle" => scan.age < MaxScanAge
  /\ poseAge' = Capped(poseAge + 1, MaxAge)
  /\ gap' = Capped(gap + 1, MaxAge)
  /\ scan' = IF scan.phase = "idle" THEN scan
             ELSE [scan EXCEPT !.age = @ + 1]
  /\ UNCHANGED <<mapReceived, generation, beliefs, rejects, cropping, request,
                 anchor, output>>

Next ==
  \/ ScanReceived
  \/ AlignmentDone
  \/ \E lag \in 0..MaxLag, live \in BOOLEAN : InitialPose(lag, live)
  \/ MapReceived
  \/ TimerPublish
  \/ Tick

Spec == Init /\ [][Next]_vars

\* A sensor that keeps delivering, alignments that return, and time, which no
\* number of callbacks can stop.
FairSpec == /\ Spec
            /\ WF_vars(ScanReceived) /\ WF_vars(AlignmentDone)
            /\ SF_vars(Tick)

-----------------------------------------------------------------------------
(* Properties. *)

Scans == [phase : {"idle", "primary", "retry"}, generation : Nat, seed : Nat,
          retrySeed : Nat, age : 0..MaxAge, gap : 0..MaxAge,
          fallback : Primaries \cup {"crop_failed"}]

\* Types and ranges of the pipeline's variables.
LocalizerTypeOK ==
  /\ mapReceived \in BOOLEAN
  /\ generation \in Nat
  /\ poseAge \in 0..MaxAge /\ gap \in 0..MaxAge
  /\ current \in Nat /\ accepted \in Nat /\ predicted \in Nat
  /\ anchor \in Nat /\ output \in Nat
  /\ rejects \in 0..StreakScale
  /\ crops \in 0..(MaxCropFailures + 2)
  /\ guard \in BOOLEAN
  /\ latched \in BOOLEAN /\ clears \in 0..ClearSamples /\ requested \in BOOLEAN
  /\ recovery \in {"tracking", "recovering", "reinitialization_requested"}
  /\ scan \in Scans

\* An initial pose is authoritative: the current pose, the last accepted pose
\* that guard and retry fall back to, and the prediction all descend from the
\* latest reset, although an alignment seeded before it may end after it.
BeliefsFollowReset ==
  current = generation /\ accepted = generation /\ predicted = generation

\* No measurement taken before the latest initial pose is ever applied: the
\* stamp of the last accepted pose never precedes that of the reset.  It takes
\* both the admission check and the generation check.
AppliedScansFollowReset == gap <= poseAge

\* The recovery state and the request are set by different functions and must
\* tell the supervisor and the diagnostics the same story.
RecoveryMatchesRequest ==
  recovery = "reinitialization_requested" <=> requested

\* Once a pose of a generation is on /pcl_pose, no older one is published by
\* the timer, a late alignment or the bridge.
PublishedNeverGoesBack == [][output' >= output]_vars

\* Only a new initial pose lifts the crop failure guard: no alignment still in
\* flight when it was raised may lift it by finding its target.
GuardLiftedByReset == [][guard /\ ~guard' => generation' > generation]_vars

\* The localizer withdraws its own request only from a tracking state; it never
\* drops one in the middle of a reject streak.
WithdrawnWhileTracking ==
  [][requested /\ ~requested' /\ generation' = generation
       => recovery' = "tracking" /\ rejects = 0]_vars

LostTrack == mapReceived /\ generation > 0 /\ gap >= GapScale

\* A localizer that has accepted nothing for the whole gap scale, whatever its
\* scans look like, asks for a pose or finds one.
LossIsReported == LostTrack ~> (requested \/ ~LostTrack)

=============================================================================
