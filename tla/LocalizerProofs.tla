--------------------------- MODULE LocalizerProofs ---------------------------
(***************************************************************************)
(* Invariants and step properties of the scan pipeline, for every setting. *)
(***************************************************************************)
EXTENDS Localizer, TLAPS

Verdicts == Primaries \cup {"crop_failed"}

\* Part of the inductive invariant: a pending scan that still matches the
\* generation was seeded from the present belief, and not before the reset.
ScanFollowsReset ==
  /\ scan.generation <= generation
  /\ scan.phase # "idle" /\ scan.generation = generation
       => /\ scan.seed = generation
          /\ scan.phase = "retry" => scan.retrySeed = generation
          /\ scan.age <= poseAge

\* The crop counter is over its threshold while the guard is up, and not over
\* it while an alignment runs.
GuardMeansCrops ==
  /\ guard => crops > MaxCropFailures
  /\ scan.phase # "idle" => crops <= MaxCropFailures

\* Clear samples are only counted for a latched request, and only accepted
\* scans count.
ClearsAreAccepted ==
  /\ LatchEnabled => requested = latched
  /\ clears < ClearSamples
  /\ clears > 0 => latched /\ rejects = 0

-----------------------------------------------------------------------------
LEMMA CappedBelow ==
  ASSUME NEW n \in Nat, NEW cap \in Nat
  PROVE  Capped(n, cap) \in 0..cap /\ Capped(n, cap) <= n
BY DEF Capped

LEMMA NewScanFields ==
  ASSUME LocalizerTypeOK, NEW lag \in 0..MaxLag, NEW seed \in Nat
  PROVE  LET s == NewScan(lag, seed)
         IN  /\ s \in Scans
             /\ s.phase = "primary" /\ s.generation = generation
             /\ s.seed = seed /\ s.age = lag /\ s.fallback = "ok"
BY LocalizerAssumption DEF LocalizerTypeOK, NewScan, Scans, Primaries

LEMMA NoScanFields == NoScan \in Scans /\ NoScan.phase = "idle" /\ NoScan.generation = 0
BY LocalizerAssumption DEF NoScan, Scans, Primaries

-----------------------------------------------------------------------------
(* Types. *)

LEMMA StatusType ==
  ASSUME LocalizerTypeOK, NEW kind, NEW age, NEW evidence, NEW clear \in BOOLEAN,
         PublishStatus(kind, age, evidence, clear)
  PROVE  /\ latched' \in BOOLEAN /\ clears' \in 0..ClearSamples
         /\ requested' \in BOOLEAN
         /\ recovery' \in {"tracking", "recovering", "reinitialization_requested"}
<1> DEFINE t == Triggered(kind, age, evidence)
           c == clear /\ kind = "ok"
<1>1. t \in BOOLEAN
  BY DEF Triggered
<1>2. recovery' \in {"tracking", "recovering", "reinitialization_requested"}
  BY DEF PublishStatus
<1>3. ApplyLatch(t, c)
  BY DEF PublishStatus
<1>4. latched' \in BOOLEAN /\ requested' \in BOOLEAN
  <2> HIDE DEF t, c
  <2> QED BY <1>1, <1>3, Zenon DEF ApplyLatch, LocalizerTypeOK
<1>5. clears' \in 0..ClearSamples
  <2> HIDE DEF t, c
  <2>1. clears' = 0 \/ clears' = clears \/ (clears' = clears + 1 /\ ~(clears + 1 >= ClearSamples))
    BY <1>3, Zenon DEF ApplyLatch
  <2> QED BY <2>1, LocalizerAssumption DEF LocalizerTypeOK
<1> QED BY <1>2, <1>4, <1>5

LEMMA BridgedType ==
  ASSUME LocalizerTypeOK, NEW live
  PROVE  BridgedOutput(live) \in Nat
BY DEF LocalizerTypeOK, BridgedOutput

LEMMA ConcludeType ==
  ASSUME LocalizerTypeOK, NEW kind, NEW s \in Scans, NEW origin \in Nat,
         Conclude(kind, s, origin)
  PROVE  /\ latched' \in BOOLEAN /\ clears' \in 0..ClearSamples
         /\ requested' \in BOOLEAN
         /\ recovery' \in {"tracking", "recovering", "reinitialization_requested"}
         /\ current' \in Nat /\ accepted' \in Nat /\ predicted' \in Nat
         /\ anchor' \in Nat /\ output' \in Nat
         /\ gap' \in 0..MaxAge /\ rejects' \in 0..StreakScale
         /\ scan' \in Scans
<1>1. PICK evidence \in SUBSET {"far", "exploded"}, clear \in BOOLEAN,
           live \in BOOLEAN, freeze \in BOOLEAN :
        /\ PublishStatus(kind, s.gap, evidence, clear)
        /\ IF kind \in {"ok", "warn", "recovered"}
           THEN AcceptMeasurement(origin, s.age, live, freeze)
           ELSE MissMeasurement(kind, s.seed, live)
        /\ scan' = NoScan
  BY DEF Conclude
<1>2. s.age \in 0..MaxAge /\ s.seed \in Nat
  BY DEF Scans
<1>3. scan' \in Scans
  BY <1>1, NoScanFields
<1>4. /\ latched' \in BOOLEAN /\ clears' \in 0..ClearSamples
      /\ requested' \in BOOLEAN
      /\ recovery' \in {"tracking", "recovering", "reinitialization_requested"}
  BY <1>1, StatusType, Zenon
<1>5. CASE AcceptMeasurement(origin, s.age, live, freeze)
  BY <1>2, <1>3, <1>4, <1>5, BridgedType, LocalizerAssumption
     DEF AcceptMeasurement, PublishAccepted, LocalizerTypeOK
<1>6. CASE MissMeasurement(kind, s.seed, live)
  BY <1>2, <1>3, <1>4, <1>6, BridgedType, LocalizerAssumption
     DEF MissMeasurement, Capped, LocalizerTypeOK
<1> QED BY <1>1, <1>5, <1>6

LEMMA CroppingType ==
  ASSUME LocalizerTypeOK, TargetSet
  PROVE  crops' \in 0..(MaxCropFailures + 2) /\ guard' \in BOOLEAN
<1>1. CASE LocalMapCrop
  <2>1. crops' = 0 /\ guard' = FALSE
    BY <1>1 DEF TargetSet
  <2>2. crops' \in 0..(MaxCropFailures + 2)
    BY <2>1, LocalizerAssumption, SMT
  <2>3. guard' \in BOOLEAN
    BY <2>1, Zenon
  <2> QED BY <2>2, <2>3
<1>2. CASE ~LocalMapCrop
  <2>1. crops' = crops /\ guard' = guard
    BY <1>2 DEF TargetSet
  <2> QED BY <2>1 DEF LocalizerTypeOK
<1> QED BY <1>1, <1>2

LEMMA RetryOrConcludeType ==
  ASSUME LocalizerTypeOK, NEW kind \in Verdicts, NEW s \in Scans,
         NEW failed \in 0..1, crops <= MaxCropFailures,
         RetryOrConclude(kind, s, failed)
  PROVE  /\ latched' \in BOOLEAN /\ clears' \in 0..ClearSamples
         /\ requested' \in BOOLEAN
         /\ recovery' \in {"tracking", "recovering", "reinitialization_requested"}
         /\ current' \in Nat /\ accepted' \in Nat /\ predicted' \in Nat
         /\ anchor' \in Nat /\ output' \in Nat
         /\ gap' \in 0..MaxAge /\ rejects' \in 0..StreakScale
         /\ scan' \in Scans
         /\ crops' \in 0..(MaxCropFailures + 2) /\ guard' \in BOOLEAN
<1>1. CASE /\ RetryAllowed(s.gap)
           /\ TargetSet
           /\ scan' = [s EXCEPT !.phase = "retry", !.retrySeed = accepted,
                                !.fallback = kind]
           /\ UNCHANGED <<beliefs, gap, rejects, request, anchor, output>>
  <2>1. scan' \in Scans
    BY <1>1 DEF Scans, Verdicts, LocalizerTypeOK
  <2> QED BY <1>1, <2>1, CroppingType DEF LocalizerTypeOK, beliefs, request
<1>2. CASE \E n \in RetryCrops(kind, s.gap) :
             /\ IF failed + n > 0 THEN TargetFailed(failed + n) ELSE UNCHANGED cropping
             /\ Conclude(kind, s, s.seed)
  <2>1. PICK n \in 0..1 :
             /\ IF failed + n > 0 THEN TargetFailed(failed + n) ELSE UNCHANGED cropping
             /\ Conclude(kind, s, s.seed)
    BY <1>2 DEF RetryCrops
  <2>2. crops' \in 0..(MaxCropFailures + 2) /\ guard' \in BOOLEAN
    BY <2>1, LocalizerAssumption DEF TargetFailed, cropping, LocalizerTypeOK
  <2>3. s.seed \in Nat
    BY DEF Scans
  <2> QED BY <2>1, <2>2, <2>3, ConcludeType
<1> QED BY <1>1, <1>2 DEF RetryOrConclude

-----------------------------------------------------------------------------
(* Type correctness: TypeInv is inductive. *)

TypeInv == LocalizerTypeOK /\ GuardMeansCrops

LEMMA SeedType ==
  ASSUME LocalizerTypeOK, NEW live \in BOOLEAN, NEW seed \in Seeds(live)
  PROVE  seed \in Nat
BY DEF LocalizerTypeOK, Seeds

LEMMA TypeInit == Init => TypeInv
<1> SUFFICES ASSUME Init PROVE TypeInv
  OBVIOUS
<1>1. mapReceived \in BOOLEAN /\ guard \in BOOLEAN /\ latched \in BOOLEAN /\ requested \in BOOLEAN
  BY Zenon DEF Init
<1>2. ~guard
  BY Zenon DEF Init
<1> QED BY <1>1, <1>2, LocalizerAssumption, NoScanFields
        DEF Init, TypeInv, LocalizerTypeOK, GuardMeansCrops

\* What happens to the crop counter and the guard when an attempt fails.
LEMMA RetryOrConcludeCrops ==
  ASSUME LocalizerTypeOK, GuardMeansCrops, NEW kind, NEW s \in Scans,
         NEW failed \in 0..1, crops <= MaxCropFailures,
         RetryOrConclude(kind, s, failed)
  PROVE  GuardMeansCrops' /\ ~guard'
<1>1. ~guard
  BY LocalizerAssumption DEF GuardMeansCrops, LocalizerTypeOK
<1>2. CASE TargetSet
  <2>1. crops' <= MaxCropFailures /\ ~guard'
    BY <1>1, <1>2, LocalizerAssumption DEF TargetSet
  <2> QED BY <2>1 DEF GuardMeansCrops
<1>3. CASE \E n \in RetryCrops(kind, s.gap) :
             /\ IF failed + n > 0 THEN TargetFailed(failed + n) ELSE UNCHANGED cropping
             /\ Conclude(kind, s, s.seed)
  <2>1. guard' = guard
    BY <1>3 DEF TargetFailed, cropping
  <2>2. scan' = NoScan
    BY <1>3 DEF Conclude
  <2> QED BY <1>1, <2>1, <2>2, NoScanFields DEF GuardMeansCrops
<1> QED BY <1>2, <1>3 DEF RetryOrConclude

LEMMA TypeStep == TypeInv /\ [Next]_vars => TypeInv'
<1> SUFFICES ASSUME LocalizerTypeOK, GuardMeansCrops, [Next]_vars
             PROVE  LocalizerTypeOK' /\ GuardMeansCrops'
  BY DEF TypeInv
<1> USE LocalizerAssumption
<1>1. ASSUME NEW lag \in 0..MaxLag, DropGuarded(lag)
      PROVE  LocalizerTypeOK' /\ GuardMeansCrops'
  BY <1>1 DEF DropGuarded, Admissible, LocalizerTypeOK, GuardMeansCrops, request
<1>2. ASSUME NEW lag \in 0..MaxLag, DropUnprepared(lag)
      PROVE  LocalizerTypeOK' /\ GuardMeansCrops'
  <2>1. /\ UNCHANGED <<mapReceived, generation, poseAge, crops, guard>>
        /\ scan.phase = "idle" /\ crops <= MaxCropFailures
    BY <1>2 DEF DropUnprepared, Admissible, cropping
  <2>2. CASE Conclude("unprepared", NewScan(lag, current), current)
    <3>1. current \in Nat /\ NewScan(lag, current) \in Scans
      BY NewScanFields DEF LocalizerTypeOK
    <3>2. scan' = NoScan
      BY <2>2 DEF Conclude
    <3> QED BY <2>1, <2>2, <3>1, <3>2, ConcludeType, NoScanFields
            DEF LocalizerTypeOK, GuardMeansCrops
  <2>3. CASE /\ \E live \in BOOLEAN : output' = BridgedOutput(live)
             /\ UNCHANGED <<beliefs, gap, rejects, request, anchor, scan>>
    <3>1. output' \in Nat
      BY <2>3, BridgedType
    <3> QED BY <2>1, <2>3, <3>1
            DEF LocalizerTypeOK, GuardMeansCrops, beliefs, request
  <2> QED BY <1>2, <2>2, <2>3 DEF DropUnprepared
<1>3. ASSUME NEW lag \in 0..MaxLag, StartAlignment(lag)
      PROVE  LocalizerTypeOK' /\ GuardMeansCrops'
  <2>1. /\ UNCHANGED <<mapReceived, generation, poseAge>>
        /\ scan.phase = "idle" /\ crops <= MaxCropFailures
    BY <1>3 DEF StartAlignment, Admissible
  <2>2. PICK live \in BOOLEAN, ready \in CropOutcomes : \E seed \in Seeds(live) :
          IF ready
          THEN /\ TargetSet
               /\ scan' = NewScan(lag, seed)
               /\ UNCHANGED <<beliefs, gap, rejects, request, anchor, output>>
          ELSE RetryOrConclude("crop_failed", NewScan(lag, seed), 1)
    BY <1>3 DEF StartAlignment
  <2>3. PICK seed \in Seeds(live) :
          IF ready
          THEN /\ TargetSet
               /\ scan' = NewScan(lag, seed)
               /\ UNCHANGED <<beliefs, gap, rejects, request, anchor, output>>
          ELSE RetryOrConclude("crop_failed", NewScan(lag, seed), 1)
    BY <2>2
  <2>4. NewScan(lag, seed) \in Scans
    BY SeedType, NewScanFields
  <2>5. CASE ready
    <3>1. crops' \in 0..(MaxCropFailures + 2) /\ guard' \in BOOLEAN
      BY <2>3, <2>5, CroppingType
    <3>2. ~guard
      BY <2>1 DEF GuardMeansCrops, LocalizerTypeOK
    <3>3. crops' <= MaxCropFailures /\ ~guard'
      <4>1. TargetSet
        BY <2>3, <2>5, Zenon
      <4> QED BY <4>1, <2>1, <3>2 DEF TargetSet
    <3>4. GuardMeansCrops'
      BY <3>3 DEF GuardMeansCrops
    <3>5. /\ scan' \in Scans
          /\ UNCHANGED <<beliefs, gap, rejects, request, anchor, output>>
      BY <2>3, <2>4, <2>5
    <3> QED BY <2>1, <3>1, <3>4, <3>5 DEF LocalizerTypeOK, beliefs, request
  <2>6. CASE ~ready
    <3>1. RetryOrConclude("crop_failed", NewScan(lag, seed), 1)
      BY <2>3, <2>6
    <3>2. "crop_failed" \in Verdicts
      BY DEF Verdicts
    <3>3. GuardMeansCrops'
      BY <2>1, <2>4, <3>1, RetryOrConcludeCrops
    <3> QED BY <2>1, <2>4, <3>1, <3>2, <3>3, RetryOrConcludeType DEF LocalizerTypeOK
  <2> QED BY <2>5, <2>6
<1>4. CASE DiscardStale
  BY <1>4, NoScanFields DEF DiscardStale, LocalizerTypeOK, GuardMeansCrops, beliefs,
     cropping, request
<1>5. CASE PrimaryDone
  <2>1. /\ UNCHANGED <<mapReceived, generation, poseAge>>
        /\ scan \in Scans /\ scan.seed \in Nat /\ crops <= MaxCropFailures
    BY <1>5 DEF PrimaryDone, LocalizerTypeOK, GuardMeansCrops, Scans
  <2>2. PICK kind \in Alignments :
          IF kind \in {"ok", "warn"}
          THEN Conclude(kind, scan, scan.seed) /\ UNCHANGED cropping
          ELSE RetryOrConclude(kind, scan, 0)
    BY <1>5 DEF PrimaryDone
  <2>3. CASE kind \in {"ok", "warn"}
    <3>1. scan' = NoScan
      BY <2>2, <2>3 DEF Conclude
    <3> QED BY <2>1, <2>2, <2>3, <3>1, ConcludeType, NoScanFields
            DEF LocalizerTypeOK, GuardMeansCrops, cropping
  <2>4. CASE kind \notin {"ok", "warn"}
    <3>1. RetryOrConclude(kind, scan, 0) /\ kind \in Verdicts
      BY <2>2, <2>4 DEF Verdicts
    <3>2. GuardMeansCrops'
      BY <2>1, <3>1, RetryOrConcludeCrops
    <3> QED BY <2>1, <3>1, <3>2, RetryOrConcludeType DEF LocalizerTypeOK
  <2> QED BY <2>3, <2>4
<1>6. CASE RetryDone
  <2>1. /\ UNCHANGED <<mapReceived, generation, poseAge, crops, guard>>
        /\ scan \in Scans /\ scan.seed \in Nat /\ scan.retrySeed \in Nat
    BY <1>6 DEF RetryDone, LocalizerTypeOK, Scans, cropping
  <2>2. PICK kind : \E o \in Nat : Conclude(kind, scan, o)
    BY <1>6, <2>1 DEF RetryDone
  <2>3. PICK origin \in Nat : Conclude(kind, scan, origin)
    BY <2>2
  <2>4. scan' = NoScan
    BY <2>3 DEF Conclude
  <2> QED BY <2>1, <2>3, <2>4, ConcludeType, NoScanFields
          DEF LocalizerTypeOK, GuardMeansCrops
<1>7. ASSUME NEW lag \in 0..MaxLag, NEW live \in BOOLEAN, InitialPose(lag, live)
      PROVE  LocalizerTypeOK' /\ GuardMeansCrops'
  <2>1. guard' \in BOOLEAN /\ latched' \in BOOLEAN /\ requested' \in BOOLEAN /\ ~guard'
    BY <1>7, Zenon DEF InitialPose
  <2>2. crops' = 0 /\ mapReceived' = mapReceived /\ scan' = scan
    BY <1>7 DEF InitialPose
  <2>3. GuardMeansCrops'
    BY <2>1, <2>2 DEF GuardMeansCrops
  <2>4. /\ generation' \in Nat /\ current' \in Nat /\ accepted' \in Nat
        /\ predicted' \in Nat /\ anchor' \in Nat /\ output' \in Nat
        /\ poseAge' \in 0..MaxAge /\ gap' \in 0..MaxAge
        /\ rejects' \in 0..StreakScale /\ crops' \in 0..(MaxCropFailures + 2)
        /\ clears' \in 0..ClearSamples /\ recovery' = "tracking"
    BY <1>7 DEF InitialPose, LocalizerTypeOK
  <2> QED BY <2>1, <2>2, <2>3, <2>4 DEF LocalizerTypeOK
<1>8. CASE MapReceived
  BY <1>8 DEF MapReceived, LocalizerTypeOK, GuardMeansCrops, beliefs, cropping, request
<1>9. CASE TimerPublish
  <2>1. output' \in Nat
    BY <1>9, BridgedType DEF TimerPublish, LocalizerTypeOK
  <2> QED BY <1>9, <2>1 DEF TimerPublish, LocalizerTypeOK, GuardMeansCrops, beliefs,
             cropping, request
<1>10. CASE Tick
  <2>1. poseAge' \in 0..MaxAge /\ gap' \in 0..MaxAge
    BY <1>10 DEF Tick, Capped, LocalizerTypeOK
  <2>2. scan' \in Scans /\ (scan'.phase # "idle" => scan.phase # "idle")
    BY <1>10 DEF Tick, LocalizerTypeOK, Scans
  <2> QED BY <1>10, <2>1, <2>2 DEF Tick, LocalizerTypeOK, GuardMeansCrops, beliefs,
             cropping, request
<1>11. CASE UNCHANGED vars
  BY <1>11 DEF vars, LocalizerTypeOK, GuardMeansCrops, beliefs, cropping, request
<1> QED BY <1>1, <1>2, <1>3, <1>4, <1>5, <1>6, <1>7, <1>8, <1>9, <1>10, <1>11
        DEF Next, ScanReceived, AlignmentDone

\* The pipeline's variables keep their types and ranges for every setting of
\* the parameters: a scan that was admitted below the crop failure threshold
\* adds at most two failures to the counter of setInputTargetForPose.
THEOREM LocalizerTypeCorrect == Spec => []LocalizerTypeOK
<1>1. Spec => []TypeInv
  BY TypeInit, TypeStep, PTL DEF Spec
<1> QED BY <1>1, PTL DEF TypeInv

-----------------------------------------------------------------------------
(* An initial pose is authoritative. *)

\* Seeds never come from the odometry bridge: either switch is off.
OwnSeeds == ~(MapOdomTf /\ OdomSeed)

\* Poses on /pcl_pose never come from the frozen odometry anchor.
OwnPoses == ~(MapOdomTf /\ Bridge)

ResetInv ==
  /\ TypeInv
  /\ OwnSeeds
  /\ BeliefsFollowReset
  /\ AppliedScansFollowReset
  /\ ScanFollowsReset
  /\ anchor <= generation /\ output <= generation

\* What the end of a scan does to the poses, when its seed and its origin
\* descend from the latest reset and it was not taken before it.
LEMMA ConcludeFollowsReset ==
  ASSUME ResetInv, NEW kind, NEW s \in Scans, NEW origin \in Nat,
         s.seed = generation, origin = generation, s.age <= poseAge,
         UNCHANGED <<generation, poseAge>>,
         Conclude(kind, s, origin)
  PROVE  ResetInv' \/ ~TypeInv'
<1>1. PICK evidence \in SUBSET {"far", "exploded"}, clear \in BOOLEAN,
           live \in BOOLEAN, freeze \in BOOLEAN :
        /\ PublishStatus(kind, s.gap, evidence, clear)
        /\ IF kind \in {"ok", "warn", "recovered"}
           THEN AcceptMeasurement(origin, s.age, live, freeze)
           ELSE MissMeasurement(kind, s.seed, live)
        /\ scan' = NoScan
  BY DEF Conclude
<1>2. ScanFollowsReset'
  BY <1>1, NoScanFields DEF ScanFollowsReset, ResetInv, TypeInv, LocalizerTypeOK
<1>3. CASE AcceptMeasurement(origin, s.age, live, freeze)
  <2>1. BeliefsFollowReset' /\ AppliedScansFollowReset'
    BY <1>3 DEF AcceptMeasurement, BeliefsFollowReset, AppliedScansFollowReset
  <2>2. anchor' <= generation' /\ output' <= generation'
    BY <1>3 DEF AcceptMeasurement, PublishAccepted, BridgedOutput, ResetInv, TypeInv,
       LocalizerTypeOK
  <2> QED BY <1>2, <2>1, <2>2 DEF ResetInv, OwnSeeds
<1>4. CASE MissMeasurement(kind, s.seed, live)
  <2>1. BeliefsFollowReset' /\ AppliedScansFollowReset'
    BY <1>4 DEF MissMeasurement, BeliefsFollowReset, AppliedScansFollowReset, ResetInv
  <2>2. anchor' <= generation' /\ output' <= generation'
    BY <1>4 DEF MissMeasurement, BridgedOutput, ResetInv
  <2> QED BY <1>2, <2>1, <2>2 DEF ResetInv, OwnSeeds
<1> QED BY <1>1, <1>3, <1>4

LEMMA RetryOrConcludeFollowsReset ==
  ASSUME ResetInv, NEW kind, NEW s \in Scans, NEW failed \in 0..1,
         s.seed = generation, s.generation = generation, s.age <= poseAge,
         UNCHANGED <<generation, poseAge>>,
         RetryOrConclude(kind, s, failed)
  PROVE  ResetInv' \/ ~TypeInv'
<1>1. CASE /\ scan' = [s EXCEPT !.phase = "retry", !.retrySeed = accepted,
                                !.fallback = kind]
           /\ UNCHANGED <<beliefs, gap, rejects, request, anchor, output>>
  <2>1. ScanFollowsReset'
    BY <1>1 DEF ScanFollowsReset, Scans, ResetInv, BeliefsFollowReset
  <2> QED BY <1>1, <2>1 DEF ResetInv, OwnSeeds, beliefs, BeliefsFollowReset,
             AppliedScansFollowReset
<1>2. CASE Conclude(kind, s, s.seed)
  <2>1. s.seed \in Nat
    BY DEF Scans
  <2> QED BY <1>2, <2>1, ConcludeFollowsReset
<1> QED BY <1>1, <1>2 DEF RetryOrConclude

LEMMA ResetStep == ResetInv /\ [Next]_vars => ResetInv'
<1> SUFFICES ASSUME ResetInv, [Next]_vars PROVE ResetInv'
  OBVIOUS
<1> USE LocalizerAssumption
<1>0. TypeInv' /\ LocalizerTypeOK
  BY TypeStep DEF ResetInv, TypeInv
<1>s. ASSUME NEW live \in BOOLEAN, NEW seed \in Seeds(live) PROVE seed = generation
  BY <1>s DEF Seeds, BridgeReady, ResetInv, OwnSeeds, BeliefsFollowReset
<1>1. ASSUME NEW lag \in 0..MaxLag, DropGuarded(lag) PROVE ResetInv'
  BY <1>0, <1>1 DEF DropGuarded, Admissible, ResetInv, OwnSeeds, BeliefsFollowReset,
     AppliedScansFollowReset, ScanFollowsReset, request
<1>2. ASSUME NEW lag \in 0..MaxLag, DropUnprepared(lag) PROVE ResetInv'
  <2>1. UNCHANGED <<generation, poseAge>> /\ lag <= poseAge
    BY <1>2 DEF DropUnprepared, Admissible
  <2>2. CASE Conclude("unprepared", NewScan(lag, current), current)
    <3>1. /\ current \in Nat /\ current = generation
          /\ NewScan(lag, current) \in Scans
          /\ NewScan(lag, current).seed = generation
          /\ NewScan(lag, current).age = lag
      BY <1>0, NewScanFields DEF LocalizerTypeOK, ResetInv, BeliefsFollowReset
    <3> QED BY <1>0, <2>1, <2>2, <3>1, ConcludeFollowsReset
  <2>3. CASE /\ \E live \in BOOLEAN : output' = BridgedOutput(live)
             /\ UNCHANGED <<beliefs, gap, rejects, request, anchor, scan>>
    BY <1>0, <2>1, <2>3 DEF BridgedOutput, ResetInv, OwnSeeds, beliefs,
       BeliefsFollowReset, AppliedScansFollowReset, ScanFollowsReset
  <2> QED BY <1>2, <2>2, <2>3 DEF DropUnprepared
<1>3. ASSUME NEW lag \in 0..MaxLag, StartAlignment(lag) PROVE ResetInv'
  <2>1. UNCHANGED <<generation, poseAge>> /\ lag <= poseAge
    BY <1>3 DEF StartAlignment, Admissible
  <2>2. PICK live \in BOOLEAN, ready \in CropOutcomes : \E seed \in Seeds(live) :
          IF ready
          THEN /\ TargetSet
               /\ scan' = NewScan(lag, seed)
               /\ UNCHANGED <<beliefs, gap, rejects, request, anchor, output>>
          ELSE RetryOrConclude("crop_failed", NewScan(lag, seed), 1)
    BY <1>3 DEF StartAlignment
  <2>3. PICK seed \in Seeds(live) :
          IF ready
          THEN /\ TargetSet
               /\ scan' = NewScan(lag, seed)
               /\ UNCHANGED <<beliefs, gap, rejects, request, anchor, output>>
          ELSE RetryOrConclude("crop_failed", NewScan(lag, seed), 1)
    BY <2>2
  <2>4. /\ seed = generation /\ NewScan(lag, seed) \in Scans
        /\ NewScan(lag, seed).seed = generation
        /\ NewScan(lag, seed).generation = generation
        /\ NewScan(lag, seed).phase = "primary"
        /\ NewScan(lag, seed).age <= poseAge
    BY <1>0, <1>s, <2>1, SeedType, NewScanFields
  <2>5. CASE ready
    <3>1. /\ scan' = NewScan(lag, seed)
          /\ UNCHANGED <<beliefs, gap, rejects, request, anchor, output>>
      BY <2>3, <2>5
    <3>2. ScanFollowsReset'
      BY <1>0, <2>1, <2>4, <3>1 DEF ScanFollowsReset, LocalizerTypeOK
    <3> QED BY <1>0, <2>1, <3>1, <3>2 DEF ResetInv, OwnSeeds, beliefs,
               BeliefsFollowReset, AppliedScansFollowReset
  <2>6. CASE ~ready
    <3>1. RetryOrConclude("crop_failed", NewScan(lag, seed), 1)
      BY <2>3, <2>6
    <3> QED BY <1>0, <2>1, <2>4, <3>1, RetryOrConcludeFollowsReset
  <2> QED BY <2>5, <2>6
<1>4. CASE DiscardStale
  BY <1>0, <1>4, NoScanFields DEF DiscardStale, LocalizerTypeOK, ResetInv, OwnSeeds,
     beliefs, BeliefsFollowReset, AppliedScansFollowReset, ScanFollowsReset
<1>5. CASE PrimaryDone
  <2>1. /\ UNCHANGED <<generation, poseAge>>
        /\ scan \in Scans /\ scan.seed \in Nat
        /\ scan.generation = generation /\ scan.seed = generation /\ scan.age <= poseAge
    BY <1>0, <1>5 DEF PrimaryDone, LocalizerTypeOK, Scans, ResetInv, ScanFollowsReset
  <2>2. PICK kind \in Alignments :
          IF kind \in {"ok", "warn"}
          THEN Conclude(kind, scan, scan.seed) /\ UNCHANGED cropping
          ELSE RetryOrConclude(kind, scan, 0)
    BY <1>5 DEF PrimaryDone
  <2>3. CASE Conclude(kind, scan, scan.seed)
    BY <1>0, <2>1, <2>3, ConcludeFollowsReset
  <2>4. CASE RetryOrConclude(kind, scan, 0)
    BY <1>0, <2>1, <2>4, RetryOrConcludeFollowsReset
  <2> QED BY <2>2, <2>3, <2>4
<1>6. CASE RetryDone
  <2>1. /\ UNCHANGED <<generation, poseAge>>
        /\ scan \in Scans /\ scan.seed \in Nat /\ scan.retrySeed \in Nat
        /\ scan.seed = generation /\ scan.retrySeed = generation /\ scan.age <= poseAge
    BY <1>0, <1>6 DEF RetryDone, LocalizerTypeOK, Scans, ResetInv, ScanFollowsReset
  <2>2. PICK kind : \/ Conclude(kind, scan, scan.seed)
                    \/ Conclude(kind, scan, scan.retrySeed)
    BY <1>6 DEF RetryDone
  <2> QED BY <1>0, <2>1, <2>2, ConcludeFollowsReset
<1>7. ASSUME NEW lag \in 0..MaxLag, NEW live \in BOOLEAN, InitialPose(lag, live)
      PROVE  ResetInv'
  <2>1. ScanFollowsReset'
    BY <1>0, <1>7 DEF InitialPose, LocalizerTypeOK, ResetInv, ScanFollowsReset, Scans
  <2>2. BeliefsFollowReset' /\ AppliedScansFollowReset'
    BY <1>0, <1>7 DEF InitialPose, LocalizerTypeOK, BeliefsFollowReset,
       AppliedScansFollowReset
  <2>3. anchor' <= generation' /\ output' <= generation'
    BY <1>0, <1>7 DEF InitialPose, LocalizerTypeOK, ResetInv
  <2> QED BY <1>0, <2>1, <2>2, <2>3 DEF ResetInv, OwnSeeds
<1>8. CASE MapReceived
  BY <1>0, <1>8 DEF MapReceived, ResetInv, OwnSeeds, beliefs, BeliefsFollowReset,
     AppliedScansFollowReset, ScanFollowsReset
<1>9. CASE TimerPublish
  <2>1. output' <= generation'
    BY <1>0, <1>9 DEF TimerPublish, BridgedOutput, ResetInv, BeliefsFollowReset,
       LocalizerTypeOK
  <2> QED BY <1>0, <1>9, <2>1 DEF TimerPublish, ResetInv, OwnSeeds, beliefs,
             BeliefsFollowReset, AppliedScansFollowReset, ScanFollowsReset
<1>10. CASE Tick
  <2>1. /\ poseAge' = Capped(poseAge + 1, MaxAge) /\ gap' = Capped(gap + 1, MaxAge)
        /\ scan.phase # "idle" => scan.age < MaxScanAge /\ scan' = [scan EXCEPT !.age = @ + 1]
        /\ scan.phase = "idle" => scan' = scan
        /\ UNCHANGED <<generation, beliefs, anchor, output>>
    BY <1>10 DEF Tick
  <2>2. AppliedScansFollowReset'
    BY <1>0, <2>1 DEF Capped, LocalizerTypeOK, ResetInv, AppliedScansFollowReset
  <2>3. ScanFollowsReset'
    BY <1>0, <2>1 DEF Capped, LocalizerTypeOK, Scans, ResetInv, ScanFollowsReset
  <2> QED BY <1>0, <2>1, <2>2, <2>3 DEF ResetInv, OwnSeeds, beliefs, BeliefsFollowReset
<1>11. CASE UNCHANGED vars
  BY <1>0, <1>11 DEF vars, ResetInv, OwnSeeds, beliefs, BeliefsFollowReset,
     AppliedScansFollowReset, ScanFollowsReset
<1> QED BY <1>1, <1>2, <1>3, <1>4, <1>5, <1>6, <1>7, <1>8, <1>9, <1>10, <1>11
        DEF Next, ScanReceived, AlignmentDone

LEMMA ResetInit == Init /\ OwnSeeds => ResetInv
<1> SUFFICES ASSUME Init, OwnSeeds PROVE ResetInv
  OBVIOUS
<1>1. TypeInv
  BY TypeInit
<1> QED BY <1>1, NoScanFields DEF Init, ResetInv, BeliefsFollowReset,
           AppliedScansFollowReset, ScanFollowsReset

\* Unless seeds are taken from the odometry bridge, the current pose, the last
\* accepted one and the prediction descend from the latest initial pose in
\* every state, whatever alignment was in flight when it arrived.
THEOREM InitialPoseIsAuthoritative == OwnSeeds /\ Spec => []BeliefsFollowReset
<1>1. OwnSeeds /\ Spec => []ResetInv
  BY ResetInit, ResetStep, PTL DEF Spec
<1>2. ResetInv => BeliefsFollowReset
  BY DEF ResetInv
<1> QED BY <1>1, <1>2, PTL

\* Under the same condition no scan stamped before the latest initial pose is
\* ever applied by the scan callback.
THEOREM OlderScansAreNotApplied == OwnSeeds /\ Spec => []AppliedScansFollowReset
<1>1. OwnSeeds /\ Spec => []ResetInv
  BY ResetInit, ResetStep, PTL DEF Spec
<1>2. ResetInv => AppliedScansFollowReset
  BY DEF ResetInv
<1> QED BY <1>1, <1>2, PTL

-----------------------------------------------------------------------------
(* Published poses. *)

LEMMA ConcludeOutput ==
  ASSUME OwnPoses, NEW kind, NEW s, NEW origin, Conclude(kind, s, origin)
  PROVE  output' \in {output, origin}
BY DEF Conclude, AcceptMeasurement, PublishAccepted, MissMeasurement, BridgedOutput,
   BridgeReady, OwnPoses

LEMMA RetryOrConcludeOutput ==
  ASSUME OwnPoses, NEW kind, NEW s, NEW failed, RetryOrConclude(kind, s, failed)
  PROVE  output' \in {output, s.seed}
<1>1. CASE UNCHANGED output
  BY <1>1
<1>2. CASE Conclude(kind, s, s.seed)
  BY <1>2, ConcludeOutput
<1> QED BY <1>1, <1>2 DEF RetryOrConclude

LEMMA OutputStep ==
  ASSUME ResetInv, OwnPoses, [Next]_vars
  PROVE  output' \in {output, generation, generation'}
<1>0. /\ LocalizerTypeOK /\ current = generation
      /\ scan.phase # "idle" /\ scan.generation = generation => scan.seed = generation
      /\ scan.phase = "retry" /\ scan.generation = generation => scan.retrySeed = generation
  BY DEF ResetInv, TypeInv, BeliefsFollowReset, ScanFollowsReset
<1>b. \A live : BridgedOutput(live) = output
  BY DEF BridgedOutput, BridgeReady, OwnPoses
<1>1. ASSUME ScanReceived PROVE output' \in {output, generation}
  <2>1. PICK l \in 0..MaxLag : DropGuarded(l) \/ DropUnprepared(l) \/ StartAlignment(l)
    BY <1>1 DEF ScanReceived
  <2>2. CASE DropGuarded(l)
    BY <2>2 DEF DropGuarded
  <2>3. CASE DropUnprepared(l)
    BY <1>0, <1>b, <2>3, ConcludeOutput DEF DropUnprepared
  <2>4. CASE StartAlignment(l)
    <3>1. PICK live \in BOOLEAN, ready \in CropOutcomes : \E seed \in Seeds(live) :
            IF ready
            THEN /\ TargetSet
                 /\ scan' = NewScan(l, seed)
                 /\ UNCHANGED <<beliefs, gap, rejects, request, anchor, output>>
            ELSE RetryOrConclude("crop_failed", NewScan(l, seed), 1)
      BY <2>4 DEF StartAlignment
    <3>2. PICK seed \in Seeds(live) :
            output' = output \/ RetryOrConclude("crop_failed", NewScan(l, seed), 1)
      BY <3>1
    <3>3. seed = generation
      BY DEF Seeds, BridgeReady, ResetInv, OwnSeeds, BeliefsFollowReset
    <3>4. NewScan(l, seed).seed = generation
      BY <3>3 DEF NewScan
    <3> QED BY <3>2, <3>4, RetryOrConcludeOutput
  <2> QED BY <2>1, <2>2, <2>3, <2>4
<1>2. CASE AlignmentDone
  <2>1. CASE DiscardStale
    BY <2>1 DEF DiscardStale
  <2>2. CASE PrimaryDone
    <3>1. scan.seed = generation
      BY <1>0, <2>2 DEF PrimaryDone
    <3>2. PICK kind \in Alignments :
            Conclude(kind, scan, scan.seed) \/ RetryOrConclude(kind, scan, 0)
      BY <2>2 DEF PrimaryDone
    <3> QED BY <3>1, <3>2, ConcludeOutput, RetryOrConcludeOutput
  <2>3. CASE RetryDone
    <3>1. scan.seed = generation /\ scan.retrySeed = generation
      BY <1>0, <2>3 DEF RetryDone
    <3>2. PICK kind : \/ Conclude(kind, scan, scan.seed)
                      \/ Conclude(kind, scan, scan.retrySeed)
      BY <2>3 DEF RetryDone
    <3> QED BY <3>1, <3>2, ConcludeOutput
  <2> QED BY <1>2, <2>1, <2>2, <2>3 DEF AlignmentDone
<1>3. ASSUME NEW lag \in 0..MaxLag, NEW live \in BOOLEAN, InitialPose(lag, live)
      PROVE  output' = generation'
  BY <1>3 DEF InitialPose
<1>4. CASE TimerPublish
  BY <1>0, <1>b, <1>4 DEF TimerPublish
<1>5. CASE MapReceived \/ Tick \/ UNCHANGED vars
  BY <1>5 DEF MapReceived, Tick, vars
<1> QED BY <1>1, <1>2, <1>3, <1>4, <1>5 DEF Next

\* Unless seeds or poses are taken from the odometry anchor, /pcl_pose never
\* goes back to a pose of before an initial pose it has already shown.
THEOREM PublishedPosesAreMonotone == OwnSeeds /\ OwnPoses /\ Spec => PublishedNeverGoesBack
<1>1. ResetInv /\ OwnPoses /\ [Next]_vars => (ResetInv /\ OwnPoses)'
  BY ResetStep DEF OwnPoses
<1>2. ResetInv /\ ResetInv' /\ OwnPoses /\ [Next]_vars => [output' >= output]_vars
  <2> SUFFICES ASSUME ResetInv, ResetInv', OwnPoses, [Next]_vars PROVE output' >= output
    OBVIOUS
  <2>1. output' \in {output, generation, generation'}
    BY OutputStep
  <2>2. output \in Nat /\ generation \in Nat /\ generation' \in Nat /\ output <= generation
    BY DEF ResetInv, TypeInv, LocalizerTypeOK
  <2>3. generation <= generation'
    <3>1. generation' = generation \/ generation' = generation + 1
      BY DEF Next, ScanReceived, DropGuarded, DropUnprepared, StartAlignment,
         AlignmentDone, DiscardStale, PrimaryDone, RetryDone, InitialPose, MapReceived,
         TimerPublish, Tick, vars
    <3> QED BY <2>2, <3>1
  <2> QED BY <2>1, <2>2, <2>3
<1> QED BY <1>1, <1>2, ResetInit, PTL DEF Spec, PublishedNeverGoesBack

-----------------------------------------------------------------------------
(* The crop failure guard. *)

\* For every threshold, only a new initial pose lifts the crop failure guard:
\* while it is up no alignment is in flight that could still find a target.
THEOREM GuardHolds == Spec => GuardLiftedByReset
<1>1. Spec => []TypeInv
  BY TypeInit, TypeStep, PTL DEF Spec
<1>2. TypeInv /\ [Next]_vars
        => [guard /\ ~guard' => generation' > generation]_vars
  <2> SUFFICES ASSUME TypeInv, [Next]_vars, guard, ~guard'
               PROVE  generation' > generation
    OBVIOUS
  <2>1. crops > MaxCropFailures /\ crops \in Nat /\ scan.phase = "idle" /\ generation \in Nat
    BY LocalizerAssumption DEF TypeInv, GuardMeansCrops, LocalizerTypeOK
  <2>2. ASSUME NEW lag \in 0..MaxLag
        PROVE  ~DropGuarded(lag) /\ ~DropUnprepared(lag) /\ ~StartAlignment(lag)
    <3>1. ~DropGuarded(lag)
      BY Zenon DEF DropGuarded
    <3>2. ~(crops <= MaxCropFailures)
      BY <2>1, LocalizerAssumption
    <3> QED BY <3>1, <3>2, Zenon DEF DropUnprepared, StartAlignment
  <2>3. ~AlignmentDone
    BY <2>1 DEF AlignmentDone, DiscardStale, PrimaryDone, RetryDone
  <2>4. ~MapReceived /\ ~TimerPublish /\ ~Tick /\ ~UNCHANGED vars
    BY DEF MapReceived, TimerPublish, Tick, vars, cropping
  <2>5. PICK lag \in 0..MaxLag, live \in BOOLEAN : InitialPose(lag, live)
    BY <2>2, <2>3, <2>4, Zenon DEF Next, ScanReceived
  <2> QED BY <2>1, <2>5 DEF InitialPose
<1> QED BY <1>1, <1>2, PTL DEF Spec, GuardLiftedByReset

-----------------------------------------------------------------------------
(* The request. *)

\* With the latch on and at least two clear samples asked for.
LatchHolds == LatchEnabled /\ ClearSamples >= 2

RequestInv ==
  /\ TypeInv
  /\ RecoveryMatchesRequest
  /\ LatchHolds => ClearsAreAccepted

LEMMA StatusMatches ==
  ASSUME NEW kind, NEW age, NEW evidence, NEW clear,
         PublishStatus(kind, age, evidence, clear)
  PROVE  RecoveryMatchesRequest'
BY DEF PublishStatus, RecoveryMatchesRequest

\* The latch after the end of a scan.
LEMMA ConcludeLatch ==
  ASSUME LocalizerTypeOK, LatchHolds, ClearsAreAccepted,
         NEW kind, NEW s, NEW origin, Conclude(kind, s, origin)
  PROVE  /\ ClearsAreAccepted'
         /\ requested /\ ~requested' => recovery' = "tracking" /\ rejects = 0
<1>1. PICK evidence \in SUBSET {"far", "exploded"}, clear \in BOOLEAN,
           live \in BOOLEAN, freeze \in BOOLEAN :
        /\ PublishStatus(kind, s.gap, evidence, clear)
        /\ IF kind \in {"ok", "warn", "recovered"}
           THEN AcceptMeasurement(origin, s.age, live, freeze)
           ELSE MissMeasurement(kind, s.seed, live)
  BY DEF Conclude
<1> DEFINE t == Triggered(kind, s.gap, evidence)
           c == clear /\ kind = "ok"
<1>2. ApplyLatch(t, c)
  BY <1>1 DEF PublishStatus
<1>3. kind = "ok" => rejects' = 0
  BY <1>1 DEF AcceptMeasurement
<1>4. recovery' = IF requested' THEN "reinitialization_requested"
                  ELSE IF kind # "ok" \/ rejects > 0 THEN "recovering"
                  ELSE "tracking"
  BY <1>1 DEF PublishStatus
<1>5. t \in BOOLEAN /\ latched \in BOOLEAN /\ requested = latched
  BY DEF Triggered, LocalizerTypeOK, LatchHolds, ClearsAreAccepted
<1>6. clears \in Nat /\ ClearSamples \in Nat \ {0} /\ ClearSamples >= 2 /\ rejects \in Nat
      /\ (clears > 0 => rejects = 0) /\ clears < ClearSamples
  BY LocalizerAssumption DEF LocalizerTypeOK, LatchHolds, ClearsAreAccepted
<1>7. CASE latched /\ ~t /\ c
  <2>1. CASE clears + 1 >= ClearSamples
    <3>1. latched' = FALSE /\ clears' = 0 /\ requested' = latched'
      BY <1>2, <1>7, <2>1, Zenon DEF ApplyLatch, LatchHolds
    <3>2. rejects = 0 /\ kind = "ok"
      BY <1>6, <1>7, <2>1
    <3>3. ~requested'
      BY <3>1, Zenon
    <3>4. recovery' = "tracking"
      BY <1>4, <3>2, <3>3
    <3>5. ClearsAreAccepted'
      BY <1>6, <3>1 DEF ClearsAreAccepted
    <3> QED BY <3>2, <3>4, <3>5
  <2>2. CASE ~(clears + 1 >= ClearSamples)
    <3>1. latched' = (latched \/ t) /\ clears' = clears + 1 /\ requested' = latched'
      BY <1>2, <1>7, <2>2, Zenon DEF ApplyLatch, LatchHolds
    <3>2. latched' /\ requested' /\ rejects' = 0
      BY <1>3, <1>7, <3>1, Zenon
    <3> QED BY <1>6, <2>2, <3>1, <3>2 DEF ClearsAreAccepted
  <2> QED BY <2>1, <2>2
<1>8. CASE ~(latched /\ ~t /\ c)
  <2>1. latched' = (latched \/ t) /\ clears' = 0 /\ requested' = latched'
    <3> HIDE DEF t, c
    <3> QED BY <1>2, <1>8, Zenon DEF ApplyLatch, LatchHolds
  <2>2. requested => requested'
    BY <1>5, <2>1, Zenon
  <2>3. ClearsAreAccepted'
    BY <1>6, <2>1 DEF ClearsAreAccepted
  <2> QED BY <2>2, <2>3
<1> QED BY <1>7, <1>8

\* Every step either ends a scan, or is a reset, or leaves the request alone.
LEMMA RequestSteps ==
  ASSUME [Next]_vars
  PROVE  \/ \E kind, s, origin : Conclude(kind, s, origin)
         \/ /\ ~latched' /\ clears' = 0 /\ requested' = FALSE
            /\ recovery' = "tracking" /\ generation' = generation + 1
         \/ UNCHANGED <<latched, clears, requested, recovery, rejects>>
<1>1. CASE ScanReceived
  BY <1>1 DEF ScanReceived, DropGuarded, DropUnprepared, StartAlignment,
     RetryOrConclude, request
<1>2. CASE AlignmentDone
  BY <1>2 DEF AlignmentDone, DiscardStale, PrimaryDone, RetryDone, RetryOrConclude,
     request
<1>3. ASSUME NEW lag \in 0..MaxLag, NEW live \in BOOLEAN, InitialPose(lag, live)
      PROVE  /\ ~latched' /\ clears' = 0 /\ requested' = FALSE
             /\ recovery' = "tracking" /\ generation' = generation + 1
  BY <1>3, Zenon DEF InitialPose
<1>4. CASE MapReceived \/ TimerPublish \/ Tick \/ UNCHANGED vars
  BY <1>4 DEF MapReceived, TimerPublish, Tick, vars, request
<1> QED BY <1>1, <1>2, <1>3, <1>4 DEF Next

LEMMA RequestInit == Init => RequestInv
<1> SUFFICES ASSUME Init PROVE RequestInv
  OBVIOUS
<1>1. TypeInv
  BY TypeInit
<1>2. ~latched /\ ~requested /\ clears = 0 /\ recovery = "tracking"
  BY Zenon DEF Init
<1>3. requested = latched
  BY Zenon DEF Init
<1> QED BY <1>1, <1>2, <1>3, LocalizerAssumption
        DEF RequestInv, RecoveryMatchesRequest, ClearsAreAccepted, LatchHolds

LEMMA RequestStep ==
  ASSUME RequestInv, [Next]_vars
  PROVE  /\ RequestInv'
         /\ LatchHolds /\ requested /\ ~requested' /\ generation' = generation
              => recovery' = "tracking" /\ rejects = 0
<1>1. TypeInv' /\ LocalizerTypeOK
  BY TypeStep DEF RequestInv, TypeInv
<1>2. LatchHolds' <=> LatchHolds
  BY DEF LatchHolds
<1>3. CASE \E kind, s, origin : Conclude(kind, s, origin)
  <2>1. PICK kind, s, origin : Conclude(kind, s, origin)
    BY <1>3
  <2>2. RecoveryMatchesRequest'
    BY <2>1, StatusMatches DEF Conclude
  <2>3. LatchHolds => /\ ClearsAreAccepted'
                      /\ requested /\ ~requested' => recovery' = "tracking" /\ rejects = 0
    BY <1>1, <2>1, ConcludeLatch DEF RequestInv
  <2> QED BY <1>1, <1>2, <2>2, <2>3 DEF RequestInv
<1>4. CASE /\ ~latched' /\ clears' = 0 /\ requested' = FALSE
           /\ recovery' = "tracking" /\ generation' = generation + 1
  <2>1. requested' = latched'
    BY <1>1, <1>4, Zenon DEF TypeInv, LocalizerTypeOK
  <2>2. RecoveryMatchesRequest'
    BY <1>4 DEF RecoveryMatchesRequest
  <2>3. ClearsAreAccepted'
    BY <1>4, <2>1, LocalizerAssumption DEF ClearsAreAccepted
  <2>4. generation' # generation
    BY <1>1, <1>4 DEF LocalizerTypeOK
  <2> QED BY <1>1, <2>2, <2>3, <2>4 DEF RequestInv
<1>5. CASE UNCHANGED <<latched, clears, requested, recovery, rejects>>
  <2>1. requested' <=> requested
    BY <1>5
  <2> QED BY <1>1, <1>2, <1>5, <2>1 DEF RequestInv, RecoveryMatchesRequest,
             ClearsAreAccepted
<1> QED BY <1>3, <1>4, <1>5, RequestSteps

\* The recovery state on the status topic says a request is out if and only if
\* the request topic does.
THEOREM RecoveryIsConsistent == Spec => []RecoveryMatchesRequest
<1>1. RequestInv /\ [Next]_vars => RequestInv'
  BY RequestStep
<1>2. RequestInv => RecoveryMatchesRequest
  BY DEF RequestInv
<1> QED BY <1>1, <1>2, RequestInit, PTL DEF Spec

\* With the latch on and at least two clear samples asked for, a request is
\* withdrawn only when tracking is back: never in the middle of a reject streak.
THEOREM RequestIsHeld == LatchHolds /\ Spec => WithdrawnWhileTracking
<1>1. RequestInv /\ LatchHolds /\ [Next]_vars => (RequestInv /\ LatchHolds)'
  BY RequestStep DEF LatchHolds
<1>2. RequestInv /\ LatchHolds /\ [Next]_vars
        => [requested /\ ~requested' /\ generation' = generation
              => recovery' = "tracking" /\ rejects = 0]_vars
  BY RequestStep
<1> QED BY <1>1, <1>2, RequestInit, PTL DEF Spec, WithdrawnWhileTracking
=============================================================================
