-------------------------- MODULE OdometryChain --------------------------
(***************************************************************************)
(* Odometry between FAST-LIO and Nav2: fastlio_nav2_odom_filter forwards   *)
(* the estimates it finds plausible against the last one it accepted and   *)
(* repeats that one, still and freshly stamped, for the others;            *)
(* external_pose_map_corrector publishes map -> odom, blended towards the  *)
(* difference between an external pose and the filtered odometry.  Nav2    *)
(* sees the composition of the two.                                        *)
(*                                                                         *)
(* Positions are cells of one axis: the code bounds the yaw by rules of    *)
(* the same form as the distance.  FAST-LIO is external: any estimate with *)
(* any stamp, so that a divergence, a restart and a clock step are all     *)
(* among its behaviours.                                                   *)
(***************************************************************************)
EXTENDS Integers

CONSTANTS
    Cells,         \* positions FAST-LIO may report
    MapCells,      \* positions inside the map and its margin
    Stamps,        \* stamps of the estimates
    MaxJump,       \* max_position_jump
    MaxLinearSpeed,      \* max_linear_speed, cells per unit of the stamps
    MaxGap,        \* max_timestamp_gap; 0 stands for "off"
    Monotonic,     \* reject_non_monotonic_timestamps
    PublishLast,   \* publish_last_on_reject
    MaxStep,       \* max_correction_step
    AlphaNum, AlphaDen  \* correction_alpha

NoPose == [none |-> TRUE]

ASSUME OdometryAssumption ==
    /\ Cells \subseteq Int /\ MapCells \subseteq Cells
    /\ Stamps \subseteq Nat
    /\ MaxJump \in Nat /\ MaxLinearSpeed \in Nat /\ MaxGap \in Nat /\ MaxStep \in Nat
    /\ Monotonic \in BOOLEAN /\ PublishLast \in BOOLEAN
    /\ AlphaDen \in Nat \ {0} /\ AlphaNum \in 0..AlphaDen

VARIABLES
    lastValid,    \* last_valid_*: the position and raw stamp accepted last
    nav,          \* the odometry published last for Nav2
    localPose,    \* the corrector's latest local odometry
    externalPose, \* the corrector's latest external pose, in the map
    correction    \* filtered_correction, which is also the published map -> odom

odometryVars == <<lastValid, nav, localPose, externalPose, correction>>
filterVars == <<lastValid, nav>>
correctorVars == <<localPose, externalPose, correction>>

DistanceOf(a, b) == IF a > b THEN a - b ELSE b - a
Known(pose) == pose # NoPose
CellAt(x) == [x |-> x]

OdometryInit ==
    /\ lastValid = NoPose /\ nav = NoPose
    /\ localPose = NoPose /\ externalPose = NoPose /\ correction = NoPose

----------------------------------------------------------------------------
(* The filter.  A stamp or a step is checked against the accepted estimate *)
(* only; a zero limit switches a check off.                                *)
Exceeds(value, limit) == limit > 0 /\ value > limit

Follows(x, stamp) ==
    LET dt == stamp - lastValid.stamp
        step == DistanceOf(x, lastValid.x)
    IN  /\ ~(Monotonic /\ dt <= 0)
        /\ ~Exceeds(dt, MaxGap)
        /\ ~Exceeds(step, MaxJump)
        /\ ~(dt > 0 /\ MaxLinearSpeed > 0 /\ step > MaxLinearSpeed * dt)

\* sane: finite, with height, roll and pitch inside their limits.
Plausible(x, stamp, sane) ==
    /\ sane
    /\ Known(lastValid) => Follows(x, stamp)
    /\ x \in MapCells

(* The twist is the step since the accepted estimate over its time; there  *)
(* is none for the first one.                                              *)
DerivedTwist(x, stamp) ==
    IF Known(lastValid) /\ stamp > lastValid.stamp
    THEN [dx |-> x - lastValid.x, dt |-> stamp - lastValid.stamp]
    ELSE [dx |-> 0, dt |-> 1]

Accept(x, stamp) ==
    /\ nav' = [x |-> x, twist |-> DerivedTwist(x, stamp)]
    /\ lastValid' = [x |-> x, stamp |-> stamp]

RepeatLast ==
    /\ nav' = IF PublishLast /\ Known(nav)
              THEN [nav EXCEPT !.twist = [dx |-> 0, dt |-> 1]]
              ELSE nav
    /\ UNCHANGED lastValid

OnOdom(x, stamp, sane) ==
    /\ IF Plausible(x, stamp, sane) THEN Accept(x, stamp) ELSE RepeatLast
    /\ UNCHANGED correctorVars

----------------------------------------------------------------------------
(* The corrector.                                                          *)
OnLocalOdom ==
    /\ Known(nav)
    /\ localPose' = CellAt(nav.x)
    /\ UNCHANGED <<filterVars, externalPose, correction>>

\* An external pose that is tilted or not finite is ignored.
OnExternalPose(x, sane) ==
    /\ externalPose' = IF sane THEN CellAt(x) ELSE externalPose
    /\ UNCHANGED <<filterVars, localPose, correction>>

TargetCorrection == externalPose.x - localPose.x

StepIsValidAlways(target) == TRUE

StepIsValid(target) ==
    Known(correction) => DistanceOf(target, correction.x) <= MaxStep

\* alpha of the way to the target, on the grid: either neighbour.
FilteredTarget(target) ==
    IF ~Known(correction) \/ AlphaNum = AlphaDen THEN {target}
    ELSE LET exact == AlphaNum * target + (AlphaDen - AlphaNum) * correction.x
         IN  {exact \div AlphaDen, -((-exact) \div AlphaDen)}

\* A step that is too long is skipped and the old transform is not renewed.
CorrectorTimer ==
    /\ Known(localPose) /\ Known(externalPose)
    /\ StepIsValid(TargetCorrection)
    /\ \E x \in FilteredTarget(TargetCorrection) : correction' = CellAt(x)
    /\ UNCHANGED <<filterVars, localPose, externalPose>>

OdometryNext ==
    \/ \E x \in Cells, stamp \in Stamps, sane \in BOOLEAN : OnOdom(x, stamp, sane)
    \/ OnLocalOdom
    \/ \E x \in MapCells, sane \in BOOLEAN : OnExternalPose(x, sane)
    \/ CorrectorTimer

OdometrySpec == OdometryInit /\ [][OdometryNext]_odometryVars
----------------------------------------------------------------------------
Poses == {NoPose} \cup [x : Int]

\* Type invariant of the odometry chain.
OdometryTypeOK ==
    /\ lastValid \in {NoPose} \cup [x : MapCells, stamp : Stamps]
    /\ nav \in {NoPose} \cup [x : MapCells, twist : [dx : Int, dt : Nat \ {0}]]
    /\ {localPose, externalPose, correction} \subseteq Poses

(* Where Nav2 places the robot: map -> odom composed with the odometry.    *)
BothKnown == Known(nav) /\ Known(correction)
MapPose == correction.x + nav.x
BlendStep == (AlphaNum * MaxStep + AlphaDen - 1) \div AlphaDen

(* The pose Nav2 plans from never jumps: whatever FAST-LIO and the external *)
(* source report, one message or timer moves it by at most the odometry    *)
(* jump or the blended correction step, and the odometry twist stays below *)
(* the speed limit (fastlio_nav2_odom_filter, external_pose_map_corrector). *)
MapPoseIsGradual ==
    [][/\ BothKnown => \/ DistanceOf(MapPose', MapPose) <= MaxJump
                    \/ DistanceOf(MapPose', MapPose) <= BlendStep
       /\ Known(nav)' => DistanceOf(nav'.twist.dx, 0) <= MaxLinearSpeed * nav'.twist.dt]_odometryVars

(* The correction never drives the robot away from the external pose it    *)
(* tracks, except by correcting for an odometry it has not received yet    *)
(* (on_timer with a local pose older than what Nav2 uses).                 *)
CorrectsTowardsExternal ==
    [][correction' # correction /\ BothKnown /\ localPose = CellAt(nav.x)
         => DistanceOf(MapPose', externalPose.x) <= DistanceOf(MapPose, externalPose.x)]_odometryVars

(* The correction of the map pose as a whole: small steps, and only towards *)
(* the external pose.                                                      *)
CorrectionIsGradual == []OdometryTypeOK /\ MapPoseIsGradual /\ CorrectsTowardsExternal
=============================================================================
