------------------------- MODULE MotionCommands -------------------------
(***************************************************************************)
(* The path of a velocity command from Nav2 to the robot: the velocity     *)
(* limiter, and the one back end that consumes /cmd_vel - the Go2W command *)
(* bridge, the Isaac policy controller, the rl_sar controller or the       *)
(* simulated odometry.  Each consumer is a callback that stores the last   *)
(* command with its arrival time and a periodic timer that acts on what is *)
(* stored, so what matters is how old the stored values are when the timer *)
(* fires.                                                                  *)
(*                                                                         *)
(* One axis stands for the three of a Twist and one joint target for the   *)
(* twelve: the code treats them alike.  Joint states are told apart, for a *)
(* message may carry some of them.  Time is counted in timer periods; an   *)
(* age stops counting at MaxAge.                                           *)
(***************************************************************************)
EXTENDS Integers

CONSTANTS
    Backends,        \* the back ends a run considers
    Speeds,          \* finite velocity commands
    NotFinite,       \* a NaN or an infinity
    NoCommand,       \* no command on its way
    Silent,          \* nothing published yet
    Actions,         \* finite outputs of the learned policy (external)
    Limit,           \* max_linear_x of the limiter
    MaxX,            \* max_linear_x of the bridge
    AllowReverse,
    Deadband,        \* commands below it do not count as a command
    EnableOutput,    \* enable_output of the bridge
    CommandTimeout,         \* command_timeout, cmd_timeout, timeout
    StateTimeout,    \* state_timeout of the controllers
    StandTime,       \* stand_duration of the rl_sar controller
    RunIdle,         \* run_policy_when_idle
    StandIfStale,    \* stand_when_state_stale
    RequireOdom,     \* require_odom
    Joints,          \* the joints whose states the controllers read
    ScaleOverride,   \* the parameter action_scale; 0 is the public default
    ContractScale,   \* the action scale of the environment file
    SafeLow, SafeHigh,  \* safe joint range, with safe_joint_clip
    Stand,           \* default_q
    BlendNum, BlendDen, \* target_blend
    StepLimit,       \* target_step_limit
    MaxAge           \* bound: where ages stop counting

ASSUME MotionAssumption ==
    /\ Backends \subseteq {"go2w", "isaac", "rl_sar", "simulated"}
    /\ Speeds \subseteq Int /\ 0 \in Speeds
    /\ {NotFinite, NoCommand, Silent} \cap Int = {} /\ NoCommand # NotFinite
    /\ Actions \subseteq Int /\ 0 \in Actions
    /\ Limit \in Nat \ {0} /\ MaxX \in Nat /\ Deadband \in Nat
    /\ {AllowReverse, EnableOutput, RunIdle, StandIfStale, RequireOdom} \subseteq BOOLEAN
    /\ Joints # {}
    /\ CommandTimeout \in Nat /\ StateTimeout \in Nat /\ StandTime \in Nat
    /\ ScaleOverride \in Nat /\ ContractScale \in Nat
    /\ SafeLow \in Int /\ SafeHigh \in Int /\ Stand \in SafeLow..SafeHigh
    /\ BlendDen \in Nat \ {0} /\ BlendNum \in 0..BlendDen
    /\ StepLimit \in Nat
    /\ MaxAge \in Nat /\ MaxAge > CommandTimeout /\ MaxAge > StateTimeout

VARIABLES
    backend,    \* the back end that was launched
    limited,    \* whether the limiter is between Nav2 and /cmd_vel
    clip,       \* safe_joint_clip; the rl_sar controller always clips
    inFlight,   \* the command on its way to the back end, or NoCommand
    lastCmd, cmdAge,      \* last_cmd and the time since it arrived
    odomAge, jointAge,    \* time since odometry (or IMU) and joint states
    seen,       \* history: time since the state of each joint arrived
    upTime,     \* time since the node started, for stand_duration
    out,        \* what was published last: twist, joint target
    sentStop,   \* the bridge has sent its stop
    poisoned,   \* the integrated pose of the simulator is not finite
    due         \* the timer has not fired yet in this period

motionVars == <<backend, limited, clip, inFlight, lastCmd, cmdAge, odomAge,
          jointAge, seen, upTime, out, sentStop, poisoned, due>>

Commands == Speeds \cup {NotFinite}
MagnitudeOf(v) == IF v < 0 THEN -v ELSE v
Clamped(v, low, high) ==
    IF v < low THEN low ELSE IF v > high THEN high ELSE v
Aged(age) == IF age < MaxAge THEN age + 1 ELSE age
Recent(age, timeout) == age <= timeout

(***************************************************************************)
(* Values of the stored stamps that were never set are "long ago".         *)
(***************************************************************************)
MotionInit ==
    /\ backend \in Backends
    /\ limited \in BOOLEAN
    /\ clip \in BOOLEAN /\ (backend # "isaac" => clip)
    /\ inFlight = NoCommand
    /\ lastCmd = 0 /\ cmdAge = MaxAge
    /\ odomAge = MaxAge /\ jointAge = MaxAge /\ seen = [j \in Joints |-> MaxAge]
    /\ upTime = 0
    /\ out = IF backend \in {"isaac", "rl_sar"} THEN Stand ELSE Silent
    /\ sentStop = FALSE /\ poisoned = FALSE /\ due = TRUE

----------------------------------------------------------------------------
(* The limiter republishes every command it gets, clamped; a value that is *)
(* not finite becomes zero.                                                *)
Limited(v) == IF v = NotFinite THEN 0 ELSE Clamped(v, -Limit, Limit)

\* Nav2 publishes a command; one that was not taken yet is overwritten.
NavCommands(v) ==
    /\ inFlight' = IF limited THEN Limited(v) ELSE v
    /\ UNCHANGED <<backend, limited, clip, lastCmd, cmdAge, odomAge, jointAge, seen,
                   upTime, out, sentStop, poisoned, due>>

(* What the back end stores: the bridge clamps and applies its deadband on *)
(* arrival, the others store the command as it comes.                      *)
BridgeCommand(v) ==
    LET finite == IF v = NotFinite THEN 0 ELSE v
        kept == Clamped(finite, IF AllowReverse THEN -MaxX ELSE 0, MaxX)
    IN  IF MagnitudeOf(kept) < Deadband THEN 0 ELSE kept

OnCmdStoppedOnce ==
    /\ inFlight # NoCommand
    /\ lastCmd' = IF backend = "go2w" THEN BridgeCommand(inFlight) ELSE inFlight
    /\ cmdAge' = 0
    /\ inFlight' = NoCommand
    /\ UNCHANGED <<backend, limited, clip, odomAge, jointAge, seen, upTime, out,
                   sentStop, poisoned, due>>

OnCmd ==
    /\ inFlight # NoCommand
    /\ lastCmd' = IF backend = "go2w" THEN BridgeCommand(inFlight) ELSE inFlight
    /\ cmdAge' = 0
    /\ sentStop' = FALSE
    /\ inFlight' = NoCommand
    /\ UNCHANGED <<backend, limited, clip, odomAge, jointAge, seen, upTime, out,
                   poisoned, due>>

CommandLost ==
    /\ inFlight # NoCommand
    /\ inFlight' = NoCommand
    /\ UNCHANGED <<backend, limited, clip, lastCmd, cmdAge, odomAge, jointAge, seen,
                   upTime, out, sentStop, poisoned, due>>

OnOdometry ==
    /\ backend = "isaac"
    /\ odomAge' = 0
    /\ UNCHANGED <<backend, limited, clip, inFlight, lastCmd, cmdAge, jointAge, seen,
                   upTime, out, sentStop, poisoned, due>>

OnImu ==
    /\ backend = "rl_sar"
    /\ odomAge' = 0
    /\ UNCHANGED <<backend, limited, clip, inFlight, lastCmd, cmdAge, jointAge, seen,
                   upTime, out, sentStop, poisoned, due>>

(* A message carries the states of some of the joints, or of none of them; *)
(* one that carries any makes the age of all zero.                         *)
JointsSeen(carried) == [j \in Joints |-> IF j \in carried THEN 0 ELSE seen[j]]

\* Mutant: every message makes the age zero.
OnAnyJointMessage(carried) ==
    /\ backend \in {"isaac", "rl_sar"}
    /\ jointAge' = 0
    /\ seen' = JointsSeen(carried)
    /\ UNCHANGED <<backend, limited, clip, inFlight, lastCmd, cmdAge, odomAge, upTime,
                   out, sentStop, poisoned, due>>

OnJointState(carried) ==
    /\ backend \in {"isaac", "rl_sar"}
    /\ jointAge' = IF carried # {} THEN 0 ELSE jointAge
    /\ seen' = JointsSeen(carried)
    /\ UNCHANGED <<backend, limited, clip, inFlight, lastCmd, cmdAge, odomAge, upTime,
                   out, sentStop, poisoned, due>>

----------------------------------------------------------------------------
(* The timers.                                                             *)
TimerFires(name) == backend = name /\ due /\ due' = FALSE
KeepsInputs == UNCHANGED <<backend, limited, clip, inFlight, lastCmd, cmdAge,
                           odomAge, jointAge, seen, upTime>>

BridgeStopped == cmdAge > CommandTimeout

BridgeTimer ==
    /\ TimerFires("go2w")
    /\ IF ~EnableOutput
       THEN UNCHANGED <<out, sentStop>>
       ELSE IF BridgeStopped
       THEN /\ out' = IF sentStop THEN out ELSE 0
            /\ sentStop' = TRUE
       ELSE /\ out' = lastCmd
            /\ UNCHANGED sentStop
    /\ UNCHANGED poisoned
    /\ KeepsInputs

\* A command that is not finite counts as no command: NaN > deadband is false.
NonZero(v) == v # NotFinite /\ MagnitudeOf(v) > Deadband
CommandActive == Recent(cmdAge, CommandTimeout) /\ NonZero(lastCmd)

\* The IMU of the rl_sar controller is always required.
StateStale ==
    \/ ~Recent(jointAge, StateTimeout)
    \/ (backend = "isaac" => RequireOdom) /\ ~Recent(odomAge, StateTimeout)

ActionScale == IF ScaleOverride > 0 THEN ScaleOverride ELSE ContractScale

\* An output of the policy that is not finite is replaced by zero.
PolicyTarget(action) ==
    LET finite == IF action = NotFinite THEN 0 ELSE action
        wanted == Stand + ActionScale * finite
    IN  IF clip THEN Clamped(wanted, SafeLow, SafeHigh) ELSE wanted

(* blend * target + (1 - blend) * last, on the grid: either neighbour.     *)
Blended(target, last) ==
    LET exact == BlendNum * target + (BlendDen - BlendNum) * last
    IN  {exact \div BlendDen, -((-exact) \div BlendDen)}

\* Mutant: a whole step, whatever the distance.
SteppedWhole(target, last) ==
    IF target > last THEN last + StepLimit ELSE last - StepLimit

Stepped(target, last) ==
    IF StepLimit = 0 THEN target
    ELSE Clamped(target, last - StepLimit, last + StepLimit)

Standing == (~CommandActive /\ ~RunIdle) \/ (StandIfStale /\ StateStale)

PolicyTimer ==
    /\ TimerFires("isaac")
    /\ \E action \in Actions \cup {NotFinite} :
         LET target == IF Standing THEN Stand ELSE PolicyTarget(action)
         IN  \E blended \in Blended(target, out) : out' = Stepped(blended, out)
    /\ UNCHANGED <<sentStop, poisoned>>
    /\ KeepsInputs

(* The rl_sar controller falls back to the stand target at once, without   *)
(* blending or limiting the step.  A policy that is not due yet repeats    *)
(* the last target.                                                        *)
RlSarHolds ==
    \/ upTime < StandTime
    \/ StateStale
    \/ ~(Recent(cmdAge, CommandTimeout) /\ lastCmd # NotFinite
           /\ MagnitudeOf(lastCmd) >= Deadband)

RlSarTimer ==
    /\ TimerFires("rl_sar")
    /\ IF RlSarHolds
       THEN out' = Stand
       ELSE \/ out' = out
            \/ \E action \in Actions \cup {NotFinite} :
                 \E blended \in Blended(PolicyTarget(action), out) :
                   out' = Stepped(blended, out)
    /\ UNCHANGED <<sentStop, poisoned>>
    /\ KeepsInputs

(* The simulator integrates the command while it is fresh and publishes it *)
(* as the odometry's twist; it pauses while another node publishes on the  *)
(* topic.                                                                  *)
SimulatedTwist == IF Recent(cmdAge, CommandTimeout) THEN lastCmd ELSE 0

SimulatorTimer ==
    /\ TimerFires("simulated")
    /\ \/ UNCHANGED <<out, poisoned>>
       \/ /\ out' = SimulatedTwist
          /\ poisoned' = (poisoned \/ SimulatedTwist = NotFinite)
    /\ UNCHANGED sentStop
    /\ KeepsInputs

\* A period passes once the timer of the back end has fired.
Period ==
    /\ ~due /\ due' = TRUE
    /\ cmdAge' = Aged(cmdAge) /\ odomAge' = Aged(odomAge)
    /\ jointAge' = Aged(jointAge) /\ seen' = [j \in Joints |-> Aged(seen[j])]
    /\ upTime' = Aged(upTime)
    /\ UNCHANGED <<backend, limited, clip, inFlight, lastCmd, out, sentStop, poisoned>>

MotionNext ==
    \/ \E v \in Commands : NavCommands(v)
    \/ OnCmd
    \/ CommandLost
    \/ OnOdometry
    \/ OnImu
    \/ \E carried \in SUBSET Joints : OnJointState(carried)
    \/ BridgeTimer
    \/ PolicyTimer
    \/ RlSarTimer
    \/ SimulatorTimer
    \/ Period

MotionSpec == MotionInit /\ [][MotionNext]_motionVars
----------------------------------------------------------------------------
Published == Commands \cup {Silent} \cup Int

\* Type invariant of the command path.
MotionTypeOK ==
    /\ backend \in Backends /\ limited \in BOOLEAN /\ clip \in BOOLEAN
    /\ inFlight \in Commands \cup Int \cup {NoCommand}
    /\ lastCmd \in Commands \cup Int
    /\ {cmdAge, odomAge, jointAge, upTime} \subseteq 0..MaxAge
    /\ seen \in [Joints -> 0..MaxAge]
    /\ out \in Published
    /\ {sentStop, poisoned, due} \subseteq BOOLEAN

(* How far a target that is clipped to the safe range is from the stand    *)
(* pose, and how far it may be after k periods on the way back.            *)
StandRange == IF SafeHigh - Stand > Stand - SafeLow THEN SafeHigh - Stand
              ELSE Stand - SafeLow
Bound(k) == IF StandRange > k * StepLimit THEN StandRange - k * StepLimit ELSE 0

(* The rl_sar controller stands at once; the policy controller walks back, *)
(* a step limit a period, when its targets are clipped and not blended.    *)
Returned(k) ==
    /\ backend = "rl_sar" => out = Stand
    /\ backend = "isaac" /\ clip /\ BlendNum = BlendDen /\ StepLimit > 0 =>
         MagnitudeOf(out - Stand) <= Bound(k)

(* The robot stops when commands stop: once the timer has fired after the  *)
(* timeout, the bridge has published a zero twist and the two controllers  *)
(* are back at the stand pose or on their way (on_timer of the three).     *)
Silence == cmdAge - CommandTimeout
StopsWhenSilent ==
    ~due /\ Silence > 0 =>
      /\ backend = "go2w" /\ EnableOutput => out = 0
      /\ (backend = "isaac" => ~RunIdle) => Returned(Silence)

(* The robot stands when it cannot feel itself: no joint reported within   *)
(* the timeout, whatever other messages arrive on the topic, or odometry   *)
(* (IMU) is late, and commands keep coming.                                *)
StopsWhenBlind ==
    ~due /\ (backend = "isaac" => StandIfStale) =>
      /\ \A k \in 1..MaxAge :
           (\A j \in Joints : seen[j] >= StateTimeout + k) => Returned(k)
      /\ odomAge > StateTimeout /\ (backend = "isaac" => RequireOdom) =>
           Returned(odomAge - StateTimeout)

(* No clipped joint target leaves the safe range, although blending and    *)
(* the step limit come after the clip to that range.                       *)
TargetStaysSafe ==
    backend \in {"isaac", "rl_sar"} /\ clip => out \in SafeLow..SafeHigh

(* Behind the limiter the simulated odometry stays finite: one command     *)
(* that is not finite would stay in the integrated pose for ever.          *)
OdometryStaysFinite == limited => ~poisoned

(* What reaches the robot is safe: the joint targets and, behind the        *)
(* limiter, the simulated odometry.                                        *)
RobotStaysSafe == TargetStaysSafe /\ OdometryStaysFinite
=============================================================================
