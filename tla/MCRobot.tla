----------------------------- MODULE MCRobot -----------------------------
(***************************************************************************)
(* The command path, the odometry chain and the goal clients of the Go2,   *)
(* and the pose republisher, share no state: a behaviour of this module    *)
(* runs one of them and leaves the others at an initial state, so that one *)
(* run explores the sum of the four and not their product.                 *)
(***************************************************************************)
EXTENDS MotionCommands, OdometryChain, NavGoals, Republisher

VARIABLE part   \* the chain that runs

robotVars == <<motionVars, odometryVars, goalVars, republisherVars, part>>

RobotInit ==
    /\ part \in {"motion", "odometry", "goals", "republisher"}
    /\ MotionInit /\ OdometryInit /\ GoalsInit /\ RepublisherInit
    /\ part # "motion" => backend = CHOOSE b \in Backends : TRUE
    /\ part # "motion" => ~limited /\ clip
    /\ part # "goals" => robotAt = CHOOSE p \in Places : TRUE

RobotNext ==
    /\ UNCHANGED part
    /\ \/ part = "motion" /\ MotionNext /\ UNCHANGED <<odometryVars, goalVars, republisherVars>>
       \/ part = "odometry" /\ OdometryNext /\ UNCHANGED <<motionVars, goalVars, republisherVars>>
       \/ part = "goals" /\ GoalsNext /\ UNCHANGED <<motionVars, odometryVars, republisherVars>>
       \/ part = "republisher" /\ RepublisherNext /\ UNCHANGED <<motionVars, odometryVars, goalVars>>

RobotSpec == RobotInit /\ [][RobotNext]_robotVars

SpeedsDef == {-2, 0, 3}
ActionsDef == {-2, 0, 2}
CellsDef == 0..4
MapCellsDef == 0..3
StampsDef == 0..4
PlacesDef == 0..1
SafeLowDef == -1
=============================================================================
