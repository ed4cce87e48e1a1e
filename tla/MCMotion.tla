------------------------------ MODULE MCMotion ------------------------------
(***************************************************************************)
(* The motion of a seed on one side and that of the robot on the other: a  *)
(* behaviour runs one part of one of them and leaves every other part at   *)
(* one initial state, so that the run explores the sum of their states.    *)
(***************************************************************************)
EXTENDS MCSeed, MCRobot

VARIABLE side   \* the one that runs

MotionInitial ==
  /\ side \in {"seed", "robot"} /\ SeedInit /\ RobotInit
  /\ side = "seed" => part = "republisher"
  /\ side = "robot" => half = "motion"

MotionStep ==
  /\ UNCHANGED side
  /\ \/ side = "seed" /\ SeedNext /\ UNCHANGED robotVars
     \/ side = "robot" /\ RobotNext /\ UNCHANGED seedVars

MotionSafetySpec == MotionInitial /\ [][MotionStep]_<<seedVars, robotVars, side>>
=============================================================================
