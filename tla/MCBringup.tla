----------------------------- MODULE MCBringup -----------------------------
(***************************************************************************)
(* Bringup over small sets of command lines.  The doctor and the validator *)
(* read a deployment and change nothing of it or of each other, so that a  *)
(* behaviour of JudgedSpec uses one of them.                               *)
(***************************************************************************)
EXTENDS Bringup

VARIABLE judge   \* the tool in use

JudgedNext ==
  /\ Next /\ UNCHANGED judge
  /\ judge = "doctor" => validated' = "none"
  /\ judge = "validator" => doctor' = "idle"

JudgedInit == Init /\ judge \in {"doctor", "validator"}

JudgedSpec ==
  /\ JudgedInit /\ [][JudgedNext]_<<vars, judge>> /\ WF_vars(Configure) /\ WF_vars(Activate)

Plain == [profile |-> "standalone", imuMode |-> "profile", enableImu |-> FALSE,
          deskew |-> "unset", lidarDeskew |-> FALSE, pose |-> FALSE,
          noLidarTf |-> FALSE, noImuTf |-> FALSE, imuTf |-> FALSE,
          baseIsLidar |-> FALSE, outputTaken |-> FALSE]

\* Every profile with the IMU and deskew options of the generator, ...
SensorRequests ==
  {[Plain EXCEPT !.profile = p, !.imuMode = m] :
     p \in Profiles, m \in {"profile", "off", "legacy"}}
  \cup {[Plain EXCEPT !.profile = p, !.deskew = "on", !.lidarDeskew = l] :
     p \in Profiles, l \in BOOLEAN}
\* ... and with the transform and pose options.
FrameRequests ==
  {[Plain EXCEPT !.profile = p, !.pose = TRUE, !.noLidarTf = n, !.noImuTf = n, !.imuTf = i] :
     p \in Profiles, n, i \in BOOLEAN}
OtherRequests ==
  {[Plain EXCEPT !.profile = p, !.enableImu = ~b, !.baseIsLidar = b, !.outputTaken = o] :
     p \in Profiles, b, o \in BOOLEAN}
CommandRequests == SensorRequests \cup FrameRequests \cup OtherRequests

\* Quickstart takes those of them whose options it has.
QuickstartRequests ==
  {[Plain EXCEPT !.profile = p, !.pose = e, !.imuTf = i] :
     p \in Profiles, e, i \in BOOLEAN}
BothRequests == CommandRequests \cup QuickstartRequests
============================================================================
