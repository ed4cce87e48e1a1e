------------------------------- MODULE MCSeed -------------------------------
(***************************************************************************)
(* The two halves of a seed that do not share a variable: where it is      *)
(* published, and whether it is.  A behaviour exercises one of them.       *)
(*                                                                         *)
(* Seeds: a search takes a second or more and finds the vehicle, or also a *)
(* hit 5 m off that registration ranks first.                              *)
(* Gate: the path turns left once, an alias is a shift or a quarter turn   *)
(* about the origin, and map -> odom may jump by the same shift.           *)
(***************************************************************************)
EXTENDS SeedMotion, ShadowMotionGate

VARIABLE half

seedVars == <<vars, gateVars, half>>

Hit(offset, bbs, fitness) == [offset |-> offset, bbs |-> bbs, fitness |-> fitness]
MCHits ==
  {<<Hit(0, 2, Diverged), Hit(5, 1, 3)>>, <<Hit(0, 2, 3)>>}

Pose(x, y, yaw) == [x |-> x, y |-> y, yaw |-> yaw]
MCPath == <<Pose(10, 0, 0), Pose(11, 0, 1), Pose(11, 1, 1)>>
MCAnchors == {Pose(0, 0, 0), Pose(6, 0, 0)}
MCAliases == {Pose(0, 0, 0), Pose(6, 0, 0), Pose(0, 0, 1)}

\* These motions are far enough from one another for the limits.
ASSUME LimitsTellApart

SeedInit ==
  /\ half \in {"motion", "gate"} /\ Init /\ GateInit
  /\ half = "motion" => anchor = Pose(0, 0, 0)

SeedNext ==
  \/ half = "motion" /\ Next /\ UNCHANGED <<half, gateVars>>
  \/ half = "gate" /\ GateNext /\ UNCHANGED <<half, vars>>

SeedSpec == SeedInit /\ [][SeedNext]_seedVars
=============================================================================
