-------------------------- MODULE ShadowMotionGate --------------------------
(***************************************************************************)
(* The shadow gate of the reinitialization supervisor: a global fix is     *)
(* withheld until successive fixes describe the same relative motion as    *)
(* the odometry bridge.  BbsShadowMotionGate and the comparison are in     *)
(* reinitialization_supervisor_policy.py, the history of bridge poses and  *)
(* _apply_bbs_shadow_motion_gate in reinitialization_supervisor_node.py.   *)
(*                                                                         *)
(* Headings are quarter turns, so that rotations are exact on the grid.    *)
(* The vehicle follows Path.  The bridge reports it through an anchor, the *)
(* map -> odom transform of the localizer's last accepted match, and a fix *)
(* through an alias, the rigid motion that takes the true pose to the one  *)
(* the search took for it (the identity for a right fix).                  *)
(***************************************************************************)
EXTENDS Integers, Sequences, SequencesExt

CONSTANTS
  Path,             \* the pose of the vehicle at each time
  Anchors, Aliases, \* rigid motions
  Required,         \* bbs_shadow_required_samples
  MaxTranslation,   \* bbs_shadow_max_translation_mismatch_m, squared
  MaxYaw,           \* bbs_shadow_max_yaw_mismatch_deg, in quarter turns
  StampTolerance,   \* bbs_shadow_bridge_stamp_tolerance_sec
  Window,           \* how long bridge poses are kept (300 s)
  MaxSamples        \* bound: samples of one request

SE2 == [x: Int, y: Int, yaw: 0..3]

ASSUME GateAssumption ==
  /\ Path \in Seq(SE2) \ {<<>>} /\ Anchors \cup Aliases \subseteq SE2
  /\ Required \in Nat /\ Required >= 2
  /\ {MaxTranslation, MaxYaw, StampTolerance, Window, MaxSamples} \subseteq Nat

VARIABLES
  time,       \* stamp of the latest scan and of the latest bridge pose
  anchor,     \* map -> odom
  history,    \* _odom_bridge_history; no two entries have the same stamp
  requested,  \* _requested
  gate,       \* _bbs_shadow_gate: the last sample, consistent_samples
  reply,      \* what became of the reply this step handled
  observed    \* history: for each sample since the reset, where it puts the
              \* vehicle relative to odometry, and was odometry of that time

gateVars == <<time, anchor, history, requested, gate, reply, observed>>
----------------------------------------------------------------------------
(* Rigid motions.                                                          *)

Rotated(v, quarter) ==
  CASE quarter = 0 -> v
    [] quarter = 1 -> [x |-> -v.y, y |-> v.x]
    [] quarter = 2 -> [x |-> -v.x, y |-> -v.y]
    [] quarter = 3 -> [x |-> v.y, y |-> -v.x]

\* The pose that motion m takes pose p to.
Placed(m, p) ==
  LET v == Rotated([x |-> p.x, y |-> p.y], m.yaw)
  IN [x |-> m.x + v.x, y |-> m.y + v.y, yaw |-> (m.yaw + p.yaw) % 4]

\* Mutant: the two motions are compared in the frames they come in.
RelativeUnrotated(first, second) ==
  [x |-> second.x - first.x, y |-> second.y - first.y,
   yaw |-> (second.yaw - first.yaw) % 4]

\* relative: the motion from first to second, seen from first.
Relative(first, second) ==
  LET v == Rotated([x |-> second.x - first.x, y |-> second.y - first.y],
                   (4 - first.yaw) % 4)
  IN [x |-> v.x, y |-> v.y, yaw |-> (second.yaw - first.yaw) % 4]

Square(n) == n * n
QuarterTurns(yaw) == IF yaw = 3 THEN 1 ELSE yaw

\* compare_shadow_relative_motion and the two limits
SameMotion(fix1, fix2, odom1, odom2) ==
  LET fix == Relative(fix1, fix2)
      odom == Relative(odom1, odom2)
  IN /\ Square(fix.x - odom.x) + Square(fix.y - odom.y) =< MaxTranslation
     /\ QuarterTurns((fix.yaw - odom.yaw) % 4) =< MaxYaw
----------------------------------------------------------------------------
(* The gate.                                                               *)

Fresh == [sample |-> <<>>, consistent |-> 0]

\* BbsShadowMotionGate.observe
ObserveSample(fix, odom) ==
  [sample |-> <<fix, odom>>,
   consistent |-> IF gate.sample # <<>> /\ SameMotion(gate.sample[1], fix, gate.sample[2], odom)
                  THEN gate.consistent + 1 ELSE 1]

Apart(a, b) == IF a > b THEN a - b ELSE b - a

\* _nearest_history_entry: the entry closest in time, the older of two, when
\* it is within the tolerance.
NearestEntry(stamp) ==
  LET apart(e) == Apart(e.stamp, stamp) IN
  {e \in history :
     /\ apart(e) =< StampTolerance
     /\ \A f \in history :
          apart(e) < apart(f) \/ (apart(e) = apart(f) /\ e.stamp =< f.stamp)}
----------------------------------------------------------------------------
GateInit ==
  /\ time = 1 /\ anchor \in Anchors /\ history = {} /\ requested = FALSE
  /\ gate = Fresh /\ reply = "none" /\ observed = <<>>

GateWait ==
  /\ time < Len(Path) /\ time' = time + 1 /\ reply' = "none"
  /\ UNCHANGED <<anchor, history, requested, gate, observed>>

\* The localizer accepts a match: map -> odom is another one from now on.
MatchAccepted ==
  /\ anchor' \in Anchors /\ reply' = "none"
  /\ UNCHANGED <<time, history, requested, gate, observed>>

\* _on_odom_bridge_pose: once per stamp; old entries leave.
OnOdomBridgePose ==
  LET entry == [stamp |-> time, pose |-> Placed(anchor, Path[time]), anchor |-> anchor]
  IN /\ \A e \in history : e.stamp < time
     /\ history' = {e \in history \cup {entry} : time - e.stamp =< Window}
     /\ reply' = "none"
     /\ UNCHANGED <<time, anchor, requested, gate, observed>>

\* Mutant: the gate keeps its sample across requests.
OnReinitKeeps ==
  /\ requested' \in BOOLEAN /\ reply' = "none"
  /\ observed' = IF requested' /\ ~requested THEN <<>> ELSE observed
  /\ UNCHANGED <<time, anchor, history, gate>>

\* _on_reinit: a rising edge resets the gate.
OnReinitEdge ==
  /\ requested' \in BOOLEAN /\ reply' = "none"
  /\ IF requested' /\ ~requested
     THEN gate' = Fresh /\ observed' = <<>>
     ELSE UNCHANGED <<gate, observed>>
  /\ UNCHANGED <<time, anchor, history>>

\* The motion that takes pose p to pose q.
Motion(p, q) ==
  LET yaw == (q.yaw - p.yaw) % 4
      v == Rotated([x |-> p.x, y |-> p.y], yaw)
  IN [x |-> q.x - v.x, y |-> q.y - v.y, yaw |-> yaw]

\* _apply_bbs_shadow_motion_gate: a strong fix of the scan at this stamp.
StrongFix(stamp) ==
  \E alias \in Aliases, entry \in NearestEntry(stamp) :
    LET fix == Placed(alias, Path[stamp]) IN
    /\ gate' = ObserveSample(fix, entry.pose)
    /\ reply' = IF gate'.consistent >= Required THEN "published" ELSE "withheld"
    /\ observed' = Append(observed,
         [offset |-> Motion(Placed(entry.anchor, Path[stamp]), fix),
          exact |-> entry.stamp = stamp])

\* A weak, unstamped or malformed top candidate, or no bridge pose near its
\* stamp: withheld, and not a sample.
NotASample(stamp) ==
  /\ reply' = "withheld"
  /\ UNCHANGED <<gate, observed>>

OnReply ==
  /\ \E stamp \in {time, time - 1} \cap DOMAIN Path :
       StrongFix(stamp) \/ NotASample(stamp)
  /\ Len(observed') =< MaxSamples
  /\ UNCHANGED <<time, anchor, history, requested>>

GateNext == GateWait \/ MatchAccepted \/ OnOdomBridgePose \/ OnReinitEdge \/ OnReply

GateSpec == GateInit /\ [][GateNext]_gateVars
----------------------------------------------------------------------------
\* The last Required samples of this request put the vehicle at one place
\* relative to odometry.
Agreed ==
  /\ Len(observed) >= Required
  /\ \A i \in (Len(observed) - Required + 1)..Len(observed) :
       observed[i].offset = Last(observed).offset

\* The last Required samples were each paired with odometry of their own stamp.
OwnOdometry ==
  \A i \in (Len(observed) - Required + 1)..Len(observed) : observed[i].exact

\* What takes odometry to a fix, for an anchor and an alias, and where odometry
\* can put the vehicle.
Displacements == {Motion(a, b) : a \in Anchors, b \in Aliases}
PlacedPath == {Placed(a, Path[i]) : a \in Anchors, i \in DOMAIN Path}

\* Two poses are further apart than one of the limits.
Separate(p, q) ==
  \/ Square(p.x - q.x) + Square(p.y - q.y) > MaxTranslation
  \/ QuarterTurns((p.yaw - q.yaw) % 4) > MaxYaw

\* Wherever the vehicle is, two displacements put it at poses further apart than
\* the limits: the drift and the aliases bbs_shadow_max_translation_mismatch_m
\* and the yaw limit are meant to tell apart.
LimitsTellApart ==
  \A d, e \in Displacements : \A o \in PlacedPath :
    d # e => Separate(Placed(d, o), Placed(e, o))

\* A fix is published only when it and the samples before it, all of the
\* request being served, agree on where the vehicle is relative to odometry,
\* whatever constant transform lies between the two frames, and also when the
\* localizer has moved map -> odom between two samples or a sample was paired
\* with a bridge pose of a neighbouring stamp.
PublishedAgreesWithOdometry == reply = "published" => Agreed

\* Samples that agree, each paired with odometry of its own stamp, open the
\* gate: neither a constant alias nor a constant anchor is held against them.
ConsistentFixesPass ==
  Agreed /\ OwnOdometry => gate.consistent >= Required
=============================================================================
