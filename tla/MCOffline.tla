----------------------------- MODULE MCOffline -----------------------------
(***************************************************************************)
(* The offline tools. They share no state, so a behaviour exercises one of *)
(* them and the others rest:                                               *)
(*   matrix      the GLIL matrix over the odometry harness and its gates:  *)
(*               one normal and one kidnap sequence; a second is the unit  *)
(*               of time, and a pose follows the last one in time (1) or   *)
(*               later than the completion checker and a recovered window  *)
(*               allow (3);                                                *)
(*   comparison  one IMU mode without and one with validation;             *)
(*   report      rows the localizer publishes when lost, degraded,         *)
(*               tracking well, tracking poorly, and tracking with its     *)
(*               request still latched;                                    *)
(*   search      the branch-and-bound search over every map of the far     *)
(*               corner, and over maps with cells on the low borders: a    *)
(*               wall, a corner, and points that reach out of the map;     *)
(*   pipeline    the relocalization scripts over a log with a window whose *)
(*               scan is in the bag, and one recorded over it whose scan   *)
(*               is missing.                                               *)
(***************************************************************************)
EXTENDS AcceptanceMatrix, ImuComparison, RecoveryReport, BranchAndBound, ResetPipeline

CONSTANTS hard, kidnap

VARIABLE tool

offlineVars == <<vars, compVars, reportVars, searchVars, pipelineVars, tool>>

MCNames == {hard, kidnap}
MCKidnaps == {kidnap}
MCLists == {<<hard, kidnap>>, <<kidnap, kidnap>>}
Pose(gap, error, match) == [gap |-> gap, error |-> error, match |-> match]
MCSamples ==
  {Pose(1, "near", "exact"), Pose(3, "near", "loose"),
   Pose(1, "far", "exact"), Pose(1, "near", "none")}

MCModes == {"lidar_only", "deskew"}
MCValidated == {"deskew"}
MCPlans == {<<"lidar_only", "deskew">>, <<"deskew">>}

Row(gap, ok, requested, healthy, fitness) ==
  [gap |-> gap, ok |-> ok, accepted |-> ok, requested |-> requested,
   healthy |-> healthy, fitness |-> fitness]
MCRowKinds ==
  {Row(1, FALSE, TRUE, FALSE, 9), Row(3, FALSE, FALSE, FALSE, 9),
   Row(1, TRUE, FALSE, TRUE, 1), Row(2, TRUE, FALSE, TRUE, 3),
   Row(1, TRUE, TRUE, FALSE, 3)}

MCScans == {{<<1, 0>>, <<2, 0>>, <<2, 1>>}, {<<0, 0>>, <<1, 0>>},
            {<<-1, 0>>, <<0, 2>>, <<1, 1>>}, {<<0, -3>>, <<3, 0>>},
            {<<2, 2>>, <<-2, 2>>, <<0, 1>>, <<0, 0>>}}
MCMaps ==
  SUBSET (((4..6) \X {4}) \cup ((5..6) \X {5})) \cup
  {{<<3, 3>>, <<4, 3>>, <<6, 5>>}, {<<3, 4>>, <<3, 5>>, <<5, 3>>},
   {<<0, 0>>, <<1, 0>>}, {<<0, 2>>, <<0, 3>>, <<5, 4>>},
   {<<2, 0>>, <<3, 0>>, <<3, 1>>}, {<<2, 2>>, <<6, 5>>}}
MCBlock == [level \in 0..StartLevel |-> 2^level]

MCLogs == {<<"rejected", "requested", "ok", "ok">>, <<"requested", "ok", "ok">>}
MCRoute == <<1, 1, 3, 4>>
MCScanStamps == {2, 3}
\* An eligible result, one whose pose is not a number although its score is
\* better and the scorer lets it pass, one over the scorer's threshold only, one
\* whose score is not a number, and a row NDT did not run on.
Scoring(score, near, finite) ==
  [run |-> TRUE, converged |-> TRUE, measured |-> TRUE,
   score |-> score, near |-> near, finite |-> finite]
MCScorings ==
  {Scoring(2, TRUE, TRUE), Scoring(0, FALSE, FALSE), Scoring(3, TRUE, TRUE),
   [Scoring(0, TRUE, TRUE) EXCEPT !.measured = FALSE],
   [Scoring(0, TRUE, TRUE) EXCEPT !.run = FALSE]}

-----------------------------------------------------------------------------

\* A search that is not run has no map. The log recorded first is one of them.
SearchRests ==
  /\ scan = {} /\ grids = UpperBounds({}) /\ heap = {} /\ seq = 0 /\ best = <<>>
  /\ done = FALSE

OfflineInit ==
  /\ tool \in {"matrix", "comparison", "report", "search", "pipeline"}
  /\ Init /\ CompInit /\ ReportInit /\ PipelineInit
  /\ log = <<"rejected", "requested", "ok", "ok">>
  /\ IF tool = "search" THEN SearchInit ELSE SearchRests

OfflineNext ==
  \/ /\ tool = "matrix" /\ Next
     /\ UNCHANGED <<tool, compVars, reportVars, searchVars, pipelineVars>>
  \/ /\ tool = "comparison" /\ CompNext
     /\ UNCHANGED <<tool, vars, reportVars, searchVars, pipelineVars>>
  \/ /\ tool = "report" /\ ReportNext
     /\ UNCHANGED <<tool, vars, compVars, searchVars, pipelineVars>>
  \/ /\ tool = "search" /\ SearchNext
     /\ UNCHANGED <<tool, vars, compVars, reportVars, pipelineVars>>
  \/ /\ tool = "pipeline" /\ PipelineNext
     /\ UNCHANGED <<tool, vars, compVars, reportVars, searchVars>>

OfflineSpec == OfflineInit /\ [][OfflineNext]_offlineVars
=============================================================================
