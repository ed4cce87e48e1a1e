---------------------------- MODULE MCSupervisor ----------------------------
(***************************************************************************)
(* Constants for model checking SupervisorNode: one tick is the unit of    *)
(* time, a score is below (0) or at (1) the floor, and a reply is one of a *)
(* few ranked lists: empty, two weak candidates, two good ones, or a good  *)
(* one with a weak one behind it.                                          *)
(***************************************************************************)
EXTENDS SupervisorNode

MCScores == {0, 1}
MCFewLists == {<<>>, <<0, 0>>, <<1, 1>>, <<1, 0>>}
MCStamps == 1..3
MCEveryTick == {1}
MCLateTicks == {1, 2}
=============================================================================
