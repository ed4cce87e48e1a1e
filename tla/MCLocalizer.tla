----------------------------- MODULE MCLocalizer -----------------------------
(***************************************************************************)
(* Two configurations of Localizer in one run; a behaviour stays in one.   *)
(* One tick is the period of the scans, and the scales keep the order of   *)
(* the defaults (crop failures 100, streak 200, gap 30 s at 10 Hz) where a *)
(* property depends on it.                                                 *)
(*                                                                         *)
(* "reset", the constants of the cfg: resets, scans and the publish timer, *)
(* without the odometry bridge.  "loss": every failure of an alignment,    *)
(* the local map always found and the odometry bridge on, under fairness.  *)
(***************************************************************************)
EXTENDS Localizer

VARIABLE configuration

Loss == INSTANCE Localizer WITH
  MaxResets <- 1, MaxLag <- 1, MaxScanAge <- 1, MaxCropFailures <- 1,
  StreakScale <- 2, LocalMapCrop <- FALSE, OdomSeed <- TRUE, Bridge <- TRUE,
  Preparations <- {"ready"}

configuredVars == <<vars, configuration>>

MCInit == Init /\ configuration \in {"reset", "loss"}

Loses(A) == configuration = "loss" /\ A

MCNext ==
  /\ UNCHANGED configuration
  /\ \/ configuration = "reset" /\ Next
     \/ Loses(Loss!Next)

\* The fairness of Loss!FairSpec.
MCSpec ==
  /\ MCInit /\ [][MCNext]_configuredVars
  /\ WF_vars(Loses(Loss!ScanReceived)) /\ WF_vars(Loses(Loss!AlignmentDone))
  /\ SF_vars(Loses(Loss!Tick))

\* Where nothing keeps a scan from being scored, a localizer that has accepted
\* nothing for the whole gap scale asks for a pose or finds one.
EveryLossIsReported == configuration = "loss" => Loss!LossIsReported

MCAll == {"ok", "warn", "rejected", "seeded", "not_converged"}
MCPreparations == {"ready", "unusable", "no_transform"}
=============================================================================
