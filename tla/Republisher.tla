--------------------------- MODULE Republisher ---------------------------
(***************************************************************************)
(* republish_initialpose_on_reinit.py, the simple supervisor: while the    *)
(* localizer requests a reinitialization it publishes bursts of            *)
(* publish_count poses on /initialpose, publish_interval apart, with       *)
(* republish_cooldown between the end of a burst and the next one.  The    *)
(* request can be withdrawn and raised again at any point of a burst, and  *)
(* each pose that is published resets the localizer.                       *)
(*                                                                         *)
(* Time is counted in periods of the node's timer.                         *)
(***************************************************************************)
EXTENDS Naturals

CONSTANTS
    PublishCount,      \* publish_count
    Interval,          \* publish_interval_sec, in periods
    Cooldown,          \* republish_cooldown_sec, in periods
    UseLatestPose      \* use_latest_pose

ASSUME RepublisherAssumption ==
    /\ PublishCount \in Nat \ {0}
    /\ Interval \in Nat \ {0}
    /\ Cooldown \in Nat /\ Cooldown >= Interval
    /\ UseLatestPose \in BOOLEAN

VARIABLES
    requestActive,   \* request_active
    poseHeard,       \* latest_pose is not None
    pending,         \* pending_publish_count
    sincePublish,    \* now - last_publish_time; LongAgo also when it is None
    untilNext,       \* next_publish_time - now, zero when it has passed
    sentPose,        \* what was published last
    tickDue,         \* the timer has not fired yet in this period
    burst,           \* history: poses sent since the last pause of a cooldown
    standing         \* history: periods the request has stood

republisherVars == <<requestActive, poseHeard, pending, sincePublish, untilNext,
                     sentPose, tickDue, burst, standing>>

LongAgo == Cooldown + 3
Later(t) == IF t < LongAgo THEN t + 1 ELSE t

RepublisherInit ==
    /\ requestActive = FALSE /\ poseHeard = FALSE
    /\ pending = 0 /\ sincePublish = LongAgo /\ untilNext = 0
    /\ sentPose = "none" /\ tickDue = TRUE
    /\ burst = 0 /\ standing = 0

\* Mutant: a request that is raised again does not wait for the cooldown.
StartBurstAtOnce ==
    IF pending > 0
    THEN UNCHANGED <<pending, untilNext>>
    ELSE pending' = PublishCount /\ untilNext' = 0

\* _start_burst_if_due
StartBurstIfDue ==
    IF pending > 0 \/ sincePublish < Cooldown
    THEN UNCHANGED <<pending, untilNext>>
    ELSE pending' = PublishCount /\ untilNext' = 0

\* The latched request is delivered again to a node that already has it.
OnRequest ==
    /\ requestActive' = TRUE
    /\ StartBurstIfDue
    /\ UNCHANGED <<poseHeard, sincePublish, sentPose, tickDue, burst, standing>>

OnRequestCleared ==
    /\ requestActive' = FALSE
    /\ pending' = 0 /\ untilNext' = 0
    /\ standing' = 0
    /\ UNCHANGED <<poseHeard, sincePublish, sentPose, tickDue, burst>>

OnLocalizationPose ==
    /\ poseHeard' = TRUE
    /\ UNCHANGED <<requestActive, pending, sincePublish, untilNext, sentPose, tickDue,
                   burst, standing>>

MadePose == IF UseLatestPose /\ poseHeard THEN "latest" ELSE "configured"

PublishOnce ==
    /\ sentPose' = MadePose
    /\ sincePublish' = 0
    /\ pending' = pending - 1
    /\ untilNext' = IF pending > 1 THEN Interval ELSE 0
    /\ burst' = IF sincePublish >= Cooldown THEN 1 ELSE burst + 1

RepublisherTick ==
    /\ tickDue /\ tickDue' = FALSE
    /\ IF requestActive /\ pending > 0 /\ untilNext = 0
       THEN PublishOnce
       ELSE /\ IF requestActive /\ pending = 0
               THEN StartBurstIfDue
               ELSE UNCHANGED <<pending, untilNext>>
            /\ UNCHANGED <<sentPose, sincePublish, burst>>
    /\ UNCHANGED <<requestActive, poseHeard, standing>>

\* A period passes once the timer has fired.
PeriodPasses ==
    /\ ~tickDue /\ tickDue' = TRUE
    /\ sincePublish' = Later(sincePublish)
    /\ untilNext' = IF untilNext > 0 THEN untilNext - 1 ELSE 0
    /\ standing' = IF requestActive THEN Later(standing) ELSE 0
    /\ UNCHANGED <<requestActive, poseHeard, pending, sentPose, burst>>

RepublisherNext ==
    \/ OnRequest
    \/ OnRequestCleared
    \/ OnLocalizationPose
    \/ RepublisherTick
    \/ PeriodPasses

RepublisherSpec == RepublisherInit /\ [][RepublisherNext]_republisherVars
----------------------------------------------------------------------------
\* Type invariant of the republisher.
RepublisherTypeOK ==
    /\ {requestActive, poseHeard, tickDue} \subseteq BOOLEAN
    /\ pending \in 0..PublishCount
    /\ {sincePublish, standing} \subseteq 0..LongAgo
    /\ untilNext \in 0..Interval
    /\ sentPose \in {"none", "configured", "latest"}
    /\ burst \in Nat

(* However the request flickers, the localizer is reset at most            *)
(* publish_count times between two pauses of a cooldown; and once a request *)
(* has stood for a period it is served: when the timer has fired, the last *)
(* pose is never older than the cooldown.                                  *)
RepublishingIsPaced ==
    /\ burst <= PublishCount
    /\ ~tickDue /\ standing > 0 => sincePublish <= Cooldown
=============================================================================
