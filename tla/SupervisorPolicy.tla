-------------------------- MODULE SupervisorPolicy --------------------------
(***************************************************************************)
(* The guard policy of the automatic reinitialization loop: the reducer    *)
(* decide(params, state, observation) of                                   *)
(* scripts/reinitialization_supervisor_policy.py.                          *)
(*                                                                         *)
(* One step of this module is one call of decide(): the observation is a   *)
(* parameter of the step, the returned state is the record sup and the     *)
(* returned action is the record decision.  There is one action per return *)
(* statement, named after the reason string it returns.                    *)
(*                                                                         *)
(* The code keeps absolute times (request_since_sec, last_reset_sec, ...)  *)
(* and only ever compares "now - t" with a threshold.  The model keeps the *)
(* age now - t of each of them, in ticks and saturated at AgeCap, which no *)
(* threshold exceeds; NoTime stands for None.                              *)
(***************************************************************************)
EXTENDS Integers, Sequences

CONSTANTS
  RequestDebounce,       \* request_debounce_sec
  MinSpacing,            \* min_seconds_between_attempts
  MaxAttempts,           \* max_attempts
  MinCandidateScore,     \* min_candidate_score
  QueryTimeout,          \* query_timeout_sec
  SettleTimeout,         \* settle_timeout_sec
  ConfirmationSamples,   \* recovery_confirmation_samples
  MaxWalk,               \* max_walk_candidates
  EnableCrossCheck,      \* enable_confirm_cross_check
  UseOdomBridge,         \* use_odom_bridge_candidate
  OdomBridgeMaxAttempts, \* odom_bridge_max_attempts
  AgeCap,                \* bound: ages saturate here
  TickGaps,              \* the possible times between two ticks
  Scores,                \* candidate scores
  ScoreLists,            \* the ranked score lists a reply may carry
  Stamps,                \* identities of alignment-status samples
  NoTime,                \* None, for a time or a stamp
  NoReply                \* None, for the reply

ASSUME ParamsAssumption ==
  /\ RequestDebounce \in Nat /\ RequestDebounce =< AgeCap
  /\ MinSpacing \in Nat /\ MinSpacing =< AgeCap
  /\ QueryTimeout \in Nat /\ QueryTimeout =< AgeCap
  /\ SettleTimeout \in Nat /\ SettleTimeout =< AgeCap
  /\ MaxAttempts \in Nat
  /\ MinCandidateScore \in Int
  /\ ConfirmationSamples \in Int
  /\ MaxWalk \in Nat
  /\ EnableCrossCheck \in BOOLEAN
  /\ UseOdomBridge \in BOOLEAN
  /\ OdomBridgeMaxAttempts \in Nat

ASSUME DomainAssumption ==
  /\ AgeCap \in Nat
  /\ TickGaps \subseteq Nat
  /\ Scores \subseteq Int
  /\ ScoreLists \subseteq Seq(Scores)
  /\ NoTime \notin Int
  /\ NoTime \notin Stamps
  /\ NoReply \notin ScoreLists

VARIABLES
  sup,       \* SupervisorState
  decision,  \* what the last decide() returned: action, reason, index, source
  hist       \* history: resets published since the loop last rested, and the
             \* time since the last publication (read by properties only)

policyVars == <<sup, decision, hist>>

-----------------------------------------------------------------------------
(* The types of the reducer.                                               *)

Names == {"idle", "await_query", "await_candidates", "settling",
          "verifying", "cooldown", "standdown", "exhausted"}
Resting == {"idle", "standdown", "exhausted"}
Sources == {"bbs", "odom_bridge"}
Actions == {"none", "query", "publish_reset", "give_up"}
Ages == 0..AgeCap \cup {NoTime}

\* max(1, int(recovery_confirmation_samples))
Needed == IF ConfirmationSamples >= 1 THEN ConfirmationSamples ELSE 1

SupervisorState ==
  [name: Names, attempts: Nat,
   request_age: Ages, query_age: Ages, reset_age: Ages, cooldown_age: Ages,
   scores: Seq(Scores), index: Nat,
   evidence: Nat, last_sample: Stamps \cup {NoTime},
   alias_confirmed: BOOLEAN, active_source: Sources,
   bridge_attempts: Nat, bridge_exhausted: BOOLEAN]

Fitness == {"none", "recovered", "not_recovered"}
Mismatch == {"none", "agree", "differ"}

\* retryable_empty_reply and cross_check_mismatch_m qualify a reply; fitness
\* sums up best_fitness, its threshold and stable_tracking.
Observation ==
  {obs \in [requested: BOOLEAN, reply: ScoreLists \cup {NoReply},
            retryable: BOOLEAN, fitness: Fitness, stamp: Stamps \cup {NoTime},
            mismatch: Mismatch, bridge: BOOLEAN] :
     obs.reply = NoReply => ~obs.retryable /\ obs.mismatch = "none"}

\* SupervisorDecision, without the state it carries
Reasons ==
  {"tracking", "request_debouncing", "request_armed", "request_cleared",
   "spacing_hold", "odom_bridge_reset_published", "attempts_exhausted",
   "query_issued", "scan_not_ready", "reset_published",
   "weak_candidate_rejected", "query_timeout", "awaiting_candidates",
   "confirm_cross_check_query", "recovery_confirmed",
   "odom_bridge_unconfirmed", "next_candidate", "recovery_failed_exhausted",
   "recovery_unconfirmed", "settling", "cross_check_reseed",
   "cross_check_mismatch", "cross_check_timeout", "verifying", "cooldown",
   "self_clear_cross_check_query", "cooldown_elapsed", "standdown_cleared",
   "standdown", "exhausted_cleared", "exhausted"}
Decisions == [action: Actions, reason: Reasons, index: Nat, source: Sources]

\* initial_state()
InitialState ==
  [name |-> "idle", attempts |-> 0,
   request_age |-> NoTime, query_age |-> NoTime, reset_age |-> NoTime,
   cooldown_age |-> NoTime, scores |-> <<>>, index |-> 0,
   evidence |-> 0, last_sample |-> NoTime,
   alias_confirmed |-> FALSE, active_source |-> "bbs",
   bridge_attempts |-> 0, bridge_exhausted |-> FALSE]

-----------------------------------------------------------------------------
(* Time.                                                                   *)

Older(age, dt) ==
  IF age = NoTime THEN NoTime
  ELSE IF age + dt > AgeCap THEN AgeCap ELSE age + dt

\* Less than limit has passed; false when there is no time to measure from.
Within(age, limit) == age # NoTime /\ age < limit
Elapsed(age, limit) == age # NoTime /\ age >= limit

\* The state decide() works on: dt later, with request_since_sec refreshed.
Observed(s, dt, requested) ==
  [s EXCEPT !.request_age = IF ~requested THEN NoTime
                            ELSE IF @ = NoTime THEN 0 ELSE Older(@, dt),
            !.query_age = Older(@, dt),
            !.reset_age = Older(@, dt),
            !.cooldown_age = Older(@, dt)]

-----------------------------------------------------------------------------
(* The shared exits of the reducer.                                        *)

\* _EPISODE_RESET_FIELDS
EpisodeCleared(s) ==
  [s EXCEPT !.evidence = 0, !.last_sample = NoTime,
            !.alias_confirmed = FALSE, !.active_source = "bbs",
            !.bridge_attempts = 0, !.bridge_exhausted = FALSE]

StanddownConfirmed(s) ==
  [EpisodeCleared(s) EXCEPT
     !.name = "standdown", !.attempts = 0, !.reset_age = NoTime,
     !.cooldown_age = NoTime, !.query_age = NoTime,
     !.scores = <<>>, !.index = 0]

ResetToIdle(s) == [EpisodeCleared(s) EXCEPT !.name = "idle", !.attempts = 0]

ToExhausted(s) == [EpisodeCleared(s) EXCEPT !.name = "exhausted"]

Cooldown(s) ==
  [s EXCEPT !.name = "cooldown", !.cooldown_age = 0, !.query_age = NoTime,
            !.evidence = 0, !.last_sample = NoTime]

\* Mutant: the list is dropped instead of emptied.
NoScoresAtAll(s) == [s EXCEPT !.scores = NoReply, !.index = 0]

NoScores(s) == [s EXCEPT !.scores = <<>>, !.index = 0]
NoEvidence(s) == [s EXCEPT !.evidence = 0, !.last_sample = NoTime]

\* Returning a decision.
Return(action, reason, s, index, source) ==
  /\ sup' = s
  /\ decision' = [action |-> action, reason |-> reason,
                  index |-> index, source |-> source]
Continue(reason, s) == Return("none", reason, s, 0, "bbs")
Query(reason, s) == Return("query", reason, s, 0, "bbs")
GiveUp(reason, s) == Return("give_up", reason, ToExhausted(s), 0, "bbs")
Publish(reason, s, index, source) ==
  Return("publish_reset", reason, s, index, source)

\* The list's candidate i (0 = best) clears the score floor.
Publishable(scores, i) ==
  i < Len(scores) /\ scores[i + 1] >= MinCandidateScore

-----------------------------------------------------------------------------
(* IDLE                                                                    *)

Tracking(s, obs) ==
  /\ s.name = "idle" /\ ~obs.requested
  /\ Continue("tracking", s)

RequestDebouncing(s, obs) ==
  /\ s.name = "idle" /\ obs.requested
  /\ s.request_age < RequestDebounce
  /\ Continue("request_debouncing", s)

RequestArmed(s, obs) ==
  /\ s.name = "idle" /\ obs.requested
  /\ s.request_age >= RequestDebounce
  /\ Continue("request_armed", [s EXCEPT !.name = "await_query"])

Idle(s, obs) ==
  Tracking(s, obs) \/ RequestDebouncing(s, obs) \/ RequestArmed(s, obs)

-----------------------------------------------------------------------------
(* AWAIT_QUERY                                                             *)

\* Mutant: the request line alone keeps an episode alive.
EpisodeLiveByRequest(s, obs) == obs.requested

EpisodeLive(s, obs) == obs.requested \/ s.alias_confirmed

RequestCleared(s, obs) ==
  /\ s.name = "await_query" /\ ~EpisodeLive(s, obs)
  /\ Continue("request_cleared", ResetToIdle(s))

SpacingHold(s, obs) ==
  /\ s.name = "await_query" /\ EpisodeLive(s, obs)
  /\ Within(s.reset_age, MinSpacing)
  /\ Continue("spacing_hold", s)

BridgeUsable(s, obs) == UseOdomBridge /\ ~s.bridge_exhausted /\ obs.bridge

MayAct(s, obs) ==
  /\ s.name = "await_query" /\ EpisodeLive(s, obs)
  /\ ~Within(s.reset_age, MinSpacing)

OdomBridgeResetPublished(s, obs) ==
  /\ MayAct(s, obs) /\ BridgeUsable(s, obs)
  /\ Publish("odom_bridge_reset_published",
             [NoScores(NoEvidence(s)) EXCEPT
                !.name = "settling", !.reset_age = 0, !.query_age = NoTime,
                !.active_source = "odom_bridge"],
             0, "odom_bridge")

AwaitQueryExhausted(s, obs) ==
  /\ MayAct(s, obs) /\ ~BridgeUsable(s, obs)
  /\ s.attempts >= MaxAttempts
  /\ GiveUp("attempts_exhausted", s)

QueryIssued(s, obs) ==
  /\ MayAct(s, obs) /\ ~BridgeUsable(s, obs)
  /\ s.attempts < MaxAttempts
  /\ Query("query_issued",
           [s EXCEPT !.name = "await_candidates", !.query_age = 0,
                     !.active_source = "bbs"])

AwaitQuery(s, obs) ==
  \/ RequestCleared(s, obs) \/ SpacingHold(s, obs)
  \/ OdomBridgeResetPublished(s, obs)
  \/ AwaitQueryExhausted(s, obs) \/ QueryIssued(s, obs)

-----------------------------------------------------------------------------
(* AWAIT_CANDIDATES                                                        *)

ScanNotReady(s, obs) ==
  /\ s.name = "await_candidates" /\ obs.retryable
  /\ Continue("scan_not_ready",
              [s EXCEPT !.name = "await_query", !.query_age = NoTime])

ResetPublished(s, obs) ==
  /\ s.name = "await_candidates" /\ ~obs.retryable
  /\ obs.reply # NoReply /\ Publishable(obs.reply, 0)
  /\ Publish("reset_published",
             [NoEvidence(s) EXCEPT
                !.name = "settling", !.reset_age = 0, !.query_age = NoTime,
                !.attempts = @ + 1, !.scores = obs.reply, !.index = 0],
             0, "bbs")

WeakCandidateRejected(s, obs) ==
  /\ s.name = "await_candidates" /\ ~obs.retryable
  /\ obs.reply # NoReply /\ ~Publishable(obs.reply, 0)
  /\ Continue("weak_candidate_rejected",
              Cooldown(NoScores([s EXCEPT !.attempts = @ + 1])))

\* Mutant: a query that timed out is not charged.
QueryTimedOutFree(s, obs) ==
  /\ s.name = "await_candidates" /\ ~obs.retryable /\ obs.reply = NoReply
  /\ Elapsed(s.query_age, QueryTimeout)
  /\ Continue("query_timeout", Cooldown(s))

QueryTimedOut(s, obs) ==
  /\ s.name = "await_candidates" /\ ~obs.retryable /\ obs.reply = NoReply
  /\ Elapsed(s.query_age, QueryTimeout)
  /\ Continue("query_timeout", Cooldown([s EXCEPT !.attempts = @ + 1]))

AwaitingCandidates(s, obs) ==
  /\ s.name = "await_candidates" /\ ~obs.retryable /\ obs.reply = NoReply
  /\ ~Elapsed(s.query_age, QueryTimeout)
  /\ Continue("awaiting_candidates", s)

AwaitCandidates(s, obs) ==
  \/ ScanNotReady(s, obs) \/ ResetPublished(s, obs)
  \/ WeakCandidateRejected(s, obs)
  \/ QueryTimedOut(s, obs) \/ AwaitingCandidates(s, obs)

-----------------------------------------------------------------------------
(* SETTLING                                                                *)

\* Mutant: every tick counts the sample it sees.
NewSampleEveryTick(s, obs) == obs.fitness # "none"

\* A status sample counts once, however often the timer sees it.
NewSample(s, obs) ==
  /\ obs.fitness # "none"
  /\ obs.stamp = NoTime \/ obs.stamp # s.last_sample

WithEvidence(s, obs) ==
  IF NewSample(s, obs)
  THEN [s EXCEPT !.evidence = IF obs.fitness = "recovered" THEN @ + 1 ELSE 0,
                 !.last_sample = obs.stamp]
  ELSE s

Recovered(s, obs) == WithEvidence(s, obs).evidence >= Needed

SettleExpired(s, obs) ==
  ~Recovered(s, obs) /\ Elapsed(s.reset_age, SettleTimeout)

ConfirmCrossCheckQuery(s, obs) ==
  /\ s.name = "settling" /\ Recovered(s, obs) /\ EnableCrossCheck
  /\ Query("confirm_cross_check_query",
           [NoScores(NoEvidence(WithEvidence(s, obs))) EXCEPT
              !.name = "verifying", !.query_age = 0])

RecoveryConfirmed(s, obs) ==
  /\ s.name = "settling" /\ Recovered(s, obs) /\ ~EnableCrossCheck
  /\ Continue("recovery_confirmed", StanddownConfirmed(WithEvidence(s, obs)))

OdomBridgeUnconfirmed(s, obs) ==
  /\ s.name = "settling" /\ SettleExpired(s, obs)
  /\ s.active_source = "odom_bridge"
  /\ Continue("odom_bridge_unconfirmed",
              Cooldown(NoScores(
                [WithEvidence(s, obs) EXCEPT
                   !.bridge_attempts = @ + 1,
                   !.bridge_exhausted =
                      s.bridge_attempts + 1 >= OdomBridgeMaxAttempts])))

\* Mutant: the walk ignores the score floor.
CanWalkAnywhere(s) == s.index + 1 < MaxWalk /\ s.index + 1 < Len(s.scores)

CanWalk(s) == s.index + 1 < MaxWalk /\ Publishable(s.scores, s.index + 1)

NextCandidate(s, obs) ==
  /\ s.name = "settling" /\ SettleExpired(s, obs)
  /\ s.active_source = "bbs" /\ CanWalk(s)
  /\ Publish("next_candidate",
             [NoEvidence(WithEvidence(s, obs)) EXCEPT
                !.reset_age = 0, !.index = s.index + 1],
             s.index + 1, "bbs")

RecoveryFailedExhausted(s, obs) ==
  /\ s.name = "settling" /\ SettleExpired(s, obs)
  /\ s.active_source = "bbs" /\ ~CanWalk(s)
  /\ s.attempts >= MaxAttempts
  /\ GiveUp("recovery_failed_exhausted", WithEvidence(s, obs))

RecoveryUnconfirmed(s, obs) ==
  /\ s.name = "settling" /\ SettleExpired(s, obs)
  /\ s.active_source = "bbs" /\ ~CanWalk(s)
  /\ s.attempts < MaxAttempts
  /\ Continue("recovery_unconfirmed", Cooldown(NoScores(WithEvidence(s, obs))))

StillSettling(s, obs) ==
  /\ s.name = "settling" /\ ~Recovered(s, obs)
  /\ ~Elapsed(s.reset_age, SettleTimeout)
  /\ Continue("settling", WithEvidence(s, obs))

Settling(s, obs) ==
  \/ ConfirmCrossCheckQuery(s, obs) \/ RecoveryConfirmed(s, obs)
  \/ OdomBridgeUnconfirmed(s, obs) \/ NextCandidate(s, obs)
  \/ RecoveryFailedExhausted(s, obs) \/ RecoveryUnconfirmed(s, obs)
  \/ StillSettling(s, obs)

-----------------------------------------------------------------------------
(* VERIFYING                                                               *)

VerifyCleared(s) == NoScores(NoEvidence([s EXCEPT !.query_age = NoTime]))
Mismatched(s, obs) ==
  s.name = "verifying" /\ obs.reply # NoReply /\ obs.mismatch = "differ"

VerifyConfirmed(s, obs) ==
  /\ s.name = "verifying" /\ obs.reply # NoReply /\ obs.mismatch # "differ"
  /\ Continue("recovery_confirmed", StanddownConfirmed(s))

VerifyFailedExhausted(s, obs) ==
  /\ Mismatched(s, obs) /\ s.attempts >= MaxAttempts
  /\ GiveUp("recovery_failed_exhausted", VerifyCleared(s))

CrossCheckReseed(s, obs) ==
  /\ Mismatched(s, obs) /\ s.attempts < MaxAttempts
  /\ Publishable(obs.reply, 0)
  /\ Publish("cross_check_reseed",
             [VerifyCleared(s) EXCEPT
                !.name = "settling", !.reset_age = 0, !.attempts = @ + 1,
                !.active_source = "bbs", !.scores = obs.reply,
                !.alias_confirmed = TRUE],
             0, "bbs")

CrossCheckMismatch(s, obs) ==
  /\ Mismatched(s, obs) /\ s.attempts < MaxAttempts
  /\ ~Publishable(obs.reply, 0)
  /\ Continue("cross_check_mismatch",
              Cooldown([VerifyCleared(s) EXCEPT !.alias_confirmed = TRUE]))

CrossCheckTimeout(s, obs) ==
  /\ s.name = "verifying" /\ obs.reply = NoReply
  /\ Elapsed(s.query_age, QueryTimeout)
  /\ Continue("cross_check_timeout", StanddownConfirmed(s))

StillVerifying(s, obs) ==
  /\ s.name = "verifying" /\ obs.reply = NoReply
  /\ ~Elapsed(s.query_age, QueryTimeout)
  /\ Continue("verifying", s)

Verifying(s, obs) ==
  \/ VerifyConfirmed(s, obs) \/ VerifyFailedExhausted(s, obs)
  \/ CrossCheckReseed(s, obs) \/ CrossCheckMismatch(s, obs)
  \/ CrossCheckTimeout(s, obs) \/ StillVerifying(s, obs)

-----------------------------------------------------------------------------
(* COOLDOWN, STANDDOWN and EXHAUSTED                                       *)

CoolingDown(s, obs) ==
  /\ s.name = "cooldown" /\ Within(s.cooldown_age, MinSpacing)
  /\ Continue("cooldown", s)

CooledDown(s) == s.name = "cooldown" /\ ~Within(s.cooldown_age, MinSpacing)

CooldownExhausted(s, obs) ==
  /\ CooledDown(s) /\ s.attempts >= MaxAttempts
  /\ GiveUp("attempts_exhausted", s)

SelfClearCrossCheckQuery(s, obs) ==
  /\ CooledDown(s) /\ s.attempts < MaxAttempts /\ ~EpisodeLive(s, obs)
  /\ EnableCrossCheck /\ s.reset_age # NoTime
  /\ Query("self_clear_cross_check_query",
           [NoScores(s) EXCEPT !.name = "verifying", !.query_age = 0])

CooldownRequestCleared(s, obs) ==
  /\ CooledDown(s) /\ s.attempts < MaxAttempts /\ ~EpisodeLive(s, obs)
  /\ ~(EnableCrossCheck /\ s.reset_age # NoTime)
  /\ Continue("request_cleared", ResetToIdle(s))

CooldownElapsed(s, obs) ==
  /\ CooledDown(s) /\ s.attempts < MaxAttempts /\ EpisodeLive(s, obs)
  /\ Continue("cooldown_elapsed",
              [s EXCEPT !.name = "await_query", !.cooldown_age = NoTime])

CoolDown(s, obs) ==
  \/ CoolingDown(s, obs) \/ CooldownExhausted(s, obs)
  \/ SelfClearCrossCheckQuery(s, obs) \/ CooldownRequestCleared(s, obs)
  \/ CooldownElapsed(s, obs)

StanddownCleared(s, obs) ==
  /\ s.name = "standdown" /\ ~obs.requested
  /\ Continue("standdown_cleared", [ResetToIdle(s) EXCEPT !.request_age = NoTime])

StandingDown(s, obs) ==
  /\ s.name = "standdown" /\ obs.requested
  /\ Continue("standdown", s)

ExhaustedCleared(s, obs) ==
  /\ s.name = "exhausted" /\ ~obs.requested
  /\ Continue("exhausted_cleared",
              [ResetToIdle(s) EXCEPT !.reset_age = NoTime,
                                     !.cooldown_age = NoTime])

StillExhausted(s, obs) ==
  /\ s.name = "exhausted" /\ obs.requested
  /\ Continue("exhausted", s)

Rest(s, obs) ==
  \/ StanddownCleared(s, obs) \/ StandingDown(s, obs)
  \/ ExhaustedCleared(s, obs) \/ StillExhausted(s, obs)

-----------------------------------------------------------------------------
(* decide() and the specification of the reducer in an arbitrary           *)
(* environment: any observation may be presented at any tick.              *)

Decide(s, obs) ==
  \/ Idle(s, obs) \/ AwaitQuery(s, obs) \/ AwaitCandidates(s, obs)
  \/ Settling(s, obs) \/ Verifying(s, obs) \/ CoolDown(s, obs)
  \/ Rest(s, obs)

Published(source) ==
  decision'.action = "publish_reset" /\ decision'.source = source

\* The bridge tries the parameter allows; the first is always allowed.
BridgeBudget == IF OdomBridgeMaxAttempts >= 1 THEN OdomBridgeMaxAttempts ELSE 1

\* hist.bridge is bounded: it stops counting one past the budget.
Track(dt) ==
  hist' = [bbs |-> IF sup'.name \in Resting THEN 0
                   ELSE IF Published("bbs") THEN hist.bbs + 1 ELSE hist.bbs,
           bridge |-> IF sup'.name \in Resting THEN 0
                      ELSE IF Published("odom_bridge") /\ hist.bridge =< BridgeBudget
                      THEN hist.bridge + 1 ELSE hist.bridge,
           gap |-> IF decision'.action = "publish_reset" THEN 0
                   ELSE Older(hist.gap, dt)]

Tick(dt, obs) ==
  /\ Decide(Observed(sup, dt, obs.requested), obs)
  /\ Track(dt)

PolicyInit ==
  /\ sup = InitialState
  /\ decision = [action |-> "none", reason |-> "tracking",
                 index |-> 0, source |-> "bbs"]
  /\ hist = [bbs |-> 0, bridge |-> 0, gap |-> NoTime]

PolicyNext == \E dt \in TickGaps, obs \in Observation : Tick(dt, obs)

PolicySpec == PolicyInit /\ [][PolicyNext]_policyVars

-----------------------------------------------------------------------------
(* Properties.                                                             *)

\* Types of the reducer's state, of its decisions and of the history.
PolicyTypeOK ==
  /\ sup \in SupervisorState
  /\ decision \in Decisions
  /\ hist \in [bbs: Nat, bridge: Nat, gap: Ages]

\* The number of publications one query may lead to.
WalkLength == IF MaxWalk >= 1 THEN MaxWalk ELSE 1

\* "max_attempts stays a true ceiling": no sequence of observations, alias
\* rounds included, spends more than max_attempts attempts.
AttemptCeiling == sup.attempts =< MaxAttempts

\* Walking a ranked list costs no attempt, yet the candidates published since
\* the loop last rested never exceed the attempts paid times the walk length.
PublicationsPaid == hist.bbs =< sup.attempts * WalkLength

\* While a queried reset settles, the candidate being tried is one the reply
\* scored at or above the floor, and within the walk's reach.
SettlingCandidateScored ==
  sup.name = "settling" /\ sup.active_source = "bbs" =>
    Publishable(sup.scores, sup.index) /\ sup.index < WalkLength

\* The accounting that makes PublicationsPaid inductive: n resets were published
\* for the attempts paid so far, and while a queried reset settles the walk of
\* its own attempt accounts for at most index + 1 of them.
Accounted(s, n) ==
  /\ n =< s.attempts * WalkLength
  /\ s.name \in Resting => n = 0
  /\ s.name = "settling" /\ s.active_source = "bbs" =>
       /\ s.attempts >= 1
       /\ n =< (s.attempts - 1) * WalkLength + s.index + 1

\* Every exit clears the per-episode fields: a latched alias_confirmed would
\* make later episodes ignore the request line, a spent bridge budget would
\* deny them the bridge.
RestsWithCleanSlate ==
  sup.name \in Resting =>
    /\ ~sup.alias_confirmed /\ ~sup.bridge_exhausted
    /\ sup.bridge_attempts = 0 /\ sup.evidence = 0

\* One episode, whatever the observations: its attempts stay under the ceiling,
\* its publications are paid for, the candidate it waits on was scored, and it
\* leaves nothing behind for the next one.
EpisodeIsAccounted ==
  AttemptCeiling /\ PublicationsPaid /\ SettlingCandidateScored /\ RestsWithCleanSlate

\* The ceiling is not reset by what it bounds: a tick that queries, publishes
\* or gives up never lowers the attempt counter.
CeilingNotSelfReset ==
  [][decision'.action # "none" => sup'.attempts >= sup.attempts]_policyVars

\* The inductive invariant behind the safety properties above.
EpisodeInv(s, n) ==
  /\ s \in SupervisorState
  /\ s.attempts =< MaxAttempts
  /\ s.name = "await_candidates" =>
       s.attempts < MaxAttempts /\ s.active_source = "bbs"
  /\ s.name = "settling" => s.reset_age # NoTime
  /\ s.name = "settling" /\ s.active_source = "bbs" =>
       Publishable(s.scores, s.index) /\ s.index < WalkLength
  /\ s.name \in Resting =>
       /\ ~s.alias_confirmed /\ ~s.bridge_exhausted
       /\ s.bridge_attempts = 0 /\ s.evidence = 0
  /\ n \in Nat /\ Accounted(s, n)

PolicyInv == EpisodeInv(sup, hist.bbs) /\ PolicyTypeOK

-----------------------------------------------------------------------------
(* The reducer implements the bounded recovery episode.                    *)

EpisodeMode ==
  CASE sup.name = "idle" -> "watching"
    [] sup.name = "standdown" -> "confirmed"
    [] sup.name = "exhausted" -> "gave_up"
    [] OTHER -> "recovering"

Bounded == INSTANCE BoundedRecovery WITH
  Budget <- MaxAttempts, WalkPerAttempt <- WalkLength,
  mode <- EpisodeMode, spent <- sup.attempts, resets <- hist.bbs,
  held <- sup.alias_confirmed

\* Every behaviour of the loop is a bounded recovery.
RecoveryIsBounded == Bounded!Spec
=============================================================================
