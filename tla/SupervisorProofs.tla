-------------------------- MODULE SupervisorProofs --------------------------
(***************************************************************************)
(* Proofs about the reinitialization supervisor. The guard policy is       *)
(* proved for every value of its parameters and every sequence of          *)
(* observations; the shell hands the policy nothing but observations, so   *)
(* every theorem about the policy in an arbitrary environment holds of     *)
(* the node.                                                               *)
(***************************************************************************)
EXTENDS SupervisorNode, TLAPS

-----------------------------------------------------------------------------
(* Time and the helpers of the reducer.                                    *)

\* Ageing keeps an age an age, and never invents or forgets a time.
LEMMA OlderAge ==
  ASSUME NEW age \in Ages, NEW dt \in Nat
  PROVE  /\ Older(age, dt) \in Ages
         /\ Older(age, dt) = NoTime <=> age = NoTime
BY DomainAssumption DEF Ages, Older

\* What decide() works on differs from the stored state in its ages only.
LEMMA ObservedState ==
  ASSUME NEW s \in SupervisorState, NEW dt \in Nat, NEW asking \in BOOLEAN
  PROVE  LET o == Observed(s, dt, asking)
         IN /\ o \in SupervisorState
            /\ o.name = s.name /\ o.attempts = s.attempts
            /\ o.scores = s.scores /\ o.index = s.index
            /\ o.evidence = s.evidence
            /\ o.alias_confirmed = s.alias_confirmed
            /\ o.active_source = s.active_source
            /\ o.bridge_attempts = s.bridge_attempts
            /\ o.bridge_exhausted = s.bridge_exhausted
            /\ o.reset_age = NoTime <=> s.reset_age = NoTime
            /\ asking => o.request_age \in 0..AgeCap
<1> DEFINE r == IF ~asking THEN NoTime
                ELSE IF s.request_age = NoTime THEN 0 ELSE Older(s.request_age, dt)
<1>1. /\ s.request_age \in Ages /\ s.query_age \in Ages
      /\ s.reset_age \in Ages /\ s.cooldown_age \in Ages
  BY DEF SupervisorState
<1>2. /\ Older(s.query_age, dt) \in Ages /\ Older(s.reset_age, dt) \in Ages
      /\ Older(s.cooldown_age, dt) \in Ages
      /\ Older(s.request_age, dt) \in Ages
      /\ Older(s.reset_age, dt) = NoTime <=> s.reset_age = NoTime
      /\ Older(s.request_age, dt) = NoTime <=> s.request_age = NoTime
  BY <1>1, OlderAge
<1>3. r \in Ages /\ (asking => r \in 0..AgeCap)
  BY <1>2, DomainAssumption DEF Ages
<1> HIDE DEF r
<1>4. Observed(s, dt, asking) =
        [s EXCEPT !.request_age = r, !.query_age = Older(s.query_age, dt),
                  !.reset_age = Older(s.reset_age, dt),
                  !.cooldown_age = Older(s.cooldown_age, dt)]
  BY DEF Observed, r, SupervisorState
<1> QED
  BY <1>2, <1>3, <1>4 DEF SupervisorState

\* A state at rest, with a clean slate.
RestedState(s) ==
  /\ s \in SupervisorState /\ s.name \in Resting
  /\ ~s.alias_confirmed /\ ~s.bridge_exhausted
  /\ s.bridge_attempts = 0 /\ s.evidence = 0

\* t keeps the parts of s the invariant speaks of, the candidate list excepted.
Kept(t, s) ==
  /\ t \in SupervisorState
  /\ t.name = s.name /\ t.attempts = s.attempts
  /\ t.reset_age = s.reset_age
  /\ t.alias_confirmed = s.alias_confirmed
  /\ t.active_source = s.active_source
  /\ t.bridge_attempts = s.bridge_attempts
  /\ t.bridge_exhausted = s.bridge_exhausted

\* The values decide() writes into ages and score lists have their types.
LEMMA AgeFacts == 0 \in Ages /\ NoTime \in Ages /\ <<>> \in Seq(Scores)
BY DomainAssumption DEF Ages

\* The exits of an episode leave every per-episode field clear.
LEMMA ClearedState ==
  ASSUME NEW s \in SupervisorState
  PROVE  /\ EpisodeCleared(s) \in SupervisorState
         /\ ~EpisodeCleared(s).alias_confirmed /\ ~EpisodeCleared(s).bridge_exhausted
         /\ EpisodeCleared(s).bridge_attempts = 0 /\ EpisodeCleared(s).evidence = 0
         /\ EpisodeCleared(s).attempts = s.attempts
BY DEF EpisodeCleared, SupervisorState, Sources

\* Standing down (_standdown_confirmed) rests with a clean slate and no
\* attempts on the account.
LEMMA StanddownState ==
  ASSUME NEW s \in SupervisorState
  PROVE  /\ RestedState(StanddownConfirmed(s))
         /\ StanddownConfirmed(s).name = "standdown"
         /\ StanddownConfirmed(s).attempts = 0
BY ClearedState, AgeFacts
DEF StanddownConfirmed, RestedState, SupervisorState, Names, Resting

\* Giving up (_to_exhausted) rests with a clean slate and the account as it was.
LEMMA ExhaustedState ==
  ASSUME NEW s \in SupervisorState
  PROVE  /\ RestedState(ToExhausted(s)) /\ ToExhausted(s).name = "exhausted"
         /\ ToExhausted(s).attempts = s.attempts
BY ClearedState DEF ToExhausted, RestedState, SupervisorState, Names, Resting

\* Dropping the episode (_reset_to_idle) rests with a clean slate and no
\* attempts on the account.
LEMMA IdleState ==
  ASSUME NEW s \in SupervisorState
  PROVE  /\ RestedState(ResetToIdle(s)) /\ ResetToIdle(s).name = "idle"
         /\ ResetToIdle(s).attempts = 0
BY ClearedState DEF ResetToIdle, RestedState, SupervisorState, Names, Resting

\* The helpers that clear a few fields leave the rest alone.
LEMMA ClearingStates ==
  ASSUME NEW s \in SupervisorState
  PROVE  /\ Kept(NoEvidence(s), s) /\ NoEvidence(s).index = s.index
         /\ NoEvidence(s).scores = s.scores
         /\ Kept(NoScores(s), s) /\ NoScores(s).index = 0
BY AgeFacts DEF NoEvidence, NoScores, Kept, SupervisorState

\* Cooling down (_cooldown) keeps the account and the alias.
LEMMA CooldownKeeps ==
  ASSUME NEW s \in SupervisorState
  PROVE  /\ Cooldown(s) \in SupervisorState /\ Cooldown(s).name = "cooldown"
         /\ Cooldown(s).attempts = s.attempts
         /\ Cooldown(s).alias_confirmed = s.alias_confirmed
BY AgeFacts DEF Cooldown, SupervisorState, Names

\* Counting a status sample touches the evidence only.
LEMMA EvidenceKeeps ==
  ASSUME NEW s \in SupervisorState, NEW obs \in Observation
  PROVE  LET e == WithEvidence(s, obs)
         IN Kept(e, s) /\ e.index = s.index /\ e.scores = s.scores
<1> DEFINE count == IF obs.fitness = "recovered" THEN s.evidence + 1 ELSE 0
<1>1. obs.stamp \in Stamps \cup {NoTime} /\ count \in Nat
  BY DEF Observation, SupervisorState
<1>2. WithEvidence(s, obs) =
        IF NewSample(s, obs)
        THEN [s EXCEPT !.evidence = count, !.last_sample = obs.stamp] ELSE s
  BY DEF WithEvidence, SupervisorState
<1> HIDE DEF count
<1>3. CASE NewSample(s, obs)
  BY <1>1, <1>2, <1>3 DEF Kept, SupervisorState
<1>4. CASE ~NewSample(s, obs)
  BY <1>2, <1>4 DEF Kept
<1> QED
  BY <1>3, <1>4

-----------------------------------------------------------------------------
(* Where a decision may lead, and what the invariant needs there.          *)

\* The resets counted after a decision.
Count(n) == IF sup'.name \in Resting THEN 0
            ELSE IF Published("bbs") THEN n + 1 ELSE n

\* An attempt buys at least the candidate it publishes first.
LEMMA WalkLengthPositive == WalkLength \in Nat /\ WalkLength >= 1
BY ParamsAssumption DEF WalkLength

\* Paying for one more attempt buys exactly one more walk.
LEMMA OneMoreWalk ==
  ASSUME NEW a \in Nat
  PROVE  /\ a * WalkLength \in Nat
         /\ (a + 1) * WalkLength = a * WalkLength + WalkLength
         /\ a >= 1 => /\ (a - 1) * WalkLength \in Nat
                      /\ a * WalkLength = (a - 1) * WalkLength + WalkLength
BY WalkLengthPositive

\* Coming to rest closes the account.
LEMMA RestInv ==
  ASSUME NEW n, RestedState(sup'), sup'.attempts =< MaxAttempts
  PROVE  EpisodeInv(sup', Count(n))
<1>1. Count(n) = 0 /\ sup'.attempts \in Nat
  BY DEF RestedState, Count, SupervisorState
<1>2. 0 =< sup'.attempts * WalkLength
  BY <1>1, OneMoreWalk
<1> QED
  BY <1>1, <1>2 DEF RestedState, EpisodeInv, Accounted, Resting

\* Between resets the attempts paid never shrink, so the account still covers
\* what was published.
LEMMA BetweenResetsInv ==
  ASSUME NEW s, NEW n, EpisodeInv(s, n), sup' \in SupervisorState,
         sup'.name \in {"await_query", "await_candidates", "verifying", "cooldown"},
         sup'.attempts \in {s.attempts, s.attempts + 1},
         sup'.attempts =< MaxAttempts,
         sup'.name = "await_candidates" =>
           sup'.attempts < MaxAttempts /\ sup'.active_source = "bbs",
         decision'.action # "publish_reset"
  PROVE  EpisodeInv(sup', Count(n))
<1>1. Count(n) = n
  BY DEF Count, Published, Resting
<1>2. s.attempts \in Nat /\ n \in Nat /\ n =< s.attempts * WalkLength
  BY DEF EpisodeInv, Accounted, SupervisorState
<1>3. n =< sup'.attempts * WalkLength
  BY <1>2, OneMoreWalk, WalkLengthPositive
<1> QED
  BY <1>1, <1>2, <1>3 DEF EpisodeInv, Accounted, Resting

\* The first candidate of an attempt just paid for.
LEMMA AttemptInv ==
  ASSUME NEW s, NEW n, EpisodeInv(s, n), s.attempts < MaxAttempts,
         sup' \in SupervisorState, sup'.name = "settling",
         sup'.attempts = s.attempts + 1, sup'.index = 0,
         sup'.reset_age # NoTime, Publishable(sup'.scores, 0), Published("bbs")
  PROVE  EpisodeInv(sup', Count(n))
<1>1. Count(n) = n + 1
  BY DEF Count, Resting
<1>2. s.attempts \in Nat /\ n \in Nat /\ n =< s.attempts * WalkLength
  BY DEF EpisodeInv, Accounted, SupervisorState
<1>3. n + 1 =< sup'.attempts * WalkLength
  BY <1>2, OneMoreWalk, WalkLengthPositive
<1>4. n + 1 =< (sup'.attempts - 1) * WalkLength + sup'.index + 1
  BY <1>2, OneMoreWalk
<1> QED
  BY <1>1, <1>2, <1>3, <1>4, WalkLengthPositive, ParamsAssumption
  DEF EpisodeInv, Accounted, Resting

\* The next candidate of the attempt being walked.
LEMMA WalkInv ==
  ASSUME NEW s, NEW n, EpisodeInv(s, n),
         s.name = "settling", s.active_source = "bbs", s.index + 1 < MaxWalk,
         sup' \in SupervisorState, sup'.name = "settling",
         sup'.attempts = s.attempts, sup'.index = s.index + 1,
         sup'.reset_age # NoTime, Publishable(sup'.scores, sup'.index),
         Published("bbs")
  PROVE  EpisodeInv(sup', Count(n))
<1>1. Count(n) = n + 1
  BY DEF Count, Resting
<1>2. /\ s.attempts \in Nat /\ n \in Nat /\ s.attempts >= 1 /\ s.index \in Nat
      /\ n =< (s.attempts - 1) * WalkLength + s.index + 1
      /\ s.attempts =< MaxAttempts
  BY DEF EpisodeInv, Accounted, SupervisorState
<1>3. sup'.index < WalkLength
  BY <1>2, ParamsAssumption DEF WalkLength
<1>4. n + 1 =< (sup'.attempts - 1) * WalkLength + sup'.index + 1
  BY <1>2, OneMoreWalk
<1>5. n + 1 =< sup'.attempts * WalkLength
  BY <1>2, <1>3, <1>4, OneMoreWalk, WalkLengthPositive
<1> QED
  BY <1>1, <1>2, <1>3, <1>4, <1>5 DEF EpisodeInv, Accounted, Resting

\* Staying where one is, but for ages, evidence and the like.
LEMMA StayInv ==
  ASSUME NEW s, NEW n, EpisodeInv(s, n), Kept(sup', s),
         sup'.scores = s.scores, sup'.index = s.index,
         sup'.name \notin Resting, decision'.action # "publish_reset"
  PROVE  EpisodeInv(sup', Count(n))
BY DEF EpisodeInv, Accounted, Count, Published, Kept, Resting

\* A bridge reset settles on its own account.
LEMMA BridgeInv ==
  ASSUME NEW s, NEW n, EpisodeInv(s, n), sup' \in SupervisorState,
         sup'.name = "settling", sup'.active_source = "odom_bridge",
         sup'.attempts = s.attempts, sup'.reset_age # NoTime,
         decision'.source = "odom_bridge"
  PROVE  EpisodeInv(sup', Count(n))
BY DEF EpisodeInv, Accounted, Count, Published, Resting

\* Taking a verify reply keeps the account and the alias.
LEMMA VerifyClearedKeeps ==
  ASSUME NEW s \in SupervisorState
  PROVE  Kept(VerifyCleared(s), s) /\ VerifyCleared(s).index = 0
<1> DEFINE q == [s EXCEPT !.query_age = NoTime]
<1>1. Kept(q, s)
  BY AgeFacts DEF Kept, SupervisorState
<1>2. Kept(NoEvidence(q), q)
  BY <1>1, ClearingStates DEF Kept
<1>3. Kept(NoScores(NoEvidence(q)), NoEvidence(q)) /\ NoScores(NoEvidence(q)).index = 0
  BY <1>2, ClearingStates DEF Kept
<1> QED
  BY <1>1, <1>2, <1>3 DEF VerifyCleared, Kept

\* A reply that is there is a list of scores.
LEMMA ReplyScores ==
  ASSUME NEW obs \in Observation, obs.reply # NoReply
  PROVE  obs.reply \in Seq(Scores)
BY DomainAssumption DEF Observation

\* The moves of an episode, as the abstract specification sees them.
Linger(s, n) ==
  /\ sup'.name = s.name \/ (s.name \notin Resting /\ sup'.name \notin Resting)
  /\ sup'.attempts = s.attempts /\ Count(n) = n
  /\ sup'.alias_confirmed = s.alias_confirmed
Begin(s, n) ==
  /\ s.name = "idle" /\ sup'.name \notin Resting
  /\ sup'.attempts = s.attempts /\ Count(n) = n
  /\ sup'.alias_confirmed = s.alias_confirmed
Pay(s, n) ==
  /\ s.name \notin Resting /\ sup'.name \notin Resting
  /\ s.attempts < MaxAttempts /\ sup'.attempts = s.attempts + 1
  /\ sup'.alias_confirmed \in {s.alias_confirmed, TRUE}
Step(s, n) ==
  /\ s.name \notin Resting /\ sup'.name \notin Resting
  /\ sup'.attempts = s.attempts /\ Published("bbs")
  /\ sup'.alias_confirmed = s.alias_confirmed
Suspect(s, n) ==
  /\ s.name \notin Resting /\ sup'.name \notin Resting
  /\ sup'.attempts = s.attempts /\ Count(n) = n
  /\ sup'.alias_confirmed = TRUE
Settle(s, n) ==
  /\ s.name \notin Resting /\ sup'.name = "standdown"
  /\ sup'.attempts = 0 /\ sup'.alias_confirmed = FALSE
  /\ decision'.action = "none"
Surrender(s, n) ==
  /\ s.name \notin Resting /\ sup'.name = "exhausted"
  /\ s.attempts >= MaxAttempts /\ sup'.attempts = s.attempts
  /\ sup'.alias_confirmed = FALSE
Forget(s, n) ==
  /\ s.name \notin Resting /\ sup'.name = "idle" /\ ~s.alias_confirmed
  /\ sup'.attempts = 0 /\ sup'.alias_confirmed = FALSE
  /\ decision'.action = "none"
Restart(s, n) ==
  /\ s.name \in {"standdown", "exhausted"} /\ sup'.name = "idle"
  /\ sup'.attempts = 0 /\ sup'.alias_confirmed = FALSE
  /\ decision'.action = "none"

Move(s, n) ==
  \/ Linger(s, n) \/ Begin(s, n) \/ Pay(s, n) \/ Step(s, n) \/ Suspect(s, n)
  \/ Settle(s, n) \/ Surrender(s, n) \/ Forget(s, n) \/ Restart(s, n)

-----------------------------------------------------------------------------
(* The inductive step, one decision at a time.                             *)

\* IDLE keeps the invariant and makes a move of the episode.
LEMMA IdleStep ==
  ASSUME NEW s, NEW n, EpisodeInv(s, n), NEW obs \in Observation,
         Idle(s, obs)
  PROVE  EpisodeInv(sup', Count(n)) /\ Move(s, n)
<1>0. /\ s \in SupervisorState /\ s.attempts \in Nat /\ s.index \in Nat
      /\ s.attempts =< MaxAttempts
  BY DEF EpisodeInv, SupervisorState
<1>1. CASE Tracking(s, obs)
  <2>1. sup' = s /\ s.name \in Resting
    BY <1>1 DEF Tracking, Continue, Return, Resting
  <2>2. RestedState(s) /\ n = 0 /\ Count(n) = 0
    BY <2>1 DEF EpisodeInv, Accounted, RestedState, Count
  <2>3. EpisodeInv(sup', Count(n))
    BY <1>0, <2>1, <2>2, RestInv
  <2>4. Linger(s, n)
    BY <2>1, <2>2 DEF Linger
  <2> QED
    BY <2>3, <2>4 DEF Move
<1>2. CASE RequestDebouncing(s, obs)
  <2>1. sup' = s /\ s.name \in Resting
    BY <1>2 DEF RequestDebouncing, Continue, Return, Resting
  <2>2. RestedState(s) /\ n = 0 /\ Count(n) = 0
    BY <2>1 DEF EpisodeInv, Accounted, RestedState, Count
  <2>3. EpisodeInv(sup', Count(n))
    BY <1>0, <2>1, <2>2, RestInv
  <2>4. Linger(s, n)
    BY <2>1, <2>2 DEF Linger
  <2> QED
    BY <2>3, <2>4 DEF Move
<1>3. CASE RequestArmed(s, obs)
  <2>1. /\ sup' = [s EXCEPT !.name = "await_query"]
        /\ s.name = "idle" /\ decision'.action # "publish_reset"
    BY <1>3 DEF RequestArmed, Continue, Return
  <2>2. /\ sup' \in SupervisorState /\ sup'.name = "await_query"
        /\ sup'.attempts = s.attempts
        /\ sup'.alias_confirmed = s.alias_confirmed
    BY <1>0, <2>1, AgeFacts DEF SupervisorState, Names, Sources
  <2>3. EpisodeInv(sup', Count(n))
    BY <1>0, <2>1, <2>2, BetweenResetsInv
  <2>4. Begin(s, n)
    BY <2>1, <2>2 DEF Begin, Count, Published, Resting
  <2> QED
    BY <2>3, <2>4 DEF Move
<1> QED
  BY <1>1, <1>2, <1>3 DEF Idle

\* AWAIT_QUERY keeps the invariant and makes a move of the episode.
LEMMA AwaitQueryStep ==
  ASSUME NEW s, NEW n, EpisodeInv(s, n), NEW obs \in Observation,
         AwaitQuery(s, obs)
  PROVE  EpisodeInv(sup', Count(n)) /\ Move(s, n)
<1>0. /\ s \in SupervisorState /\ s.attempts \in Nat /\ s.index \in Nat
      /\ s.attempts =< MaxAttempts
  BY DEF EpisodeInv, SupervisorState
<1>1. CASE RequestCleared(s, obs)
  <2>1. /\ sup' = ResetToIdle(s)
        /\ s.name = "await_query" /\ ~s.alias_confirmed
        /\ decision'.action = "none"
    BY <1>1 DEF RequestCleared, EpisodeLive, Continue, Return
  <2>2. /\ RestedState(sup') /\ sup'.name = "idle"
        /\ sup'.attempts = 0
    BY <1>0, <2>1, IdleState
  <2>3. EpisodeInv(sup', Count(n))
    BY <1>0, <2>2, RestInv, ParamsAssumption
  <2>4. Forget(s, n)
    BY <2>1, <2>2 DEF Forget, RestedState, SupervisorState, Resting
  <2> QED
    BY <2>3, <2>4 DEF Move
<1>2. CASE SpacingHold(s, obs)
  <2>1. /\ s.name = "await_query" /\ sup' = s
        /\ decision'.action # "publish_reset"
    BY <1>2 DEF SpacingHold, Continue, Return
  <2>2. Kept(sup', s)
    BY <1>0, <2>1 DEF Kept
  <2>3. EpisodeInv(sup', Count(n))
    BY <2>1, <2>2, StayInv DEF Resting
  <2>4. Linger(s, n)
    BY <2>1 DEF Linger, Count, Published, Resting
  <2> QED
    BY <2>3, <2>4 DEF Move
<1>3. CASE OdomBridgeResetPublished(s, obs)
  <2> DEFINE x == NoEvidence(s)
             y == NoScores(x)
  <2>1. /\ sup' = [y EXCEPT !.name = "settling", !.reset_age = 0,
                            !.query_age = NoTime, !.active_source = "odom_bridge"]
        /\ s.name = "await_query" /\ decision'.source = "odom_bridge"
    BY <1>3 DEF OdomBridgeResetPublished, MayAct, Publish, Return
  <2>2. Kept(x, s)
    BY <1>0, ClearingStates
  <2>3. Kept(y, x)
    BY <2>2, ClearingStates DEF Kept
  <2>4. /\ y \in SupervisorState /\ y.attempts = s.attempts
        /\ y.alias_confirmed = s.alias_confirmed
    BY <2>2, <2>3 DEF Kept
  <2> HIDE DEF x, y
  <2>5. /\ sup' \in SupervisorState /\ sup'.name = "settling"
        /\ sup'.attempts = s.attempts /\ sup'.reset_age = 0
        /\ sup'.active_source = "odom_bridge"
        /\ sup'.alias_confirmed = s.alias_confirmed
    BY <2>1, <2>4, AgeFacts DEF SupervisorState, Names, Sources
  <2>6. EpisodeInv(sup', Count(n))
    BY <2>1, <2>5, BridgeInv, DomainAssumption
  <2>7. Linger(s, n)
    BY <2>1, <2>5 DEF Linger, Count, Published, Resting
  <2> QED
    BY <2>6, <2>7 DEF Move
<1>4. CASE AwaitQueryExhausted(s, obs)
  <2>1. /\ sup' = ToExhausted(s)
        /\ s.name = "await_query" /\ s.attempts >= MaxAttempts
    BY <1>4 DEF AwaitQueryExhausted, MayAct, GiveUp, Return
  <2>2. /\ RestedState(sup') /\ sup'.name = "exhausted"
        /\ sup'.attempts = s.attempts
    BY <1>0, <2>1, ExhaustedState
  <2>3. EpisodeInv(sup', Count(n))
    BY <1>0, <2>2, RestInv, ParamsAssumption
  <2>4. Surrender(s, n)
    BY <2>1, <2>2 DEF Surrender, RestedState, SupervisorState, Resting
  <2> QED
    BY <2>3, <2>4 DEF Move
<1>5. CASE QueryIssued(s, obs)
  <2>1. /\ sup' = [s EXCEPT !.name = "await_candidates", !.query_age = 0,
                            !.active_source = "bbs"]
        /\ s.name = "await_query" /\ s.attempts < MaxAttempts
        /\ decision'.action # "publish_reset"
    BY <1>5 DEF QueryIssued, MayAct, Query, Return
  <2>2. /\ sup' \in SupervisorState /\ sup'.name = "await_candidates"
        /\ sup'.attempts = s.attempts /\ sup'.active_source = "bbs"
        /\ sup'.alias_confirmed = s.alias_confirmed
    BY <1>0, <2>1, AgeFacts DEF SupervisorState, Names, Sources
  <2>3. EpisodeInv(sup', Count(n))
    BY <1>0, <2>1, <2>2, BetweenResetsInv
  <2>4. Linger(s, n)
    BY <2>1, <2>2 DEF Linger, Count, Published, Resting
  <2> QED
    BY <2>3, <2>4 DEF Move
<1> QED
  BY <1>1, <1>2, <1>3, <1>4, <1>5 DEF AwaitQuery

\* AWAIT_CANDIDATES keeps the invariant and makes a move of the episode.
LEMMA AwaitCandidatesStep ==
  ASSUME NEW s, NEW n, EpisodeInv(s, n), NEW obs \in Observation,
         AwaitCandidates(s, obs)
  PROVE  EpisodeInv(sup', Count(n)) /\ Move(s, n)
<1>0. /\ s \in SupervisorState /\ s.attempts \in Nat /\ s.index \in Nat
      /\ s.attempts =< MaxAttempts
  BY DEF EpisodeInv, SupervisorState
<1>1. CASE ScanNotReady(s, obs)
  <2>1. /\ sup' = [s EXCEPT !.name = "await_query", !.query_age = NoTime]
        /\ s.name = "await_candidates" /\ decision'.action # "publish_reset"
    BY <1>1 DEF ScanNotReady, Continue, Return
  <2>2. /\ sup' \in SupervisorState /\ sup'.name = "await_query"
        /\ sup'.attempts = s.attempts
        /\ sup'.alias_confirmed = s.alias_confirmed
    BY <1>0, <2>1, AgeFacts DEF SupervisorState, Names, Sources
  <2>3. EpisodeInv(sup', Count(n))
    BY <1>0, <2>1, <2>2, BetweenResetsInv
  <2>4. Linger(s, n)
    BY <2>1, <2>2 DEF Linger, Count, Published, Resting
  <2> QED
    BY <2>3, <2>4 DEF Move
<1>2. CASE ResetPublished(s, obs)
  <2> DEFINE x == NoEvidence(s)
             r == obs.reply
  <2>1. /\ sup' = [x EXCEPT !.name = "settling", !.reset_age = 0,
                            !.query_age = NoTime, !.attempts = x.attempts + 1,
                            !.scores = r, !.index = 0]
        /\ s.name = "await_candidates" /\ Published("bbs")
        /\ r # NoReply /\ Publishable(r, 0)
    BY <1>2 DEF ResetPublished, Publish, Return, Published
  <2>2. Kept(x, s)
    BY <1>0, ClearingStates
  <2>3. r \in Seq(Scores)
    BY <2>1, ReplyScores
  <2>4. s.attempts < MaxAttempts
    BY <2>1 DEF EpisodeInv
  <2> HIDE DEF x, r
  <2>5. /\ x \in SupervisorState /\ x.attempts = s.attempts
        /\ s.attempts + 1 \in Nat /\ x.alias_confirmed = s.alias_confirmed
    BY <1>0, <2>2 DEF Kept
  <2>6. /\ sup' \in SupervisorState /\ sup'.name = "settling"
        /\ sup'.attempts = s.attempts + 1 /\ sup'.index = 0
        /\ sup'.reset_age = 0 /\ sup'.scores = r
        /\ sup'.alias_confirmed = s.alias_confirmed
    BY <2>1, <2>3, <2>5, AgeFacts DEF SupervisorState, Names
  <2>7. EpisodeInv(sup', Count(n))
    BY <1>0, <2>1, <2>4, <2>6, AttemptInv, DomainAssumption
  <2>8. Pay(s, n)
    BY <2>1, <2>4, <2>6 DEF Pay, Count, Published, Resting
  <2> QED
    BY <2>7, <2>8 DEF Move
<1>3. CASE WeakCandidateRejected(s, obs)
  <2> DEFINE x == [s EXCEPT !.attempts = s.attempts + 1]
  <2>1. /\ sup' = Cooldown(NoScores(x)) /\ s.name = "await_candidates"
        /\ decision'.action # "publish_reset"
    BY <1>3 DEF WeakCandidateRejected, Continue, Return
  <2>2. /\ x \in SupervisorState /\ x.attempts = s.attempts + 1
        /\ x.alias_confirmed = s.alias_confirmed
    BY <1>0 DEF SupervisorState
  <2>3. Kept(NoScores(x), x)
    BY <2>2, ClearingStates
  <2>4. /\ sup' \in SupervisorState /\ sup'.name = "cooldown"
        /\ sup'.attempts = s.attempts + 1
        /\ sup'.alias_confirmed = s.alias_confirmed
    BY <2>1, <2>2, <2>3, CooldownKeeps DEF Kept
  <2>5. s.attempts < MaxAttempts
    BY <2>1 DEF EpisodeInv
  <2>6. s.attempts + 1 =< MaxAttempts
    BY <1>0, <2>5, ParamsAssumption
  <2>7. EpisodeInv(sup', Count(n))
    BY <1>0, <2>1, <2>4, <2>6, BetweenResetsInv
  <2>8. Pay(s, n)
    BY <2>1, <2>4, <2>5 DEF Pay, Count, Published, Resting
  <2> QED
    BY <2>7, <2>8 DEF Move
<1>4. CASE QueryTimedOut(s, obs)
  <2> DEFINE x == [s EXCEPT !.attempts = s.attempts + 1]
  <2>1. /\ sup' = Cooldown(x) /\ s.name = "await_candidates"
        /\ decision'.action # "publish_reset"
    BY <1>4 DEF QueryTimedOut, Continue, Return
  <2>2. /\ x \in SupervisorState /\ x.attempts = s.attempts + 1
        /\ x.alias_confirmed = s.alias_confirmed
    BY <1>0 DEF SupervisorState
  <2>3. /\ sup' \in SupervisorState /\ sup'.name = "cooldown"
        /\ sup'.attempts = s.attempts + 1
        /\ sup'.alias_confirmed = s.alias_confirmed
    BY <2>1, <2>2, CooldownKeeps
  <2>4. s.attempts < MaxAttempts
    BY <2>1 DEF EpisodeInv
  <2>5. s.attempts + 1 =< MaxAttempts
    BY <1>0, <2>4, ParamsAssumption
  <2>6. EpisodeInv(sup', Count(n))
    BY <1>0, <2>1, <2>3, <2>5, BetweenResetsInv
  <2>7. Pay(s, n)
    BY <2>1, <2>3, <2>4 DEF Pay, Count, Published, Resting
  <2> QED
    BY <2>6, <2>7 DEF Move
<1>5. CASE AwaitingCandidates(s, obs)
  <2>1. /\ s.name = "await_candidates" /\ sup' = s
        /\ decision'.action # "publish_reset"
    BY <1>5 DEF AwaitingCandidates, Continue, Return
  <2>2. Kept(sup', s)
    BY <1>0, <2>1 DEF Kept
  <2>3. EpisodeInv(sup', Count(n))
    BY <2>1, <2>2, StayInv DEF Resting
  <2>4. Linger(s, n)
    BY <2>1 DEF Linger, Count, Published, Resting
  <2> QED
    BY <2>3, <2>4 DEF Move
<1> QED
  BY <1>1, <1>2, <1>3, <1>4, <1>5 DEF AwaitCandidates

\* SETTLING keeps the invariant and makes a move of the episode.
LEMMA SettlingStep ==
  ASSUME NEW s, NEW n, EpisodeInv(s, n), NEW obs \in Observation,
         Settling(s, obs)
  PROVE  EpisodeInv(sup', Count(n)) /\ Move(s, n)
<1>0. /\ s \in SupervisorState /\ s.attempts \in Nat /\ s.index \in Nat
      /\ s.attempts =< MaxAttempts
  BY DEF EpisodeInv, SupervisorState
<1> DEFINE e == WithEvidence(s, obs)
<1>e. Kept(e, s) /\ e.index = s.index /\ e.scores = s.scores
  BY <1>0, EvidenceKeeps
<1>1. CASE ConfirmCrossCheckQuery(s, obs)
  <2> DEFINE x == NoEvidence(e)
             y == NoScores(x)
  <2>1. /\ sup' = [y EXCEPT !.name = "verifying", !.query_age = 0]
        /\ s.name = "settling" /\ decision'.action # "publish_reset"
    BY <1>1 DEF ConfirmCrossCheckQuery, Query, Return
  <2> HIDE DEF e
  <2>2. Kept(x, e)
    BY <1>e, ClearingStates DEF Kept
  <2>3. Kept(y, x)
    BY <2>2, ClearingStates DEF Kept
  <2>4. /\ y \in SupervisorState /\ y.attempts = s.attempts
        /\ y.alias_confirmed = s.alias_confirmed
    BY <1>e, <2>2, <2>3 DEF Kept
  <2> HIDE DEF x, y
  <2>5. /\ sup' \in SupervisorState /\ sup'.name = "verifying"
        /\ sup'.attempts = s.attempts
        /\ sup'.alias_confirmed = s.alias_confirmed
    BY <2>1, <2>4, AgeFacts DEF SupervisorState, Names
  <2>6. EpisodeInv(sup', Count(n))
    BY <1>0, <2>1, <2>5, BetweenResetsInv
  <2>7. Linger(s, n)
    BY <2>1, <2>5 DEF Linger, Count, Published, Resting
  <2> QED
    BY <2>6, <2>7 DEF Move
<1>2. CASE RecoveryConfirmed(s, obs)
  <2>1. /\ sup' = StanddownConfirmed(e)
        /\ s.name = "settling"
        /\ decision'.action = "none"
    BY <1>2 DEF RecoveryConfirmed, Continue, Return
  <2> HIDE DEF e
  <2>2. /\ RestedState(sup') /\ sup'.name = "standdown"
        /\ sup'.attempts = 0
    BY <1>e, <2>1, StanddownState DEF Kept
  <2>3. EpisodeInv(sup', Count(n))
    BY <1>0, <2>2, RestInv, ParamsAssumption
  <2>4. Settle(s, n)
    BY <2>1, <2>2 DEF Settle, RestedState, SupervisorState, Resting
  <2> QED
    BY <2>3, <2>4 DEF Move
<1>3. CASE OdomBridgeUnconfirmed(s, obs)
  <2> DEFINE t == e.bridge_attempts + 1
             b == s.bridge_attempts + 1 >= OdomBridgeMaxAttempts
             x == [e EXCEPT !.bridge_attempts = t, !.bridge_exhausted = b]
  <2>1. /\ sup' = Cooldown(NoScores(x)) /\ s.name = "settling"
        /\ decision'.action # "publish_reset"
    BY <1>3 DEF OdomBridgeUnconfirmed, Continue, Return
  <2>2. t \in Nat /\ b \in BOOLEAN
    BY <1>0, <1>e DEF Kept, SupervisorState
  <2> HIDE DEF e, t, b
  <2>3. /\ x \in SupervisorState /\ x.attempts = s.attempts
        /\ x.alias_confirmed = s.alias_confirmed
    BY <1>e, <2>2 DEF Kept, SupervisorState
  <2>4. Kept(NoScores(x), x)
    BY <2>3, ClearingStates
  <2>5. /\ sup' \in SupervisorState /\ sup'.name = "cooldown"
        /\ sup'.attempts = s.attempts
        /\ sup'.alias_confirmed = s.alias_confirmed
    BY <2>1, <2>3, <2>4, CooldownKeeps DEF Kept
  <2>6. EpisodeInv(sup', Count(n))
    BY <1>0, <2>1, <2>5, BetweenResetsInv
  <2>7. Linger(s, n)
    BY <2>1, <2>5 DEF Linger, Count, Published, Resting
  <2> QED
    BY <2>6, <2>7 DEF Move
<1>4. CASE NextCandidate(s, obs)
  <2> DEFINE x == NoEvidence(e)
             i == s.index + 1
  <2>1. /\ sup' = [x EXCEPT !.reset_age = 0, !.index = i]
        /\ s.name = "settling" /\ s.active_source = "bbs"
        /\ i < MaxWalk /\ Publishable(s.scores, i) /\ Published("bbs")
    BY <1>4 DEF NextCandidate, CanWalk, Publish, Return, Published
  <2> HIDE DEF e
  <2>2. Kept(x, e) /\ x.scores = e.scores
    BY <1>e, ClearingStates DEF Kept
  <2>3. /\ x \in SupervisorState /\ x.name = s.name
        /\ x.attempts = s.attempts /\ x.scores = s.scores
        /\ x.alias_confirmed = s.alias_confirmed /\ i \in Nat
    BY <1>0, <1>e, <2>2 DEF Kept
  <2> HIDE DEF x, i
  <2>4. /\ sup' \in SupervisorState /\ sup'.name = "settling"
        /\ sup'.attempts = s.attempts /\ sup'.reset_age = 0
        /\ sup'.index = i /\ sup'.scores = s.scores
        /\ sup'.alias_confirmed = s.alias_confirmed
    BY <2>1, <2>3, AgeFacts DEF SupervisorState
  <2>5. EpisodeInv(sup', Count(n))
    BY <2>1, <2>4, WalkInv, DomainAssumption DEF i
  <2>6. Step(s, n)
    BY <2>1, <2>4 DEF Step, Count, Published, Resting
  <2> QED
    BY <2>5, <2>6 DEF Move
<1>5. CASE RecoveryFailedExhausted(s, obs)
  <2>1. /\ sup' = ToExhausted(e)
        /\ s.name = "settling" /\ s.attempts >= MaxAttempts
    BY <1>5 DEF RecoveryFailedExhausted, GiveUp, Return
  <2> HIDE DEF e
  <2>2. /\ RestedState(sup') /\ sup'.name = "exhausted"
        /\ sup'.attempts = s.attempts
    BY <1>e, <2>1, ExhaustedState DEF Kept
  <2>3. EpisodeInv(sup', Count(n))
    BY <1>0, <2>2, RestInv, ParamsAssumption
  <2>4. Surrender(s, n)
    BY <2>1, <2>2 DEF Surrender, RestedState, SupervisorState, Resting
  <2> QED
    BY <2>3, <2>4 DEF Move
<1>6. CASE RecoveryUnconfirmed(s, obs)
  <2>1. /\ sup' = Cooldown(NoScores(e)) /\ s.name = "settling"
        /\ decision'.action # "publish_reset"
    BY <1>6 DEF RecoveryUnconfirmed, Continue, Return
  <2> HIDE DEF e
  <2>2. Kept(NoScores(e), e)
    BY <1>e, ClearingStates DEF Kept
  <2>3. /\ sup' \in SupervisorState /\ sup'.name = "cooldown"
        /\ sup'.attempts = s.attempts
        /\ sup'.alias_confirmed = s.alias_confirmed
    BY <1>e, <2>1, <2>2, CooldownKeeps DEF Kept
  <2>4. EpisodeInv(sup', Count(n))
    BY <1>0, <2>1, <2>3, BetweenResetsInv
  <2>5. Linger(s, n)
    BY <2>1, <2>3 DEF Linger, Count, Published, Resting
  <2> QED
    BY <2>4, <2>5 DEF Move
<1>7. CASE StillSettling(s, obs)
  <2>1. /\ sup' = e /\ s.name = "settling"
        /\ decision'.action # "publish_reset"
    BY <1>7 DEF StillSettling, Continue, Return
  <2> HIDE DEF e
  <2>2. sup'.name \notin Resting
    BY <1>e, <2>1 DEF Kept, Resting
  <2>3. EpisodeInv(sup', Count(n))
    BY <1>e, <2>1, <2>2, StayInv
  <2>4. Linger(s, n)
    BY <1>e, <2>1 DEF Linger, Count, Published, Resting, Kept
  <2> QED
    BY <2>3, <2>4 DEF Move
<1> QED
  BY <1>1, <1>2, <1>3, <1>4, <1>5, <1>6, <1>7 DEF Settling

\* VERIFYING keeps the invariant and makes a move of the episode.
LEMMA VerifyingStep ==
  ASSUME NEW s, NEW n, EpisodeInv(s, n), NEW obs \in Observation,
         Verifying(s, obs)
  PROVE  EpisodeInv(sup', Count(n)) /\ Move(s, n)
<1>0. /\ s \in SupervisorState /\ s.attempts \in Nat /\ s.index \in Nat
      /\ s.attempts =< MaxAttempts
  BY DEF EpisodeInv, SupervisorState
<1> DEFINE v == VerifyCleared(s)
<1>v. Kept(v, s) /\ v.index = 0
  BY <1>0, VerifyClearedKeeps
<1>1. CASE VerifyConfirmed(s, obs)
  <2>1. /\ sup' = StanddownConfirmed(s)
        /\ s.name = "verifying"
        /\ decision'.action = "none"
    BY <1>1 DEF VerifyConfirmed, Continue, Return
  <2>2. /\ RestedState(sup') /\ sup'.name = "standdown"
        /\ sup'.attempts = 0
    BY <1>0, <2>1, StanddownState
  <2>3. EpisodeInv(sup', Count(n))
    BY <1>0, <2>2, RestInv, ParamsAssumption
  <2>4. Settle(s, n)
    BY <2>1, <2>2 DEF Settle, RestedState, SupervisorState, Resting
  <2> QED
    BY <2>3, <2>4 DEF Move
<1>2. CASE VerifyFailedExhausted(s, obs)
  <2>1. /\ sup' = ToExhausted(v)
        /\ s.name = "verifying" /\ s.attempts >= MaxAttempts
    BY <1>2 DEF VerifyFailedExhausted, Mismatched, GiveUp, Return
  <2> HIDE DEF v
  <2>2. /\ RestedState(sup') /\ sup'.name = "exhausted"
        /\ sup'.attempts = s.attempts
    BY <1>v, <2>1, ExhaustedState DEF Kept
  <2>3. EpisodeInv(sup', Count(n))
    BY <1>0, <2>2, RestInv, ParamsAssumption
  <2>4. Surrender(s, n)
    BY <2>1, <2>2 DEF Surrender, RestedState, SupervisorState, Resting
  <2> QED
    BY <2>3, <2>4 DEF Move
<1>3. CASE CrossCheckReseed(s, obs)
  <2> DEFINE r == obs.reply
  <2>1. /\ sup' = [v EXCEPT !.name = "settling", !.reset_age = 0,
                            !.attempts = v.attempts + 1, !.active_source = "bbs",
                            !.scores = r, !.alias_confirmed = TRUE]
        /\ s.name = "verifying" /\ s.attempts < MaxAttempts
        /\ Published("bbs") /\ r # NoReply /\ Publishable(r, 0)
    BY <1>3 DEF CrossCheckReseed, Mismatched, Publish, Return, Published
  <2>2. r \in Seq(Scores)
    BY <2>1, ReplyScores
  <2> HIDE DEF v, r
  <2>3. v \in SupervisorState /\ v.attempts = s.attempts /\ s.attempts + 1 \in Nat
    BY <1>0, <1>v DEF Kept
  <2>4. /\ sup' \in SupervisorState /\ sup'.name = "settling"
        /\ sup'.attempts = s.attempts + 1 /\ sup'.index = 0
        /\ sup'.reset_age = 0 /\ sup'.scores = r
        /\ sup'.alias_confirmed = TRUE
    BY <1>v, <2>1, <2>2, <2>3, AgeFacts DEF SupervisorState, Names, Sources
  <2>5. EpisodeInv(sup', Count(n))
    BY <1>0, <2>1, <2>4, AttemptInv, DomainAssumption
  <2>6. Pay(s, n)
    BY <2>1, <2>4 DEF Pay, Count, Published, Resting
  <2> QED
    BY <2>5, <2>6 DEF Move
<1>4. CASE CrossCheckMismatch(s, obs)
  <2> DEFINE x == [v EXCEPT !.alias_confirmed = TRUE]
  <2>1. /\ sup' = Cooldown(x) /\ s.name = "verifying"
        /\ decision'.action # "publish_reset"
    BY <1>4 DEF CrossCheckMismatch, Mismatched, Continue, Return
  <2> HIDE DEF v
  <2>2. /\ x \in SupervisorState /\ x.attempts = s.attempts
        /\ x.alias_confirmed = TRUE
    BY <1>v DEF Kept, SupervisorState
  <2>3. /\ sup' \in SupervisorState /\ sup'.name = "cooldown"
        /\ sup'.attempts = s.attempts /\ sup'.alias_confirmed = TRUE
    BY <2>1, <2>2, CooldownKeeps
  <2>4. EpisodeInv(sup', Count(n))
    BY <1>0, <2>1, <2>3, BetweenResetsInv
  <2>5. Suspect(s, n)
    BY <2>1, <2>3 DEF Suspect, Count, Published, Resting
  <2> QED
    BY <2>4, <2>5 DEF Move
<1>5. CASE CrossCheckTimeout(s, obs)
  <2>1. /\ sup' = StanddownConfirmed(s)
        /\ s.name = "verifying"
        /\ decision'.action = "none"
    BY <1>5 DEF CrossCheckTimeout, Continue, Return
  <2>2. /\ RestedState(sup') /\ sup'.name = "standdown"
        /\ sup'.attempts = 0
    BY <1>0, <2>1, StanddownState
  <2>3. EpisodeInv(sup', Count(n))
    BY <1>0, <2>2, RestInv, ParamsAssumption
  <2>4. Settle(s, n)
    BY <2>1, <2>2 DEF Settle, RestedState, SupervisorState, Resting
  <2> QED
    BY <2>3, <2>4 DEF Move
<1>6. CASE StillVerifying(s, obs)
  <2>1. /\ s.name = "verifying" /\ sup' = s
        /\ decision'.action # "publish_reset"
    BY <1>6 DEF StillVerifying, Continue, Return
  <2>2. Kept(sup', s)
    BY <1>0, <2>1 DEF Kept
  <2>3. EpisodeInv(sup', Count(n))
    BY <2>1, <2>2, StayInv DEF Resting
  <2>4. Linger(s, n)
    BY <2>1 DEF Linger, Count, Published, Resting
  <2> QED
    BY <2>3, <2>4 DEF Move
<1> QED
  BY <1>1, <1>2, <1>3, <1>4, <1>5, <1>6 DEF Verifying

\* COOLDOWN keeps the invariant and makes a move of the episode.
LEMMA CoolDownStep ==
  ASSUME NEW s, NEW n, EpisodeInv(s, n), NEW obs \in Observation,
         CoolDown(s, obs)
  PROVE  EpisodeInv(sup', Count(n)) /\ Move(s, n)
<1>0. /\ s \in SupervisorState /\ s.attempts \in Nat /\ s.index \in Nat
      /\ s.attempts =< MaxAttempts
  BY DEF EpisodeInv, SupervisorState
<1>1. CASE CoolingDown(s, obs)
  <2>1. /\ s.name = "cooldown" /\ sup' = s
        /\ decision'.action # "publish_reset"
    BY <1>1 DEF CoolingDown, Continue, Return
  <2>2. Kept(sup', s)
    BY <1>0, <2>1 DEF Kept
  <2>3. EpisodeInv(sup', Count(n))
    BY <2>1, <2>2, StayInv DEF Resting
  <2>4. Linger(s, n)
    BY <2>1 DEF Linger, Count, Published, Resting
  <2> QED
    BY <2>3, <2>4 DEF Move
<1>2. CASE CooldownExhausted(s, obs)
  <2>1. /\ sup' = ToExhausted(s)
        /\ s.name = "cooldown" /\ s.attempts >= MaxAttempts
    BY <1>2 DEF CooldownExhausted, CooledDown, GiveUp, Return
  <2>2. /\ RestedState(sup') /\ sup'.name = "exhausted"
        /\ sup'.attempts = s.attempts
    BY <1>0, <2>1, ExhaustedState
  <2>3. EpisodeInv(sup', Count(n))
    BY <1>0, <2>2, RestInv, ParamsAssumption
  <2>4. Surrender(s, n)
    BY <2>1, <2>2 DEF Surrender, RestedState, SupervisorState, Resting
  <2> QED
    BY <2>3, <2>4 DEF Move
<1>3. CASE SelfClearCrossCheckQuery(s, obs)
  <2> DEFINE x == NoScores(s)
  <2>1. /\ sup' = [x EXCEPT !.name = "verifying", !.query_age = 0]
        /\ s.name = "cooldown" /\ decision'.action # "publish_reset"
    BY <1>3 DEF SelfClearCrossCheckQuery, CooledDown, Query, Return
  <2>2. /\ x \in SupervisorState /\ x.attempts = s.attempts
        /\ x.alias_confirmed = s.alias_confirmed
    BY <1>0, ClearingStates DEF Kept
  <2> HIDE DEF x
  <2>3. /\ sup' \in SupervisorState /\ sup'.name = "verifying"
        /\ sup'.attempts = s.attempts
        /\ sup'.alias_confirmed = s.alias_confirmed
    BY <2>1, <2>2, AgeFacts DEF SupervisorState, Names
  <2>4. EpisodeInv(sup', Count(n))
    BY <1>0, <2>1, <2>3, BetweenResetsInv
  <2>5. Linger(s, n)
    BY <2>1, <2>3 DEF Linger, Count, Published, Resting
  <2> QED
    BY <2>4, <2>5 DEF Move
<1>4. CASE CooldownRequestCleared(s, obs)
  <2>1. /\ sup' = ResetToIdle(s)
        /\ s.name = "cooldown" /\ ~s.alias_confirmed
        /\ decision'.action = "none"
    BY <1>4 DEF CooldownRequestCleared, CooledDown, EpisodeLive, Continue, Return
  <2>2. /\ RestedState(sup') /\ sup'.name = "idle"
        /\ sup'.attempts = 0
    BY <1>0, <2>1, IdleState
  <2>3. EpisodeInv(sup', Count(n))
    BY <1>0, <2>2, RestInv, ParamsAssumption
  <2>4. Forget(s, n)
    BY <2>1, <2>2 DEF Forget, RestedState, SupervisorState, Resting
  <2> QED
    BY <2>3, <2>4 DEF Move
<1>5. CASE CooldownElapsed(s, obs)
  <2>1. /\ sup' = [s EXCEPT !.name = "await_query", !.cooldown_age = NoTime]
        /\ s.name = "cooldown" /\ decision'.action # "publish_reset"
    BY <1>5 DEF CooldownElapsed, CooledDown, Continue, Return
  <2>2. /\ sup' \in SupervisorState /\ sup'.name = "await_query"
        /\ sup'.attempts = s.attempts
        /\ sup'.alias_confirmed = s.alias_confirmed
    BY <1>0, <2>1, AgeFacts DEF SupervisorState, Names, Sources
  <2>3. EpisodeInv(sup', Count(n))
    BY <1>0, <2>1, <2>2, BetweenResetsInv
  <2>4. Linger(s, n)
    BY <2>1, <2>2 DEF Linger, Count, Published, Resting
  <2> QED
    BY <2>3, <2>4 DEF Move
<1> QED
  BY <1>1, <1>2, <1>3, <1>4, <1>5 DEF CoolDown

\* STANDDOWN and EXHAUSTED keep the invariant and make a move of the episode.
LEMMA RestStep ==
  ASSUME NEW s, NEW n, EpisodeInv(s, n), NEW obs \in Observation,
         Rest(s, obs)
  PROVE  EpisodeInv(sup', Count(n)) /\ Move(s, n)
<1>0. /\ s \in SupervisorState /\ s.attempts \in Nat /\ s.index \in Nat
      /\ s.attempts =< MaxAttempts
  BY DEF EpisodeInv, SupervisorState
<1>1. CASE StanddownCleared(s, obs)
  <2> DEFINE x == ResetToIdle(s)
  <2>1. /\ sup' = [x EXCEPT !.request_age = NoTime]
        /\ s.name = "standdown" /\ decision'.action = "none"
    BY <1>1 DEF StanddownCleared, Continue, Return
  <2>2. RestedState(x) /\ x.name = "idle" /\ x.attempts = 0
    BY <1>0, IdleState
  <2> HIDE DEF x
  <2>3. RestedState(sup') /\ sup'.name = "idle" /\ sup'.attempts = 0
    BY <2>1, <2>2, AgeFacts DEF RestedState, SupervisorState
  <2>4. EpisodeInv(sup', Count(n))
    BY <1>0, <2>3, RestInv, ParamsAssumption
  <2>5. Restart(s, n)
    BY <2>1, <2>3 DEF Restart, RestedState, SupervisorState
  <2> QED
    BY <2>4, <2>5 DEF Move
<1>2. CASE StandingDown(s, obs)
  <2>1. sup' = s /\ s.name \in Resting
    BY <1>2 DEF StandingDown, Continue, Return, Resting
  <2>2. RestedState(s) /\ n = 0 /\ Count(n) = 0
    BY <2>1 DEF EpisodeInv, Accounted, RestedState, Count
  <2>3. EpisodeInv(sup', Count(n))
    BY <1>0, <2>1, <2>2, RestInv
  <2>4. Linger(s, n)
    BY <2>1, <2>2 DEF Linger
  <2> QED
    BY <2>3, <2>4 DEF Move
<1>3. CASE ExhaustedCleared(s, obs)
  <2> DEFINE x == ResetToIdle(s)
  <2>1. /\ sup' = [x EXCEPT !.reset_age = NoTime, !.cooldown_age = NoTime]
        /\ s.name = "exhausted" /\ decision'.action = "none"
    BY <1>3 DEF ExhaustedCleared, Continue, Return
  <2>2. RestedState(x) /\ x.name = "idle" /\ x.attempts = 0
    BY <1>0, IdleState
  <2> HIDE DEF x
  <2>3. RestedState(sup') /\ sup'.name = "idle" /\ sup'.attempts = 0
    BY <2>1, <2>2, AgeFacts DEF RestedState, SupervisorState
  <2>4. EpisodeInv(sup', Count(n))
    BY <1>0, <2>3, RestInv, ParamsAssumption
  <2>5. Restart(s, n)
    BY <2>1, <2>3 DEF Restart, RestedState, SupervisorState
  <2> QED
    BY <2>4, <2>5 DEF Move
<1>4. CASE StillExhausted(s, obs)
  <2>1. sup' = s /\ s.name \in Resting
    BY <1>4 DEF StillExhausted, Continue, Return, Resting
  <2>2. RestedState(s) /\ n = 0 /\ Count(n) = 0
    BY <2>1 DEF EpisodeInv, Accounted, RestedState, Count
  <2>3. EpisodeInv(sup', Count(n))
    BY <1>0, <2>1, <2>2, RestInv
  <2>4. Linger(s, n)
    BY <2>1, <2>2 DEF Linger
  <2> QED
    BY <2>3, <2>4 DEF Move
<1> QED
  BY <1>1, <1>2, <1>3, <1>4 DEF Rest

-----------------------------------------------------------------------------
(* Any decision.                                                           *)

\* So does every decision.
LEMMA DecideStep ==
  ASSUME NEW s, NEW n, EpisodeInv(s, n), NEW obs \in Observation,
         Decide(s, obs)
  PROVE  EpisodeInv(sup', Count(n)) /\ Move(s, n)
BY IdleStep, AwaitQueryStep, AwaitCandidatesStep, SettlingStep, VerifyingStep,
   CoolDownStep, RestStep
DEF Decide

\* Every return statement names an action, a reason, an index and a source.
LEMMA DecisionType ==
  ASSUME NEW s \in SupervisorState, NEW obs \in Observation, Decide(s, obs)
  PROVE  decision' \in Decisions
<1>1. s.index \in Nat /\ s.index + 1 \in Nat
  BY DEF SupervisorState
<1>2. ASSUME NEW action \in Actions, NEW reason \in Reasons, NEW t,
             NEW index \in Nat, NEW source \in Sources,
             Return(action, reason, t, index, source)
      PROVE  decision' \in Decisions
  BY <1>2 DEF Return, Decisions
<1>3. CASE Idle(s, obs)
  BY <1>2, <1>3
  DEF Idle, Tracking, RequestDebouncing, RequestArmed, Continue, Actions,
      Reasons, Sources
<1>4. CASE AwaitQuery(s, obs)
  BY <1>2, <1>4
  DEF AwaitQuery, RequestCleared, SpacingHold, OdomBridgeResetPublished,
      AwaitQueryExhausted, QueryIssued, Continue, Query, GiveUp, Publish,
      Actions, Reasons, Sources
<1>5. CASE AwaitCandidates(s, obs)
  BY <1>2, <1>5
  DEF AwaitCandidates, ScanNotReady, ResetPublished, WeakCandidateRejected,
      QueryTimedOut, AwaitingCandidates, Continue, Publish,
      Actions, Reasons, Sources
<1>6. CASE Settling(s, obs)
  BY <1>1, <1>2, <1>6
  DEF Settling, ConfirmCrossCheckQuery, RecoveryConfirmed,
      OdomBridgeUnconfirmed, NextCandidate, RecoveryFailedExhausted,
      RecoveryUnconfirmed, StillSettling, Continue, Query, GiveUp, Publish,
      Actions, Reasons, Sources
<1>7. CASE Verifying(s, obs)
  BY <1>2, <1>7
  DEF Verifying, VerifyConfirmed, VerifyFailedExhausted, CrossCheckReseed,
      CrossCheckMismatch, CrossCheckTimeout, StillVerifying, Continue,
      GiveUp, Publish, Actions, Reasons, Sources
<1>8. CASE CoolDown(s, obs)
  BY <1>2, <1>8
  DEF CoolDown, CoolingDown, CooldownExhausted, SelfClearCrossCheckQuery,
      CooldownRequestCleared, CooldownElapsed, Continue, Query, GiveUp,
      Actions, Reasons, Sources
<1>9. CASE Rest(s, obs)
  BY <1>2, <1>9
  DEF Rest, StanddownCleared, StandingDown, ExhaustedCleared, StillExhausted,
      Continue, Actions, Reasons, Sources
<1> QED
  BY <1>3, <1>4, <1>5, <1>6, <1>7, <1>8, <1>9 DEF Decide

\* Time passing and the request line being read do not disturb the invariant.
LEMMA ObservedInv ==
  ASSUME NEW s, NEW n, EpisodeInv(s, n), NEW dt \in Nat,
         NEW asking \in BOOLEAN
  PROVE  EpisodeInv(Observed(s, dt, asking), n)
<1> DEFINE o == Observed(s, dt, asking)
<1>1. s \in SupervisorState
  BY DEF EpisodeInv
<1>2. /\ o \in SupervisorState
      /\ o.name = s.name /\ o.attempts = s.attempts
      /\ o.scores = s.scores /\ o.index = s.index
      /\ o.evidence = s.evidence
      /\ o.alias_confirmed = s.alias_confirmed
      /\ o.active_source = s.active_source
      /\ o.bridge_attempts = s.bridge_attempts
      /\ o.bridge_exhausted = s.bridge_exhausted
      /\ o.reset_age = NoTime <=> s.reset_age = NoTime
  BY <1>1, ObservedState
<1> HIDE DEF o
<1>3. EpisodeInv(o, n)
  BY <1>2 DEF EpisodeInv, Accounted
<1> QED
  BY <1>3 DEF o

\* A step of the reducer, seen from the stored state.
LEMMA NextMove ==
  ASSUME PolicyInv, PolicyNext
  PROVE  /\ Move(sup, hist.bbs) /\ hist'.bbs = Count(hist.bbs)
         /\ EpisodeInv(sup', Count(hist.bbs)) /\ decision' \in Decisions
         /\ hist' \in [bbs: Nat, bridge: Nat, gap: Ages]
<1>1. PICK dt \in TickGaps, obs \in Observation : Tick(dt, obs)
  BY DEF PolicyNext
<1> DEFINE o == Observed(sup, dt, obs.requested)
<1>2. Decide(o, obs) /\ Track(dt)
  BY <1>1 DEF Tick
<1>3. dt \in Nat /\ obs.requested \in BOOLEAN
  BY DomainAssumption DEF Observation
<1>4. EpisodeInv(sup, hist.bbs) /\ sup \in SupervisorState
  BY DEF PolicyInv, EpisodeInv
<1>5. EpisodeInv(o, hist.bbs)
  BY <1>3, <1>4, ObservedInv
<1>6. /\ o.name = sup.name /\ o.attempts = sup.attempts
      /\ o.alias_confirmed = sup.alias_confirmed
  BY <1>3, <1>4, ObservedState
<1> HIDE DEF o
<1>7. EpisodeInv(sup', Count(hist.bbs)) /\ Move(o, hist.bbs)
  BY <1>2, <1>5, DecideStep
<1>8. Move(sup, hist.bbs)
  BY <1>6, <1>7
  DEF Move, Linger, Begin, Pay, Step, Suspect, Settle, Surrender, Forget, Restart
<1>9. decision' \in Decisions
  BY <1>2, <1>5, DecisionType DEF EpisodeInv
<1>10. /\ hist.bbs \in Nat /\ hist.bridge \in Nat /\ hist.gap \in Ages
  BY DEF PolicyInv, PolicyTypeOK
<1>11. Older(hist.gap, dt) \in Ages
  BY <1>3, <1>10, OlderAge
<1>12. /\ hist' \in [bbs: Nat, bridge: Nat, gap: Ages]
       /\ hist'.bbs = Count(hist.bbs)
  BY <1>2, <1>10, <1>11, AgeFacts DEF Track, Count
<1> QED
  BY <1>7, <1>8, <1>9, <1>12

\* The invariant holds of the initial state.
LEMMA InitInv == PolicyInit => PolicyInv
<1> SUFFICES ASSUME PolicyInit PROVE PolicyInv
  OBVIOUS
<1>1. /\ InitialState \in SupervisorState
      /\ InitialState.name = "idle" /\ InitialState.attempts = 0
      /\ ~InitialState.alias_confirmed /\ ~InitialState.bridge_exhausted
      /\ InitialState.bridge_attempts = 0 /\ InitialState.evidence = 0
  BY AgeFacts DEF InitialState, SupervisorState, Names, Sources
<1>2. 0 =< 0 * WalkLength
  BY WalkLengthPositive
<1>3. EpisodeInv(sup, hist.bbs)
  BY <1>1, <1>2, ParamsAssumption
  DEF PolicyInit, EpisodeInv, Accounted, Resting
<1>4. PolicyTypeOK
  BY <1>1, AgeFacts
  DEF PolicyInit, PolicyTypeOK, Decisions, Actions, Reasons, Sources
<1> QED
  BY <1>3, <1>4 DEF PolicyInv

\* The invariant is inductive.
LEMMA NextInv == PolicyInv /\ [PolicyNext]_policyVars => PolicyInv'
<1> SUFFICES ASSUME PolicyInv, [PolicyNext]_policyVars PROVE PolicyInv'
  OBVIOUS
<1>1. CASE PolicyNext
  BY <1>1, NextMove DEF PolicyInv, PolicyTypeOK, EpisodeInv
<1>2. CASE UNCHANGED policyVars
  BY <1>2 DEF policyVars, PolicyInv, PolicyTypeOK
<1> QED
  BY <1>1, <1>2

-----------------------------------------------------------------------------
(* Theorems.                                                               *)

\* The reducer keeps its invariant under every sequence of observations, for
\* every setting of its parameters.
THEOREM PolicyInvariant == PolicySpec => []PolicyInv
<1>1. PolicyInit => PolicyInv
  BY InitInv
<1>2. PolicyInv /\ [PolicyNext]_policyVars => PolicyInv'
  BY NextInv
<1> QED
  BY <1>1, <1>2, PTL DEF PolicySpec

\* Every state decide() returns and every decision it makes has its type.
THEOREM TypeCorrect == PolicySpec => []PolicyTypeOK
<1>1. PolicyInv => PolicyTypeOK
  BY DEF PolicyInv
<1> QED
  BY <1>1, PolicyInvariant, PTL

\* max_attempts is a true ceiling.
THEOREM AttemptsBounded == PolicySpec => []AttemptCeiling
<1>1. PolicyInv => AttemptCeiling
  BY DEF PolicyInv, EpisodeInv, AttemptCeiling
<1> QED
  BY <1>1, PolicyInvariant, PTL

\* Walking the ranked list never publishes more candidates than the attempts
\* paid for.
THEOREM WalkIsPaid == PolicySpec => []PublicationsPaid
<1>1. PolicyInv => PublicationsPaid
  BY DEF PolicyInv, EpisodeInv, Accounted, PublicationsPaid
<1> QED
  BY <1>1, PolicyInvariant, PTL

\* Whatever is being settled was scored at or above the floor.
THEOREM SettlesScored == PolicySpec => []SettlingCandidateScored
<1>1. PolicyInv => SettlingCandidateScored
  BY DEF PolicyInv, EpisodeInv, SettlingCandidateScored
<1> QED
  BY <1>1, PolicyInvariant, PTL

\* No exit of an episode leaks per-episode state into the next one.
THEOREM CleanSlate == PolicySpec => []RestsWithCleanSlate
<1>1. PolicyInv => RestsWithCleanSlate
  BY DEF PolicyInv, EpisodeInv, RestsWithCleanSlate
<1> QED
  BY <1>1, PolicyInvariant, PTL

\* Every episode of the reducer is accounted for: the four statements above, of
\* its attempts, its publications, its candidate and what it leaves behind.
THEOREM EpisodeAccounted == PolicySpec => []EpisodeIsAccounted
<1>1. AttemptCeiling /\ PublicationsPaid /\ SettlingCandidateScored /\ RestsWithCleanSlate
      <=> EpisodeIsAccounted
  BY DEF EpisodeIsAccounted
<1> QED
  BY <1>1, AttemptsBounded, WalkIsPaid, SettlesScored, CleanSlate, PTL

\* No tick that acts lowers the attempt counter.
THEOREM CeilingHolds == PolicySpec => CeilingNotSelfReset
<1> DEFINE NotReset == decision'.action # "none" => sup'.attempts >= sup.attempts
<1>1. PolicyInv /\ [PolicyNext]_policyVars => [NotReset]_policyVars
  <2> SUFFICES ASSUME PolicyInv, PolicyNext PROVE NotReset
    OBVIOUS
  <2>1. Move(sup, hist.bbs)
    BY NextMove
  <2>2. sup.attempts \in Nat
    BY DEF PolicyInv, EpisodeInv, SupervisorState
  <2>3. decision'.action # "none" =>
          sup'.attempts = sup.attempts \/ sup'.attempts = sup.attempts + 1
    BY <2>1
    DEF Move, Linger, Begin, Pay, Step, Suspect, Settle, Surrender, Forget,
        Restart
  <2> QED
    BY <2>2, <2>3
<1> QED
  BY <1>1, PolicyInvariant, PTL DEF PolicySpec, CeilingNotSelfReset

\* The abstract mode of a state tells where the loop rests, if it does.
LEMMA ModeFacts ==
  /\ EpisodeMode = "watching" <=> sup.name = "idle"
  /\ EpisodeMode = "confirmed" <=> sup.name = "standdown"
  /\ EpisodeMode = "gave_up" <=> sup.name = "exhausted"
  /\ EpisodeMode = "recovering" <=> sup.name \notin Resting
BY DEF EpisodeMode, Resting

\* The same of the next state.
LEMMA ModeFactsNext ==
  /\ EpisodeMode' = "watching" <=> sup'.name = "idle"
  /\ EpisodeMode' = "confirmed" <=> sup'.name = "standdown"
  /\ EpisodeMode' = "gave_up" <=> sup'.name = "exhausted"
  /\ EpisodeMode' = "recovering" <=> sup'.name \notin Resting
BY DEF EpisodeMode, Resting

\* Every step of the reducer is a step of the abstract episode, or none.
LEMMA NextIsBounded ==
  PolicyInv /\ [PolicyNext]_policyVars => [Bounded!Next]_(Bounded!recoveryVars)
<1> SUFFICES ASSUME PolicyInv, [PolicyNext]_policyVars
             PROVE  [Bounded!Next]_(Bounded!recoveryVars)
  OBVIOUS
<1> DEFINE n == hist.bbs
           k == Count(n)
<1>1. CASE UNCHANGED policyVars
  BY <1>1 DEF policyVars, Bounded!recoveryVars, EpisodeMode
<1>2. CASE PolicyNext
  <2>1. Move(sup, n) /\ hist'.bbs = k /\ EpisodeInv(sup', k)
    BY <1>2, NextMove
  <2>2. /\ EpisodeInv(sup, n) /\ n \in Nat /\ sup.attempts \in Nat
        /\ sup.alias_confirmed \in BOOLEAN /\ sup'.alias_confirmed \in BOOLEAN
    BY <2>1 DEF PolicyInv, EpisodeInv, SupervisorState
  <2>3. k \in {0, n, n + 1}
    BY DEF Count
  <2>4. /\ sup.name \in Resting => n = 0 /\ ~sup.alias_confirmed
        /\ sup'.name \in Resting => k = 0 /\ ~sup'.alias_confirmed
    BY <2>1, <2>2 DEF EpisodeInv, Accounted
  <2>5. sup'.name \notin Resting => k \in {n, n + 1}
    BY DEF Count
  <2>6. k =< sup'.attempts * WalkLength
    BY <2>1 DEF EpisodeInv, Accounted
  <2>7. sup'.name \notin Resting /\ Published("bbs") => k = n + 1
    BY DEF Count
  <2> HIDE DEF n, k
  <2>10. CASE Linger(sup, n)
    <3>1. CASE sup'.name = sup.name
      BY <2>1, <2>10, <3>1 DEF Linger, Bounded!recoveryVars, EpisodeMode, n, k
    <3>2. CASE sup.name \notin Resting /\ sup'.name \notin Resting
      <4>1. EpisodeMode' = EpisodeMode
        BY <3>2, ModeFacts, ModeFactsNext
      <4> QED
        BY <2>1, <2>10, <4>1 DEF Linger, Bounded!recoveryVars, n, k
    <3> QED
      BY <2>10, <3>1, <3>2 DEF Linger
  <2>11. CASE Begin(sup, n)
    <3>1. Bounded!Engage
      BY <2>1, <2>11, ModeFacts, ModeFactsNext DEF Begin, Bounded!Engage, n, k
    <3> QED
      BY <3>1 DEF Bounded!Next
  <2>12. CASE Pay(sup, n)
    <3>1. Bounded!Attempt
      BY <2>1, <2>5, <2>12, ModeFacts, ModeFactsNext
      DEF Pay, Bounded!Attempt, n, k
    <3> QED
      BY <3>1 DEF Bounded!Next
  <2>13. CASE Step(sup, n)
    <3>1. k = n + 1 /\ n < sup.attempts * WalkLength
      BY <2>2, <2>6, <2>7, <2>13, OneMoreWalk DEF Step
    <3>2. Bounded!Walk
      BY <2>1, <2>13, <3>1, ModeFacts, ModeFactsNext
      DEF Step, Bounded!Walk, n, k
    <3> QED
      BY <3>2 DEF Bounded!Next
  <2>14. CASE Suspect(sup, n)
    <3>1. Bounded!Expose
      BY <2>1, <2>14, ModeFacts, ModeFactsNext DEF Suspect, Bounded!Expose, n, k
    <3> QED
      BY <3>1 DEF Bounded!Next
  <2>15. CASE Settle(sup, n)
    <3>1. k = 0
      BY <2>4, <2>15 DEF Settle, Resting
    <3>2. Bounded!Confirm
      BY <2>1, <2>15, <3>1, ModeFacts, ModeFactsNext
      DEF Settle, Bounded!Confirm, n, k
    <3> QED
      BY <3>2 DEF Bounded!Next
  <2>16. CASE Surrender(sup, n)
    <3>1. k = 0
      BY <2>4, <2>16 DEF Surrender, Resting
    <3>2. Bounded!GiveUpSpent
      BY <2>1, <2>16, <3>1, ModeFacts, ModeFactsNext
      DEF Surrender, Bounded!GiveUpSpent, n, k
    <3> QED
      BY <3>2 DEF Bounded!Next
  <2>17. CASE Forget(sup, n)
    <3>1. k = 0 /\ sup'.alias_confirmed = sup.alias_confirmed
      BY <2>2, <2>4, <2>17 DEF Forget, Resting
    <3>2. Bounded!Drop
      BY <2>1, <2>17, <3>1, ModeFacts, ModeFactsNext
      DEF Forget, Bounded!Drop, n, k
    <3> QED
      BY <3>2 DEF Bounded!Next
  <2>18. CASE Restart(sup, n)
    <3>1. /\ k = n
          /\ sup'.alias_confirmed = sup.alias_confirmed
      BY <2>2, <2>4, <2>18 DEF Restart, Resting
    <3>2. Bounded!Rearm
      BY <2>1, <2>18, <3>1, ModeFacts, ModeFactsNext
      DEF Restart, Bounded!Rearm, n, k
    <3> QED
      BY <3>2 DEF Bounded!Next
  <2> QED
    BY <2>1, <2>10, <2>11, <2>12, <2>13, <2>14, <2>15, <2>16, <2>17, <2>18
    DEF Move
<1> QED
  BY <1>1, <1>2

\* The reducer implements the bounded recovery episode.
THEOREM ImplementsBoundedRecovery == PolicySpec => RecoveryIsBounded
<1>1. PolicyInit => Bounded!Init
  BY DEF PolicyInit, InitialState, Bounded!Init, EpisodeMode
<1>2. PolicyInv /\ [PolicyNext]_policyVars => [Bounded!Next]_(Bounded!recoveryVars)
  BY NextIsBounded
<1> QED
  BY <1>1, <1>2, PolicyInvariant, PTL
  DEF PolicySpec, RecoveryIsBounded, Bounded!Spec

-----------------------------------------------------------------------------
\* What the callbacks leave for _tick to read.
ShellInv ==
  /\ requested \in BOOLEAN
  /\ pending \in ScoreLists \cup {NoReply} /\ retryable \in BOOLEAN
  /\ fitness \in Fitness /\ stamp \in Stamps \cup {NoTime}
  /\ mismatch \in Mismatch
  /\ pending = NoReply => ~retryable /\ mismatch = "none"

\* A new sample has an identity of its own.
LEMMA FreshStampType ==
  ASSUME stamp \in Stamps \cup {NoTime}, sup.last_sample \in Stamps \cup {NoTime}
  PROVE  FreshStamp \in Stamps
BY NodeAssumption DEF FreshStamp

\* The shadow gate turns a reply into a reply.
LEMMA GatedType ==
  ASSUME NEW scores \in ScoreLists, NEW gated \in Gated(scores)
  PROVE  gated \in ScoreLists
<1>1. CASE EnableShadowGate
  BY <1>1, NodeAssumption
<1>2. CASE ~EnableShadowGate
  BY <1>2 DEF Gated
<1> QED
  BY <1>1, <1>2

\* What _tick builds from the shell's state is an observation.
LEMMA NodeObservationType ==
  ASSUME ShellInv, sup \in SupervisorState, NEW bridge \in BOOLEAN
  PROVE  NodeObservation(bridge) \in Observation
<1>1. FreshStamp \in Stamps
  BY FreshStampType DEF ShellInv, SupervisorState
<1> DEFINE f == IF ClearIsEvidence THEN "recovered"
                ELSE IF sup.name = "settling" /\ ~afterReset THEN "none"
                ELSE fitness
           st == IF ClearIsEvidence THEN FreshStamp ELSE stamp
<1>2. f \in Fitness /\ st \in Stamps \cup {NoTime}
  BY <1>1 DEF ShellInv, Fitness
<1> HIDE DEF f, st
<1>3. NodeObservation(bridge) =
        [requested |-> requested, reply |-> pending, retryable |-> retryable,
         fitness |-> f, stamp |-> st, mismatch |-> mismatch, bridge |-> bridge]
  BY DEF NodeObservation, f, st
<1> QED
  BY <1>2, <1>3 DEF ShellInv, Observation

\* A timer tick is a call of decide() on an observation.
LEMMA TickIsPolicyStep ==
  ASSUME ShellInv, sup \in SupervisorState, NodeTick
  PROVE  PolicyNext
<1>1. PICK dt \in TickGaps, bridge \in BOOLEAN : Tick(dt, NodeObservation(bridge))
  BY DEF NodeTick
<1>2. NodeObservation(bridge) \in Observation
  BY NodeObservationType
<1> QED
  BY <1>1, <1>2 DEF PolicyNext

\* The shell keeps its own part of the invariant.
LEMMA ShellStep ==
  ASSUME ShellInv, sup \in SupervisorState, [NodeNext]_vars
  PROVE  ShellInv'
<1>0. FreshStamp \in Stamps
  BY FreshStampType DEF ShellInv, SupervisorState
<1>1. CASE OnReinit
  BY <1>1 DEF OnReinit, ShellInv
<1>2. CASE OnAlignmentStatus
  BY <1>0, <1>2 DEF OnAlignmentStatus, ShellInv
<1>3. CASE QuerySucceeds
  <2>1. PICK scores \in ScoreLists \ {<<>>} :
          pending' \in Gated(scores) /\ mismatch' \in CrossCheck(scores)
    BY <1>3 DEF QuerySucceeds
  <2>2. pending' \in ScoreLists
    BY <2>1, GatedType
  <2>3. mismatch' \in Mismatch
    BY <2>1 DEF CrossCheck, ShellInv, Mismatch
  <2>4. retryable' = FALSE /\ UNCHANGED <<requested, fitness, stamp>>
    BY <1>3 DEF QuerySucceeds
  <2> QED
    BY <2>2, <2>3, <2>4, DomainAssumption DEF ShellInv
<1>4. CASE QueryComesBackEmpty
  BY <1>4, NodeAssumption, DomainAssumption DEF QueryComesBackEmpty, ShellInv
<1>5. CASE QueryLost
  BY <1>5 DEF QueryLost, ShellInv
<1>6. CASE NodeTick
  <2>1. /\ pending' = NoReply /\ retryable' = FALSE
        /\ mismatch' = "none"
        /\ stamp' \in Stamps \cup {NoTime}
        /\ UNCHANGED <<requested, fitness>>
    BY <1>0, <1>6 DEF NodeTick, ShellInv
  <2> QED
    BY <2>1 DEF ShellInv, Mismatch
<1>7. CASE UNCHANGED vars
  BY <1>7 DEF vars, ShellInv
<1> QED
  BY <1>1, <1>2, <1>3, <1>4, <1>5, <1>6, <1>7 DEF NodeNext, QueryEnds

\* Every step of the node is a step of the policy, or leaves it alone.
LEMMA NodeStep ==
  ASSUME ShellInv, PolicyInv, [NodeNext]_vars
  PROVE  [PolicyNext]_policyVars
<1>1. sup \in SupervisorState
  BY DEF PolicyInv, EpisodeInv
<1>2. CASE NodeTick
  BY <1>1, <1>2, TickIsPolicyStep
<1>3. CASE ~NodeTick
  BY <1>3
  DEF NodeNext, QueryEnds, OnReinit, OnAlignmentStatus, QuerySucceeds,
      QueryComesBackEmpty, QueryLost, vars, policyVars
<1> QED
  BY <1>2, <1>3

\* The node keeps the policy's invariant and its own.
LEMMA NodeInvariant == NodeSpec => [](PolicyInv /\ ShellInv)
<1> DEFINE Inv == PolicyInv /\ ShellInv
<1>1. NodeInit => Inv
  <2>1. NodeInit => PolicyInv
    BY InitInv DEF NodeInit
  <2>2. NodeInit => ShellInv
    BY DEF NodeInit, ShellInv, Fitness, Mismatch
  <2> QED
    BY <2>1, <2>2
<1>2. Inv /\ [NodeNext]_vars => Inv'
  <2> SUFFICES ASSUME Inv, [NodeNext]_vars PROVE Inv'
    OBVIOUS
  <2>1. ShellInv'
    BY ShellStep DEF PolicyInv, EpisodeInv
  <2>2. PolicyInv'
    BY NodeStep, NextInv
  <2> QED
    BY <2>1, <2>2
<1> QED
  BY <1>1, <1>2, PTL DEF NodeSpec

\* The node is the policy run on observations: whatever the callbacks, the
\* service and the timer do, it behaves as PolicySpec allows.
THEOREM NodeRunsPolicy == NodeSpec => PolicySpec
<1>1. NodeInit => PolicyInit
  BY DEF NodeInit
<1>2. PolicyInv /\ ShellInv /\ [NodeNext]_vars => [PolicyNext]_policyVars
  BY NodeStep
<1> QED
  BY <1>1, <1>2, NodeInvariant, PTL DEF NodeSpec, PolicySpec

\* So the node recovers within its budget, whatever the service answers.
THEOREM NodeRecoveryIsBounded == NodeSpec => RecoveryIsBounded
  BY NodeRunsPolicy, ImplementsBoundedRecovery, PTL

\* The same for the accounting of an episode.
THEOREM NodeEpisodeAccounted == NodeSpec => []EpisodeIsAccounted
  BY NodeRunsPolicy, EpisodeAccounted, PTL

-----------------------------------------------------------------------------
(* The types of the shell.                                                 *)

ShellTypes ==
  /\ ShellInv
  /\ afterReset \in BOOLEAN
  /\ candidates \in Seq(Scores)
  /\ inflight \in 0..MaxInFlight
  /\ nodeHist \in [overtaken: BOOLEAN, good: 0..Needed, sent: Sent]

LEMMA NeededType == Needed \in Nat /\ Needed >= 1
  BY ParamsAssumption DEF Needed

\* Answering a query and forgetting the outstanding ones keep their number
\* within its bound.
LEMMA QueueTypes ==
  ASSUME inflight \in 0..MaxInFlight
  PROVE  /\ inflight > 0 => inflight - 1 \in 0..MaxInFlight
         /\ Abandoned \in 0..MaxInFlight
         /\ Capped(Abandoned + 1) \in 0..MaxInFlight
<1>0. MaxInFlight \in Nat /\ MaxInFlight >= 1
  BY NodeAssumption
<1>1. Abandoned \in 0..MaxInFlight
  BY <1>0 DEF Abandoned
<1> QED
  BY <1>0, <1>1 DEF Capped

\* The shell keeps its types.
LEMMA ShellTypesStep ==
  ASSUME ShellTypes, sup \in SupervisorState, [NodeNext]_vars
  PROVE  ShellTypes'
<1>0. ShellInv'
  BY ShellStep DEF ShellTypes
<1> USE NeededType DEF ShellTypes
<1>a. nodeHist = [overtaken |-> nodeHist.overtaken, good |-> nodeHist.good,
                  sent |-> nodeHist.sent]
      /\ nodeHist.overtaken \in BOOLEAN /\ nodeHist.good \in 0..Needed
      /\ nodeHist.sent \in Sent
  OBVIOUS
<1>1. CASE OnReinit
  BY <1>0, <1>1 DEF OnReinit
<1>2. CASE OnAlignmentStatus
  <2>1. nodeHist' \in [overtaken: BOOLEAN, good: 0..Needed, sent: Sent]
    BY <1>a, <1>2 DEF OnAlignmentStatus
  <2> QED
    BY <1>0, <1>2, <2>1 DEF OnAlignmentStatus
<1>3. CASE QuerySucceeds
  <2>1. candidates' \in Seq(Scores)
    BY <1>3, DomainAssumption DEF QuerySucceeds
  <2>2. inflight' \in 0..MaxInFlight
    BY <1>3, QueueTypes DEF QuerySucceeds
  <2>3. nodeHist' \in [overtaken: BOOLEAN, good: 0..Needed, sent: Sent]
    BY <1>3, <1>a DEF QuerySucceeds, Overtaken
  <2>4. afterReset' = afterReset
    BY <1>3 DEF QuerySucceeds
  <2> QED
    BY <1>0, <2>1, <2>2, <2>3, <2>4
<1>4. CASE QueryComesBackEmpty
  <2>1. candidates' \in Seq(Scores) /\ afterReset' = afterReset
    BY <1>4 DEF QueryComesBackEmpty
  <2>2. inflight' \in 0..MaxInFlight
    BY <1>4, QueueTypes DEF QueryComesBackEmpty
  <2>3. nodeHist' \in [overtaken: BOOLEAN, good: 0..Needed, sent: Sent]
    BY <1>4, <1>a DEF QueryComesBackEmpty, Overtaken
  <2> QED
    BY <1>0, <2>1, <2>2, <2>3
<1>5. CASE QueryLost
  <2>1. inflight' \in 0..MaxInFlight
    BY <1>5, QueueTypes DEF QueryLost
  <2> QED
    BY <1>0, <1>5, <2>1 DEF QueryLost
<1>6. CASE NodeTick
  <2>1. inflight' \in 0..MaxInFlight
    <3>1. inflight' \in {Abandoned, Capped(Abandoned + 1), inflight}
      BY <1>6 DEF NodeTick, InFlightAfterTick
    <3> QED
      BY <3>1, QueueTypes
  <2>2. SentPose \in Sent
    BY DEF SentPose, Sent
  <2>3. nodeHist' \in [overtaken: BOOLEAN, good: 0..Needed, sent: Sent]
    BY <1>6, <1>a, <2>2 DEF NodeTick
  <2>4. afterReset' \in BOOLEAN /\ candidates' = candidates
    BY <1>6 DEF NodeTick
  <2> QED
    BY <1>0, <2>1, <2>3, <2>4
<1>7. CASE UNCHANGED vars
  BY <1>0, <1>7 DEF vars
<1> QED
  BY <1>1, <1>2, <1>3, <1>4, <1>5, <1>6, <1>7 DEF NodeNext, QueryEnds

LEMMA ShellTypesHold == NodeSpec => []ShellTypes
<1>1. NodeInit => ShellTypes
  <2> SUFFICES ASSUME NodeInit PROVE ShellTypes
    OBVIOUS
  <2>1. ShellInv /\ afterReset \in BOOLEAN
    BY DEF NodeInit, ShellInv, Fitness, Mismatch
  <2>2. candidates \in Seq(Scores) /\ inflight \in 0..MaxInFlight
    <3>1. candidates = <<>> /\ inflight = 0 /\ MaxInFlight \in Nat
      BY NodeAssumption DEF NodeInit
    <3>2. <<>> \in Seq(Scores)
      OBVIOUS
    <3> QED
      BY <3>1, <3>2
  <2>3. nodeHist \in [overtaken: BOOLEAN, good: 0..Needed, sent: Sent]
    BY NeededType DEF NodeInit, Sent
  <2> QED
    BY <2>1, <2>2, <2>3 DEF ShellTypes
<1>2. PolicyInv /\ ShellTypes /\ [NodeNext]_vars => ShellTypes'
  BY ShellTypesStep DEF PolicyInv, EpisodeInv
<1> QED
  BY <1>1, <1>2, NodeInvariant, PTL DEF NodeSpec

\* Type correctness of the node, the policy's state included.
THEOREM NodeTypeCorrect == NodeSpec => []NodeTypeOK
<1>1. PolicyTypeOK /\ ShellTypes => NodeTypeOK
  BY DomainAssumption DEF NodeTypeOK, ShellTypes, ShellInv
<1>2. NodeSpec => []PolicyTypeOK
  BY NodeRunsPolicy, TypeCorrect, PTL
<1> QED
  BY <1>1, <1>2, ShellTypesHold, PTL

-----------------------------------------------------------------------------
(* What one decision has to do with the settling of a reset.               *)

\* The decisions that publish, and what they leave to settle.
PublishesTop(s, obs) ==
  /\ s.name \in Waiting /\ obs.reply # NoReply
  /\ sup'.scores = obs.reply /\ sup'.index = 0 /\ decision'.index = 0
  /\ Publishable(obs.reply, 0)
PublishesNext(s) ==
  /\ s.name = "settling" /\ s.active_source = "bbs"
  /\ sup'.scores = s.scores /\ decision'.index = sup'.index
  /\ sup'.index = s.index + 1 /\ Publishable(s.scores, sup'.index)
Publishes(s, obs) ==
  /\ decision'.action = "publish_reset" /\ sup'.name = "settling"
  /\ sup'.evidence = 0 /\ sup'.active_source = decision'.source
  /\ decision'.source = "bbs" => PublishesTop(s, obs) \/ PublishesNext(s)

\* The decisions that go on waiting for a reset to settle.
Waits(s, obs) ==
  /\ s.name = "settling" /\ decision'.action = "none"
  /\ sup' = WithEvidence(s, obs)

\* The decisions that end the wait, or have nothing to do with it.
Leaves(s, obs) ==
  /\ decision'.action # "publish_reset" /\ sup'.name # "settling"
  /\ decision'.action = "query" => sup'.name \in Waiting
  /\ s.name = "settling" /\ sup'.name \in {"verifying", "standdown"} =>
       WithEvidence(s, obs).evidence >= Needed

\* While nothing settles a decision other than a reset leaves nothing to settle.
LEMMA WaitingDecides ==
  ASSUME NEW s, NEW n, EpisodeInv(s, n), NEW obs \in Observation,
         Idle(s, obs) \/ AwaitQuery(s, obs) \/ AwaitCandidates(s, obs)
  PROVE  Publishes(s, obs) \/ Leaves(s, obs)
<1>0. s \in SupervisorState /\ (s.name = "await_candidates" => s.active_source = "bbs")
  BY DEF EpisodeInv
<1> USE DEF Continue, Query, GiveUp, Publish, Return
<1>1. CASE Idle(s, obs)
  BY <1>0, <1>1 DEF Idle, Tracking, RequestDebouncing, RequestArmed, Leaves,
     SupervisorState
<1>2. CASE RequestCleared(s, obs)
  BY <1>0, <1>2, IdleState DEF RequestCleared, Leaves
<1>3. CASE SpacingHold(s, obs)
  BY <1>3 DEF SpacingHold, Leaves
<1>4. CASE OdomBridgeResetPublished(s, obs)
  <2> DEFINE e == NoEvidence(s)
             x == NoScores(e)
  <2>1. /\ sup' = [x EXCEPT !.name = "settling", !.reset_age = 0,
                     !.query_age = NoTime, !.active_source = "odom_bridge"]
        /\ decision' = [action |-> "publish_reset",
                        reason |-> "odom_bridge_reset_published",
                        index |-> 0, source |-> "odom_bridge"]
    BY <1>4 DEF OdomBridgeResetPublished
  <2>2. e \in SupervisorState /\ e.evidence = 0
    BY <1>0, ClearingStates DEF Kept, NoEvidence, SupervisorState
  <2> HIDE DEF e
  <2>3. x \in SupervisorState /\ x.evidence = 0
    BY <2>2, ClearingStates DEF Kept, NoScores, SupervisorState
  <2> HIDE DEF x
  <2>4. sup'.name = "settling" /\ sup'.evidence = 0 /\ sup'.active_source = "odom_bridge"
    BY <2>1, <2>3 DEF SupervisorState
  <2> QED
    BY <2>1, <2>4 DEF Publishes
<1>5. CASE AwaitQueryExhausted(s, obs)
  BY <1>0, <1>5, ExhaustedState DEF AwaitQueryExhausted, MayAct, Leaves
<1>6. CASE QueryIssued(s, obs)
  BY <1>0, <1>6 DEF QueryIssued, MayAct, Leaves, SupervisorState, Waiting
<1>7. CASE ScanNotReady(s, obs)
  BY <1>0, <1>7 DEF ScanNotReady, Leaves, SupervisorState
<1>8. CASE ResetPublished(s, obs)
  <2> DEFINE e == NoEvidence(s)
             a == e.attempts + 1
  <2>1. /\ sup' = [e EXCEPT !.name = "settling", !.reset_age = 0,
                     !.query_age = NoTime, !.attempts = a,
                     !.scores = obs.reply, !.index = 0]
        /\ decision' = [action |-> "publish_reset", reason |-> "reset_published",
                        index |-> 0, source |-> "bbs"]
        /\ s.name = "await_candidates" /\ Publishable(obs.reply, 0)
        /\ obs.reply # NoReply
    BY <1>8 DEF ResetPublished
  <2>2. e \in SupervisorState /\ e.evidence = 0 /\ e.active_source = "bbs"
    BY <1>0, <2>1, ClearingStates DEF Kept, NoEvidence, SupervisorState
  <2> HIDE DEF e, a
  <2>3. /\ sup'.name = "settling" /\ sup'.evidence = 0
        /\ sup'.active_source = "bbs"
        /\ sup'.scores = obs.reply /\ sup'.index = 0
    BY <2>1, <2>2 DEF SupervisorState
  <2> QED
    BY <2>1, <2>3 DEF Publishes, PublishesTop, Waiting
<1>9. CASE WeakCandidateRejected(s, obs)
  <2> DEFINE a == s.attempts + 1
             x == [s EXCEPT !.attempts = a]
  <2>1. sup' = Cooldown(NoScores(x)) /\ decision'.action = "none"
        /\ s.name = "await_candidates"
    BY <1>9 DEF WeakCandidateRejected
  <2>2. x \in SupervisorState
    BY <1>0 DEF SupervisorState
  <2> HIDE DEF x
  <2>3. sup'.name = "cooldown"
    BY <2>1, <2>2, ClearingStates, CooldownKeeps DEF Kept
  <2> QED
    BY <2>1, <2>3 DEF Leaves
<1>10. CASE QueryTimedOut(s, obs)
  <2> DEFINE a == s.attempts + 1
             x == [s EXCEPT !.attempts = a]
  <2>1. sup' = Cooldown(x) /\ decision'.action = "none"
        /\ s.name = "await_candidates"
    BY <1>10 DEF QueryTimedOut
  <2>2. x \in SupervisorState
    BY <1>0 DEF SupervisorState
  <2> HIDE DEF x
  <2>3. sup'.name = "cooldown"
    BY <2>1, <2>2, CooldownKeeps
  <2> QED
    BY <2>1, <2>3 DEF Leaves
<1>11. CASE AwaitingCandidates(s, obs)
  BY <1>11 DEF AwaitingCandidates, Leaves
<1> QED
  BY <1>1, <1>2, <1>3, <1>4, <1>5, <1>6, <1>7, <1>8, <1>9, <1>10, <1>11
  DEF AwaitQuery, AwaitCandidates

\* A settling goes on, walks to the next candidate, or ends.
LEMMA SettlingDecides ==
  ASSUME NEW s, NEW n, EpisodeInv(s, n), NEW obs \in Observation,
         Settling(s, obs)
  PROVE  Publishes(s, obs) \/ Waits(s, obs) \/ Leaves(s, obs)
<1> DEFINE e == WithEvidence(s, obs)
<1>0. s \in SupervisorState
  BY DEF EpisodeInv
<1>e. Kept(e, s) /\ e.index = s.index /\ e.scores = s.scores /\ e \in SupervisorState
  BY <1>0, EvidenceKeeps DEF Kept
<1> USE DEF Continue, Query, GiveUp, Publish, Return
<1>1. CASE ConfirmCrossCheckQuery(s, obs)
  <2> DEFINE x == NoScores(NoEvidence(e))
  <2>1. /\ sup' = [x EXCEPT !.name = "verifying", !.query_age = 0]
        /\ decision'.action = "query" /\ e.evidence >= Needed
    BY <1>1 DEF ConfirmCrossCheckQuery, Recovered
  <2> HIDE DEF e
  <2>2. NoEvidence(e) \in SupervisorState
    BY <1>e, ClearingStates DEF Kept
  <2>3. x \in SupervisorState
    BY <2>2, ClearingStates DEF Kept
  <2> HIDE DEF x
  <2>4. sup'.name = "verifying"
    BY <2>1, <2>3 DEF SupervisorState
  <2> QED
    BY <2>1, <2>4 DEF Leaves, Waiting, e
<1>2. CASE RecoveryConfirmed(s, obs)
  <2>1. /\ sup' = StanddownConfirmed(e) /\ decision'.action = "none"
        /\ e.evidence >= Needed
    BY <1>2 DEF RecoveryConfirmed, Recovered
  <2> HIDE DEF e
  <2>2. sup'.name = "standdown"
    BY <1>e, <2>1, StanddownState
  <2> QED
    BY <2>1, <2>2 DEF Leaves, e
<1>3. CASE OdomBridgeUnconfirmed(s, obs)
  <2> DEFINE t == e.bridge_attempts + 1
             b == s.bridge_attempts + 1 >= OdomBridgeMaxAttempts
             x == [e EXCEPT !.bridge_attempts = t, !.bridge_exhausted = b]
  <2>1. sup' = Cooldown(NoScores(x)) /\ decision'.action = "none"
    BY <1>3 DEF OdomBridgeUnconfirmed
  <2>2. t \in Nat /\ b \in BOOLEAN
    BY <1>0, <1>e DEF SupervisorState
  <2> HIDE DEF e, t, b
  <2>3. x \in SupervisorState
    BY <1>e, <2>2 DEF SupervisorState
  <2>4. sup'.name = "cooldown"
    BY <2>1, <2>3, ClearingStates, CooldownKeeps DEF Kept
  <2> QED
    BY <2>1, <2>4 DEF Leaves
<1>4. CASE NextCandidate(s, obs)
  <2> DEFINE x == NoEvidence(e)
             i == s.index + 1
  <2>1. /\ sup' = [x EXCEPT !.reset_age = 0, !.index = i]
        /\ decision' = [action |-> "publish_reset", reason |-> "next_candidate",
                        index |-> i, source |-> "bbs"]
        /\ s.name = "settling" /\ s.active_source = "bbs"
        /\ Publishable(s.scores, i)
    BY <1>4 DEF NextCandidate, CanWalk
  <2>i. i = s.index + 1
    OBVIOUS
  <2> HIDE DEF e
  <2>2. /\ x \in SupervisorState /\ x.evidence = 0 /\ x.name = "settling"
        /\ x.scores = s.scores /\ x.active_source = "bbs"
    BY <1>e, <2>1, ClearingStates DEF Kept, NoEvidence, SupervisorState
  <2> HIDE DEF x, i
  <2>3. /\ sup'.name = "settling" /\ sup'.evidence = 0 /\ sup'.index = i
        /\ sup'.scores = s.scores /\ sup'.active_source = "bbs"
    BY <2>1, <2>2 DEF SupervisorState
  <2> QED
    BY <2>1, <2>3, <2>i DEF Publishes, PublishesNext
<1>5. CASE RecoveryFailedExhausted(s, obs)
  <2>1. sup' = ToExhausted(e) /\ decision'.action = "give_up"
    BY <1>5 DEF RecoveryFailedExhausted
  <2> HIDE DEF e
  <2>2. sup'.name = "exhausted"
    BY <1>e, <2>1, ExhaustedState
  <2> QED
    BY <2>1, <2>2 DEF Leaves
<1>6. CASE RecoveryUnconfirmed(s, obs)
  <2>1. sup' = Cooldown(NoScores(e)) /\ decision'.action = "none"
    BY <1>6 DEF RecoveryUnconfirmed
  <2> HIDE DEF e
  <2>2. sup'.name = "cooldown"
    BY <1>e, <2>1, ClearingStates, CooldownKeeps DEF Kept
  <2> QED
    BY <2>1, <2>2 DEF Leaves
<1>7. CASE StillSettling(s, obs)
  BY <1>7 DEF StillSettling, Waits
<1> QED
  BY <1>1, <1>2, <1>3, <1>4, <1>5, <1>6, <1>7 DEF Settling

\* A verify reply is published at once or not at all.
LEMMA VerifyingDecides ==
  ASSUME NEW s, NEW n, EpisodeInv(s, n), NEW obs \in Observation,
         Verifying(s, obs)
  PROVE  Publishes(s, obs) \/ Leaves(s, obs)
<1> DEFINE v == VerifyCleared(s)
<1>0. s \in SupervisorState
  BY DEF EpisodeInv
<1>v. v \in SupervisorState /\ v.index = 0
  BY <1>0, VerifyClearedKeeps DEF Kept
<1> USE DEF Continue, Query, GiveUp, Publish, Return, Mismatched
<1>1. CASE VerifyConfirmed(s, obs)
  BY <1>0, <1>1, StanddownState DEF VerifyConfirmed, Leaves
<1>2. CASE VerifyFailedExhausted(s, obs)
  <2>1. sup' = ToExhausted(v) /\ decision'.action = "give_up" /\ s.name = "verifying"
    BY <1>2 DEF VerifyFailedExhausted
  <2> HIDE DEF v
  <2>2. sup'.name = "exhausted"
    BY <1>v, <2>1, ExhaustedState
  <2> QED
    BY <2>1, <2>2 DEF Leaves
<1>3. CASE CrossCheckReseed(s, obs)
  <2> DEFINE a == v.attempts + 1
  <2>1. /\ sup' = [v EXCEPT !.name = "settling", !.reset_age = 0,
                     !.attempts = a, !.active_source = "bbs",
                     !.scores = obs.reply, !.alias_confirmed = TRUE]
        /\ decision' = [action |-> "publish_reset", reason |-> "cross_check_reseed",
                        index |-> 0, source |-> "bbs"]
        /\ s.name = "verifying" /\ Publishable(obs.reply, 0)
        /\ obs.reply # NoReply
    BY <1>3 DEF CrossCheckReseed
  <2>2. v.evidence = 0
    <3> DEFINE q == [s EXCEPT !.query_age = NoTime]
               x == NoEvidence(q)
    <3>1. q \in SupervisorState
      BY <1>0, AgeFacts DEF SupervisorState
    <3> HIDE DEF q
    <3>2. x \in SupervisorState /\ x.evidence = 0
      BY <3>1, ClearingStates DEF Kept, NoEvidence, SupervisorState
    <3> HIDE DEF x
    <3>3. NoScores(x).evidence = 0
      BY <3>2 DEF NoScores, SupervisorState
    <3> QED
      BY <3>3 DEF VerifyCleared, q, x
  <2> HIDE DEF v, a
  <2>3. /\ sup'.name = "settling" /\ sup'.evidence = 0 /\ sup'.index = 0
        /\ sup'.scores = obs.reply /\ sup'.active_source = "bbs"
    BY <1>v, <2>1, <2>2 DEF SupervisorState
  <2> QED
    BY <2>1, <2>3 DEF Publishes, PublishesTop, Waiting
<1>4. CASE CrossCheckMismatch(s, obs)
  <2> DEFINE x == [v EXCEPT !.alias_confirmed = TRUE]
  <2>1. sup' = Cooldown(x) /\ decision'.action = "none" /\ s.name = "verifying"
    BY <1>4 DEF CrossCheckMismatch
  <2> HIDE DEF v
  <2>2. x \in SupervisorState
    BY <1>v DEF SupervisorState
  <2> HIDE DEF x
  <2>3. sup'.name = "cooldown"
    BY <2>1, <2>2, CooldownKeeps
  <2> QED
    BY <2>1, <2>3 DEF Leaves
<1>5. CASE CrossCheckTimeout(s, obs)
  BY <1>0, <1>5, StanddownState DEF CrossCheckTimeout, Leaves
<1>6. CASE StillVerifying(s, obs)
  BY <1>6 DEF StillVerifying, Leaves
<1> QED
  BY <1>1, <1>2, <1>3, <1>4, <1>5, <1>6 DEF Verifying

\* Cooling down and resting publish nothing.
LEMMA RestDecides ==
  ASSUME NEW s, NEW n, EpisodeInv(s, n), NEW obs \in Observation,
         CoolDown(s, obs) \/ Rest(s, obs)
  PROVE  Leaves(s, obs)
<1>0. s \in SupervisorState
  BY DEF EpisodeInv
<1> USE DEF Continue, Query, GiveUp, Publish, Return, CooledDown
<1>1. CASE CoolingDown(s, obs)
  BY <1>1 DEF CoolingDown, Leaves
<1>2. CASE CooldownExhausted(s, obs)
  BY <1>0, <1>2, ExhaustedState DEF CooldownExhausted, Leaves
<1>3. CASE SelfClearCrossCheckQuery(s, obs)
  <2> DEFINE x == NoScores(s)
  <2>1. x \in SupervisorState
    BY <1>0, ClearingStates DEF Kept
  <2>2. /\ sup' = [x EXCEPT !.name = "verifying", !.query_age = 0]
        /\ s.name = "cooldown" /\ decision'.action = "query"
    BY <1>3 DEF SelfClearCrossCheckQuery
  <2> HIDE DEF x
  <2>3. sup'.name = "verifying"
    BY <2>1, <2>2 DEF SupervisorState
  <2> QED
    BY <2>2, <2>3 DEF Leaves, Waiting
<1>4. CASE CooldownRequestCleared(s, obs)
  BY <1>0, <1>4, IdleState DEF CooldownRequestCleared, Leaves
<1>5. CASE CooldownElapsed(s, obs)
  BY <1>0, <1>5 DEF CooldownElapsed, Leaves, SupervisorState
<1> DEFINE i == ResetToIdle(s)
<1>i. i \in SupervisorState /\ i.name = "idle"
  BY <1>0, IdleState DEF RestedState
<1>6. CASE StanddownCleared(s, obs)
  <2>1. sup' = [i EXCEPT !.request_age = NoTime] /\ decision'.action = "none"
        /\ s.name = "standdown"
    BY <1>6 DEF StanddownCleared
  <2> HIDE DEF i
  <2> QED
    BY <1>i, <2>1 DEF Leaves, SupervisorState
<1>7. CASE ExhaustedCleared(s, obs)
  <2>1. sup' = [i EXCEPT !.reset_age = NoTime, !.cooldown_age = NoTime]
        /\ decision'.action = "none" /\ s.name = "exhausted"
    BY <1>7 DEF ExhaustedCleared
  <2> HIDE DEF i
  <2> QED
    BY <1>i, <2>1 DEF Leaves, SupervisorState
<1>8. CASE StandingDown(s, obs) \/ StillExhausted(s, obs)
  BY <1>8 DEF StandingDown, StillExhausted, Leaves
<1> QED
  BY <1>1, <1>2, <1>3, <1>4, <1>5, <1>6, <1>7, <1>8 DEF CoolDown, Rest

\* Every decision publishes, waits or leaves.
LEMMA DecisionSettles ==
  ASSUME NEW s, NEW n, EpisodeInv(s, n), NEW obs \in Observation,
         Decide(s, obs)
  PROVE  Publishes(s, obs) \/ Waits(s, obs) \/ Leaves(s, obs)
  BY WaitingDecides, SettlingDecides, VerifyingDecides, RestDecides DEF Decide

\* A tick of the node, taken apart.
LEMMA TickDecides ==
  ASSUME PolicyInv, ShellInv, NodeTick
  PROVE  \E dt \in TickGaps, bridge \in BOOLEAN :
           LET s == Observed(sup, dt, requested)
               obs == NodeObservation(bridge)
           IN  /\ s.name = sup.name /\ s.scores = sup.scores
               /\ s.active_source = sup.active_source
               /\ s.evidence = sup.evidence /\ s.last_sample = sup.last_sample
               /\ Publishes(s, obs) \/ Waits(s, obs) \/ Leaves(s, obs)
               /\ s \in SupervisorState /\ obs \in Observation
<1>0. EpisodeInv(sup, hist.bbs) /\ sup \in SupervisorState /\ requested \in BOOLEAN
  BY DEF PolicyInv, EpisodeInv, ShellInv
<1>1. PICK dt \in TickGaps, bridge \in BOOLEAN : Tick(dt, NodeObservation(bridge))
  BY DEF NodeTick
<1> DEFINE s == Observed(sup, dt, requested)
           obs == NodeObservation(bridge)
<1>2. obs \in Observation /\ obs.requested = requested /\ dt \in Nat
  BY <1>0, NodeObservationType, DomainAssumption DEF NodeObservation
<1>3. Decide(s, obs)
  BY <1>1, <1>2 DEF Tick
<1>4. EpisodeInv(s, hist.bbs)
  BY <1>0, <1>2, ObservedInv
<1>5. Publishes(s, obs) \/ Waits(s, obs) \/ Leaves(s, obs)
  <2> HIDE DEF s, obs
  <2> QED
    BY <1>2, <1>3, <1>4, DecisionSettles
<1>6. /\ s.name = sup.name /\ s.scores = sup.scores
      /\ s.active_source = sup.active_source
      /\ s.evidence = sup.evidence /\ s \in SupervisorState
  BY <1>0, <1>2, ObservedState
<1>7. s.last_sample = sup.last_sample
  BY <1>0 DEF Observed, SupervisorState
<1> QED
  BY <1>2, <1>5, <1>6, <1>7

-----------------------------------------------------------------------------
(* Fresh evidence.                                                         *)

\* n samples counted, the last of them last, are backed by samples received
\* since the reset, and one that is not counted yet is one more.
Backed(n, last) ==
  /\ n =< nodeHist.good \/ nodeHist.good >= Needed
  /\ (afterReset /\ fitness = "recovered" /\ stamp # last) =>
       n + 1 =< nodeHist.good \/ nodeHist.good >= Needed
  /\ afterReset => stamp # NoTime

\* The same of the shell after a step.
BackedAfter(n, last) ==
  /\ n =< nodeHist'.good \/ nodeHist'.good >= Needed
  /\ (afterReset' /\ fitness' = "recovered" /\ stamp' # last) =>
       n + 1 =< nodeHist'.good \/ nodeHist'.good >= Needed
  /\ afterReset' => stamp' # NoTime

EvidenceInv == sup.name = "settling" => Backed(sup.evidence, sup.last_sample)

\* A new sample has an identity of its own.
LEMMA FreshStampNew ==
  ASSUME stamp \in Stamps \cup {NoTime}, sup.last_sample \in Stamps \cup {NoTime}
  PROVE  FreshStamp \in Stamps /\ FreshStamp \notin {stamp, sup.last_sample}
BY NodeAssumption DEF FreshStamp

\* A tick that publishes nothing counts what has arrived, and once.
LEMMA TickCounts ==
  ASSUME PolicyInv, ShellTypes, EvidenceInv, NodeTick, sup.name = "settling",
         decision'.action # "publish_reset",
         NEW s \in SupervisorState, s.evidence = sup.evidence,
         s.last_sample = sup.last_sample, NEW bridge \in BOOLEAN
  PROVE  BackedAfter(WithEvidence(s, NodeObservation(bridge)).evidence,
                     WithEvidence(s, NodeObservation(bridge)).last_sample)
<1>0. /\ sup.evidence \in Nat /\ sup.last_sample \in Stamps \cup {NoTime}
      /\ stamp \in Stamps \cup {NoTime} /\ nodeHist.good \in 0..Needed
      /\ Needed \in Nat /\ NoTime \notin Stamps
  BY NeededType, DomainAssumption
  DEF PolicyInv, EpisodeInv, SupervisorState, ShellTypes, ShellInv
<1>1. FreshStamp \in Stamps /\ FreshStamp \notin {stamp, sup.last_sample}
  BY <1>0, FreshStampNew
<1> DEFINE obs == NodeObservation(bridge)
           e == WithEvidence(s, obs)
           n == IF obs.fitness = "recovered" THEN s.evidence + 1 ELSE 0
<1>2. IF NewSample(s, obs)
      THEN e.evidence = n /\ e.last_sample = obs.stamp
      ELSE e.evidence = sup.evidence /\ e.last_sample = sup.last_sample
  <2> DEFINE st == obs.stamp
  <2>1. e = IF NewSample(s, obs)
            THEN [s EXCEPT !.evidence = n, !.last_sample = st] ELSE s
    BY DEF WithEvidence, SupervisorState
  <2> HIDE DEF n, st, obs
  <2> QED
    BY <2>1 DEF SupervisorState, st
<1>3. /\ nodeHist'.good = IF ClearIsEvidence /\ nodeHist.good < Needed
                          THEN nodeHist.good + 1 ELSE nodeHist.good
      /\ afterReset' = (ClearIsEvidence \/ afterReset)
      /\ stamp' = IF ClearIsEvidence THEN FreshStamp ELSE stamp
      /\ fitness' = fitness
  BY DEF NodeTick
<1>4. Backed(sup.evidence, sup.last_sample)
  BY DEF EvidenceInv
<1>5. CASE ClearIsEvidence
  <2>1. obs.fitness = "recovered" /\ obs.stamp = FreshStamp
    BY <1>5 DEF NodeObservation
  <2>2. NewSample(s, obs)
    BY <1>1, <2>1 DEF NewSample
  <2>3. e.evidence = sup.evidence + 1 /\ e.last_sample = FreshStamp
    BY <1>2, <2>1, <2>2
  <2> HIDE DEF e, n, obs
  <2>4. BackedAfter(e.evidence, e.last_sample)
    BY <1>0, <1>1, <1>3, <1>4, <1>5, <2>3 DEF Backed, BackedAfter
  <2> QED
    BY <2>4 DEF e, obs
<1>6. CASE ~ClearIsEvidence
  <2>1. /\ obs.fitness = IF ~afterReset THEN "none" ELSE fitness
        /\ obs.stamp = stamp
    BY <1>6 DEF NodeObservation
  <2>2. NewSample(s, obs) <=> /\ afterReset /\ fitness # "none"
                              /\ stamp = NoTime \/ stamp # sup.last_sample
    BY <2>1 DEF NewSample
  <2>3. NewSample(s, obs) =>
          /\ e.evidence = IF fitness = "recovered" THEN sup.evidence + 1 ELSE 0
          /\ e.last_sample = stamp
    BY <1>2, <2>1, <2>2
  <2> HIDE DEF e, n, obs
  <2>4. BackedAfter(e.evidence, e.last_sample)
    <3>1. CASE NewSample(s, obs)
      BY <1>0, <1>3, <1>4, <1>6, <2>2, <2>3, <3>1 DEF Backed, BackedAfter
    <3>2. CASE ~NewSample(s, obs)
      BY <1>0, <1>2, <1>3, <1>4, <1>6, <3>2 DEF Backed, BackedAfter
    <3> QED
      BY <3>1, <3>2
  <2> QED
    BY <2>4 DEF e, obs
<1> QED
  BY <1>5, <1>6

\* The evidence is backed in every reachable state, and a settling that ends
\* well has enough of it.
LEMMA EvidenceStep ==
  ASSUME PolicyInv, ShellTypes, EvidenceInv, [NodeNext]_vars
  PROVE  /\ EvidenceInv'
         /\ sup.name = "settling" /\ sup'.name \in {"verifying", "standdown"} =>
              nodeHist'.good >= Needed
<1>0. /\ sup.evidence \in Nat /\ sup.last_sample \in Stamps \cup {NoTime}
      /\ stamp \in Stamps \cup {NoTime} /\ Needed \in Nat /\ NoTime \notin Stamps
      /\ nodeHist \in [overtaken: BOOLEAN, good: 0..Needed, sent: Sent]
  BY NeededType, DomainAssumption
  DEF PolicyInv, EpisodeInv, SupervisorState, ShellTypes, ShellInv
<1>1. CASE OnReinit \/ UNCHANGED vars
  BY <1>1 DEF OnReinit, vars, EvidenceInv, Backed
<1>2. CASE OnAlignmentStatus
  <2>1. FreshStamp \in Stamps /\ FreshStamp # sup.last_sample
    BY <1>0, FreshStampNew
  <2>2. PICK value \in Fitness \ {"none"} :
          /\ fitness' = value
          /\ nodeHist'.good =
               IF sup.name = "settling" /\ value = "recovered" /\ nodeHist.good < Needed
               THEN nodeHist.good + 1 ELSE nodeHist.good
    BY <1>0, <1>2 DEF OnAlignmentStatus
  <2>3. stamp' = FreshStamp /\ afterReset' = TRUE /\ sup' = sup
    BY <1>2 DEF OnAlignmentStatus
  <2>4. nodeHist.good \in 0..Needed
    BY <1>0
  <2> QED
    BY <1>0, <2>1, <2>2, <2>3, <2>4 DEF EvidenceInv, Backed
<1>3. CASE QueryEnds
  <2>1. /\ nodeHist'.good = nodeHist.good
        /\ UNCHANGED <<sup, fitness, stamp, afterReset>>
    BY <1>0, <1>3
    DEF QueryEnds, QuerySucceeds, QueryComesBackEmpty, QueryLost, Overtaken
  <2> QED
    BY <2>1 DEF EvidenceInv, Backed
<1>4. CASE NodeTick
  <2>1. PICK dt \in TickGaps, bridge \in BOOLEAN :
          LET s == Observed(sup, dt, requested)
              obs == NodeObservation(bridge)
          IN  /\ s.name = sup.name
              /\ s.evidence = sup.evidence /\ s.last_sample = sup.last_sample
              /\ Publishes(s, obs) \/ Waits(s, obs) \/ Leaves(s, obs)
              /\ s \in SupervisorState
    BY <1>4, TickDecides DEF ShellTypes
  <2> DEFINE s == Observed(sup, dt, requested)
             obs == NodeObservation(bridge)
             e == WithEvidence(s, obs)
  <2>2. sup.name = "settling" /\ decision'.action # "publish_reset" =>
          BackedAfter(e.evidence, e.last_sample)
    BY <1>4, <2>1, TickCounts
  <2>3. CASE Publishes(s, obs)
    <3>1. decision'.action = "publish_reset" /\ sup'.evidence = 0
          /\ sup'.name = "settling"
      BY <2>3 DEF Publishes
    <3>2. nodeHist'.good = 0 /\ afterReset' = FALSE
      BY <1>4, <3>1 DEF NodeTick
    <3> QED
      BY <3>1, <3>2 DEF EvidenceInv, Backed
  <2>4. CASE Waits(s, obs)
    <3>1. sup' = e /\ decision'.action = "none" /\ sup.name = "settling"
      BY <2>1, <2>4 DEF Waits
    <3>2. e.name = "settling"
      BY <2>1, <3>1 DEF WithEvidence, SupervisorState
    <3> HIDE DEF e
    <3>3. BackedAfter(sup'.evidence, sup'.last_sample)
      BY <2>2, <3>1
    <3> QED
      BY <3>1, <3>2, <3>3 DEF EvidenceInv, Backed, BackedAfter
  <2>5. CASE Leaves(s, obs)
    <3>1. decision'.action # "publish_reset" /\ sup'.name # "settling"
      BY <2>5 DEF Leaves
    <3>2. sup.name = "settling" /\ sup'.name \in {"verifying", "standdown"} =>
            e.evidence >= Needed
      BY <2>1, <2>5 DEF Leaves
    <3>3. sup.name = "settling" /\ sup'.name \in {"verifying", "standdown"} =>
            nodeHist'.good >= Needed
      <4> SUFFICES ASSUME sup.name = "settling",
                          sup'.name \in {"verifying", "standdown"}
                   PROVE  nodeHist'.good >= Needed
        OBVIOUS
      <4>1. e.evidence =< nodeHist'.good \/ nodeHist'.good >= Needed
        BY <2>2, <3>1 DEF BackedAfter
      <4>2. e.evidence \in Nat
        BY <2>1 DEF WithEvidence, SupervisorState
      <4>3. nodeHist'.good \in Nat
        BY <1>0, <1>4, <3>1 DEF NodeTick
      <4> HIDE DEF e
      <4> QED
        BY <1>0, <3>2, <4>1, <4>2, <4>3
    <3> QED
      BY <3>1, <3>3 DEF EvidenceInv
  <2> QED
    BY <2>1, <2>3, <2>4, <2>5
<1> QED
  BY <1>1, <1>2, <1>3, <1>4 DEF NodeNext

\* No recovery is taken as confirmed on samples that predate the reset or on
\* one sample seen twice, for every number of samples asked for.
THEOREM EvidenceHolds == NodeSpec => EvidenceIsFresh
<1> DEFINE Fresh == sup.name = "settling" /\ sup'.name \in {"verifying", "standdown"} =>
                      nodeHist'.good >= Needed
<1>1. NodeInit => EvidenceInv
  BY DEF NodeInit, PolicyInit, InitialState, EvidenceInv
<1>2. PolicyInv /\ ShellTypes /\ EvidenceInv /\ [NodeNext]_vars => EvidenceInv' /\ [Fresh]_vars
  BY EvidenceStep
<1> QED
  BY <1>1, <1>2, NodeInvariant, ShellTypesHold, PTL DEF NodeSpec, EvidenceIsFresh

-----------------------------------------------------------------------------
(* What is sent.                                                           *)

\* Where one list of scores clears the floor, the other does.
Covers(ours, theirs) ==
  \A i \in Nat : Publishable(ours, i) => Publishable(theirs, i)

\* The policy's copy of the ranked list says no more than the node's, until a
\* reply replaces the node's while a candidate of it settles.
ListInv ==
  /\ nodeHist.sent \in {"skipped", "below_floor"} => nodeHist.overtaken
  /\ pending # NoReply => Covers(pending, candidates)
  /\ sup.name = "settling" /\ sup.active_source = "bbs" /\ ~nodeHist.overtaken =>
       Covers(sup.scores, candidates)

\* The shadow gate lets no candidate through that was below the floor.
LEMMA GateWithholds ==
  ASSUME NEW scores \in ScoreLists, NEW gated \in Gated(scores)
  PROVE  Covers(gated, scores)
<1>1. scores \in Seq(Scores)
  BY DomainAssumption
<1>2. CASE ~EnableShadowGate
  BY <1>2 DEF Gated, Covers
<1>3. CASE EnableShadowGate
  <2> SUFFICES ASSUME NEW i \in Nat, Publishable(gated, i)
               PROVE  Publishable(scores, i)
    BY DEF Covers
  <2>1. Scores \subseteq Nat /\ MinCandidateScore \in Int
    BY <1>3, NodeAssumption, ParamsAssumption
  <2>2. /\ DOMAIN gated = DOMAIN scores /\ Len(gated) = Len(scores)
        /\ \A k \in DOMAIN scores : gated[k] = 0 \/ gated[k] = scores[k]
    BY <1>1, <1>3 DEF Gated, Withheld
  <2>3. i + 1 \in DOMAIN scores /\ i < Len(scores)
    BY <1>1, <2>2 DEF Publishable
  <2>4. scores[i + 1] \in Nat
    <3>1. scores[i + 1] \in Scores
      BY <1>1, <2>3
    <3> QED
      BY <2>1, <3>1
  <2> QED
    BY <2>1, <2>2, <2>3, <2>4 DEF Publishable
<1> QED
  BY <1>2, <1>3

\* A tick keeps the lists in step, and what it publishes is sent.
LEMMA TickSends ==
  ASSUME PolicyInv, ShellTypes, ListInv, NodeTick
  PROVE  ListInv'
<1>1. PICK dt \in TickGaps, bridge \in BOOLEAN :
        LET s == Observed(sup, dt, requested)
            obs == NodeObservation(bridge)
        IN  /\ s.name = sup.name /\ s.scores = sup.scores
            /\ s.active_source = sup.active_source
            /\ Publishes(s, obs) \/ Waits(s, obs) \/ Leaves(s, obs)
            /\ s \in SupervisorState /\ obs \in Observation
  BY TickDecides DEF ShellTypes
<1> DEFINE s == Observed(sup, dt, requested)
           obs == NodeObservation(bridge)
<1>2. obs.reply = pending
  BY DEF NodeObservation
<1>3. candidates' = candidates /\ pending' = NoReply
  BY DEF NodeTick
<1>4. /\ nodeHist'.overtaken =
            (nodeHist.overtaken
             /\ ~(decision'.action = "publish_reset" /\ decision'.index = 0))
      /\ nodeHist'.sent =
            IF decision'.action = "publish_reset" THEN SentPose ELSE nodeHist.sent
  BY DEF NodeTick
<1>5. PolicyInv'
  BY NodeStep, NextInv DEF ShellTypes, NodeNext
<1>6. CASE Publishes(s, obs)
  <2>1. /\ decision'.action = "publish_reset" /\ sup'.name = "settling"
        /\ sup'.active_source = decision'.source
    BY <1>6 DEF Publishes
  <2>2. sup'.index \in Nat /\ decision'.index \in Nat /\ decision'.source \in Sources
    BY <1>5 DEF PolicyInv, PolicyTypeOK, SupervisorState, Decisions
  <2>3. CASE decision'.source = "bbs"
    <3>1. ~nodeHist'.overtaken =>
            Covers(sup'.scores, candidates) /\ Publishable(sup'.scores, decision'.index)
      <4>1. CASE PublishesTop(s, obs)
        BY <1>2, <2>2, <4>1 DEF PublishesTop, ListInv
      <4>2. CASE PublishesNext(s)
        <5>1. decision'.index # 0
          BY <1>1, <4>2 DEF PublishesNext, SupervisorState
        <5> QED
          BY <1>1, <1>4, <4>2, <5>1 DEF PublishesNext, ListInv
      <4> QED
        BY <1>6, <2>3, <4>1, <4>2 DEF Publishes
    <3>2. ~nodeHist'.overtaken => SentPose = "above_floor"
      BY <2>2, <2>3, <3>1 DEF SentPose, Publishable, Covers
    <3> QED
      BY <1>3, <1>4, <2>1, <3>1, <3>2 DEF ListInv
  <2>4. CASE decision'.source # "bbs"
    <3>1. decision'.source = "odom_bridge"
      BY <2>2, <2>4 DEF Sources
    <3>2. SentPose = "bridge"
      BY <3>1 DEF SentPose
    <3> QED
      BY <1>3, <1>4, <2>1, <3>1, <3>2 DEF ListInv
  <2> QED
    BY <2>3, <2>4
<1>7. CASE Waits(s, obs)
  <2>1. /\ sup' = WithEvidence(s, obs) /\ decision'.action = "none"
        /\ sup.name = "settling"
    BY <1>1, <1>7 DEF Waits
  <2>2. /\ sup'.name = "settling" /\ sup'.scores = sup.scores
        /\ sup'.active_source = sup.active_source
    <3> HIDE DEF s, obs
    <3> QED
      BY <1>1, <2>1, EvidenceKeeps DEF Kept, s, obs
  <2> QED
    BY <1>3, <1>4, <2>1, <2>2 DEF ListInv
<1>8. CASE Leaves(s, obs)
  <2>1. decision'.action # "publish_reset" /\ sup'.name # "settling"
    BY <1>8 DEF Leaves
  <2> QED
    BY <1>3, <1>4, <2>1 DEF ListInv
<1> QED
  BY <1>1, <1>6, <1>7, <1>8

\* A reply puts the lists in step, or is noted as having overtaken one.
LEMMA ListStep ==
  ASSUME PolicyInv, ShellTypes, ListInv, [NodeNext]_vars
  PROVE  ListInv'
<1>0. nodeHist = [overtaken |-> nodeHist.overtaken, good |-> nodeHist.good,
                  sent |-> nodeHist.sent]
  BY DEF ShellTypes
<1>1. CASE OnReinit \/ UNCHANGED vars \/ QueryLost
  BY <1>1 DEF OnReinit, QueryLost, vars, ListInv
<1>2. CASE OnAlignmentStatus
  <2>1. nodeHist'.sent = nodeHist.sent /\ nodeHist'.overtaken = nodeHist.overtaken
    BY <1>0, <1>2 DEF OnAlignmentStatus
  <2> QED
    BY <1>2, <2>1 DEF OnAlignmentStatus, ListInv
<1>3. CASE QuerySucceeds \/ QueryComesBackEmpty
  <2>1. /\ nodeHist'.sent = nodeHist.sent /\ sup' = sup
        /\ nodeHist'.overtaken = (nodeHist.overtaken \/ sup.name = "settling")
    BY <1>0, <1>3 DEF QuerySucceeds, QueryComesBackEmpty, Overtaken
  <2>2. Covers(pending', candidates')
    <3>1. CASE QuerySucceeds
      BY <3>1, GateWithholds DEF QuerySucceeds
    <3>2. CASE QueryComesBackEmpty
      BY <3>2 DEF QueryComesBackEmpty, Covers
    <3> QED
      BY <1>3, <3>1, <3>2
  <2> QED
    BY <2>1, <2>2 DEF ListInv
<1>4. CASE NodeTick
  BY <1>4, TickSends
<1> QED
  BY <1>1, <1>2, <1>3, <1>4 DEF NodeNext, QueryEnds

\* Whatever the options, the gate and the service do: a reset is sent with a
\* candidate that clears the floor, unless it walks down a list that a reply has
\* replaced since.
THEOREM ResetsAreSent == NodeSpec => []EveryResetIsSent
<1>1. NodeInit => ListInv
  BY DEF NodeInit, PolicyInit, InitialState, ListInv
<1>2. PolicyInv /\ ShellTypes /\ ListInv /\ [NodeNext]_vars => ListInv'
  BY ListStep
<1>3. ListInv => EveryResetIsSent
  BY DEF ListInv, EveryResetIsSent
<1> QED
  BY <1>1, <1>2, <1>3, NodeInvariant, ShellTypesHold, PTL DEF NodeSpec
=============================================================================
