--------------------------- MODULE SupervisorNode ---------------------------
(***************************************************************************)
(* The I/O shell around the policy: ReinitializationSupervisorNode of      *)
(* scripts/reinitialization_supervisor_node.py, together with the service, *)
(* the request line and the status topic it talks to.                      *)
(*                                                                         *)
(* rclpy.spin runs the node on one thread, so each callback is one atomic  *)
(* action: OnReinit, OnAlignmentStatus, the three outcomes of a query, and *)
(* the timer callback NodeTick, which feeds the policy and carries out its *)
(* decision.  The query service answers in order, whenever it likes, or    *)
(* never; the node neither cancels a query nor tells two replies apart.    *)
(***************************************************************************)
EXTENDS SupervisorPolicy

CONSTANTS
  EnableShadowGate,           \* enable_bbs_shadow_motion_gate
  RequestClearConfirms,       \* request_clear_confirms_recovery
  LateReplies,                \* can a reply outlive the wait for it?
  MaxInFlight                 \* bound: outstanding queries; older ones are lost


VARIABLES
  requested,   \* _requested
  fitness,     \* _fitness with _stable_tracking, judged against the threshold
  stamp,       \* _fitness_observed_sec, as the identity of the sample
  afterReset,  \* _fitness_observed_sec > state.last_reset_sec
  candidates,  \* _candidates: the scores of the list poses are published from
  pending,     \* _pending_reply
  retryable,   \* _pending_reply_retryable
  mismatch,    \* _pending_cross_check_mismatch
  inflight,    \* the number of outstanding queries, waited for or not
  nodeHist     \* history: a reply came while the list of another settled;
               \* samples received since the last publication; what the last
               \* publication sent

nodeVars == <<requested, fitness, stamp, afterReset, candidates, pending,
              retryable, mismatch, inflight, nodeHist>>
vars == <<sup, decision, hist, requested, fitness, stamp, afterReset,
          candidates, pending, retryable, mismatch, inflight, nodeHist>>

Sent == {"nothing", "bridge", "above_floor", "below_floor", "skipped"}
Waiting == {"await_candidates", "verifying"}

NodeInit ==
  /\ PolicyInit
  /\ requested = FALSE
  /\ fitness = "none" /\ stamp = NoTime /\ afterReset = FALSE
  /\ candidates = <<>>
  /\ pending = NoReply /\ retryable = FALSE /\ mismatch = "none"
  /\ inflight = 0
  /\ nodeHist = [overtaken |-> FALSE, good |-> 0, sent |-> "nothing"]

-----------------------------------------------------------------------------
(* Subscriptions.                                                          *)

\* _on_reinit (the reset of the shadow gate is in ShadowMotionGate)
OnReinit ==
  /\ \E value \in BOOLEAN : requested' = value
  /\ UNCHANGED <<sup, decision, hist, fitness, stamp, afterReset, candidates,
                 pending, retryable, mismatch, inflight, nodeHist>>

\* A sample's identity differs from the one it replaces and from the one
\* counted last.
FreshStamp == CHOOSE new \in Stamps : new \notin {stamp, sup.last_sample}

\* _on_alignment_status
OnAlignmentStatus ==
  /\ \E value \in Fitness \ {"none"} :
       /\ fitness' = value
       /\ nodeHist' = [nodeHist EXCEPT
            !.good = IF sup.name = "settling" /\ value = "recovered" /\ @ < Needed
                     THEN @ + 1 ELSE @]
  /\ stamp' = FreshStamp
  /\ afterReset' = TRUE
  /\ UNCHANGED <<sup, decision, hist, requested, candidates, pending,
                 retryable, mismatch, inflight>>

-----------------------------------------------------------------------------
(* The query service.                                                      *)

\* Scores the shadow gate withholds become 0.
Withheld(scores) == [i \in DOMAIN scores |-> 0]

\* _apply_bbs_shadow_motion_gate: nothing, or only rank 1, passes.
Gated(scores) ==
  IF ~EnableShadowGate THEN {scores}
  ELSE {Withheld(scores)} \cup
       (IF Publishable(scores, 0)
        THEN {[Withheld(scores) EXCEPT ![1] = scores[1]]} ELSE {})

\* _cross_check_mismatch_m, evaluated on the raw top candidate
CrossCheck(scores) ==
  IF sup.name # "verifying" THEN {mismatch}
  ELSE IF Publishable(scores, 0) THEN {"agree", "differ"} ELSE {"differ"}

\* A reply replaces the list poses are published from, also while the policy
\* settles on a candidate of the list before it.
Overtaken == [nodeHist EXCEPT !.overtaken = @ \/ sup.name = "settling"]

\* _on_query_response with success: G2 reports success iff it has candidates.
QuerySucceeds ==
  /\ inflight > 0 /\ inflight' = inflight - 1
  /\ \E scores \in ScoreLists \ {<<>>} :
       /\ candidates' = scores
       /\ pending' \in Gated(scores)
       /\ mismatch' \in CrossCheck(scores)
  /\ retryable' = FALSE
  /\ nodeHist' = Overtaken
  /\ UNCHANGED <<sup, decision, hist, requested, fitness, stamp, afterReset>>

\* Mutant: the reply before it, not read yet, is kept.
QueryComesBackIgnored ==
  /\ inflight > 0 /\ inflight' = inflight - 1
  /\ candidates' = <<>>
  /\ nodeHist' = Overtaken
  /\ UNCHANGED <<sup, decision, hist, requested, fitness, stamp, afterReset,
                 pending, retryable, mismatch>>

\* _on_query_response without success or unparseable:
\* _reset_failed_query_state(retryable)
QueryComesBackEmpty ==
  /\ inflight > 0 /\ inflight' = inflight - 1
  /\ candidates' = <<>> /\ pending' = <<>>
  /\ retryable' \in BOOLEAN
  /\ nodeHist' = Overtaken
  /\ UNCHANGED <<sup, decision, hist, requested, fitness, stamp, afterReset,
                 mismatch>>

\* The call raises, or its reply is lost.
QueryLost ==
  /\ inflight > 0 /\ inflight' = inflight - 1
  /\ UNCHANGED <<sup, decision, hist, requested, fitness, stamp, afterReset,
                 candidates, pending, retryable, mismatch, nodeHist>>

\* A failed reply is the empty list, the gate yields replies and withholds with
\* the lowest score, and there are enough sample identities to tell a new one from the two in use.
ASSUME NodeAssumption ==
  /\ EnableShadowGate \in BOOLEAN
  /\ RequestClearConfirms \in BOOLEAN
  /\ LateReplies \in BOOLEAN
  /\ MaxInFlight \in Nat \ {0}
  /\ <<>> \in ScoreLists
  /\ EnableShadowGate => Scores \subseteq Nat
  /\ EnableShadowGate => \A scores \in ScoreLists : Gated(scores) \subseteq ScoreLists
  /\ \A a, b \in Stamps \cup {NoTime} : \E new \in Stamps : new \notin {a, b}

-----------------------------------------------------------------------------
(* The timer callback.                                                     *)

\* Reads a cleared request as recovery evidence while a reset settles.
ClearIsEvidence ==
  RequestClearConfirms /\ sup.name = "settling" /\ ~requested

\* Mutant: samples older than the reset are not masked.
NodeObservationUnmasked(bridge) ==
  [requested |-> requested, reply |-> pending, retryable |-> retryable,
   fitness |-> IF ClearIsEvidence THEN "recovered" ELSE fitness,
   stamp |-> IF ClearIsEvidence THEN FreshStamp ELSE stamp,
   mismatch |-> mismatch, bridge |-> bridge]

\* The observation _tick builds; a sample older than the reset is masked.
NodeObservation(bridge) ==
  [requested |-> requested, reply |-> pending, retryable |-> retryable,
   fitness |-> IF ClearIsEvidence THEN "recovered"
               ELSE IF sup.name = "settling" /\ ~afterReset THEN "none"
               ELSE fitness,
   stamp |-> IF ClearIsEvidence THEN FreshStamp ELSE stamp,
   mismatch |-> mismatch, bridge |-> bridge]

\* _publish_reset and _publish_odom_bridge_reset: the pose comes from the
\* list the node holds now, at the index the policy asked for.
SentPose ==
  IF decision'.source = "odom_bridge" THEN "bridge"
  ELSE IF decision'.index >= Len(candidates) THEN "skipped"
  ELSE IF Publishable(candidates, decision'.index) THEN "above_floor"
  ELSE "below_floor"

\* A query that is not waited for any more stays out if its reply may be late.
Abandoned == IF LateReplies THEN inflight ELSE 0

\* The model's bound on outstanding queries.
Capped(queries) == IF queries > MaxInFlight THEN MaxInFlight ELSE queries

\* _issue_query: nothing is sent while the service is not ready.
InFlightAfterTick ==
  CASE decision'.action = "query" -> {Abandoned, Capped(Abandoned + 1)}
    [] decision'.action # "query" /\ sup'.name \in Waiting -> {inflight}
    [] OTHER -> {Abandoned}

NodeTick ==
  /\ \E dt \in TickGaps, bridge \in (IF UseOdomBridge THEN BOOLEAN ELSE {FALSE}) :
       Tick(dt, NodeObservation(bridge))
  /\ pending' = NoReply
  /\ retryable' = FALSE
  /\ mismatch' = IF pending = NoReply THEN mismatch ELSE "none"
  /\ stamp' = IF ClearIsEvidence THEN FreshStamp ELSE stamp
  /\ afterReset' =
       (decision'.action # "publish_reset" /\ (ClearIsEvidence \/ afterReset))
  /\ inflight' \in InFlightAfterTick
  /\ nodeHist' =
       [overtaken |->
          nodeHist.overtaken
          /\ ~(decision'.action = "publish_reset" /\ decision'.index = 0),
        good |-> IF decision'.action = "publish_reset" THEN 0
                 ELSE IF ClearIsEvidence /\ nodeHist.good < Needed
                 THEN nodeHist.good + 1 ELSE nodeHist.good,
        sent |-> IF decision'.action = "publish_reset" THEN SentPose
                 ELSE nodeHist.sent]
  /\ UNCHANGED <<requested, fitness, candidates>>

-----------------------------------------------------------------------------

QueryEnds == QuerySucceeds \/ QueryComesBackEmpty \/ QueryLost

NodeNext == OnReinit \/ OnAlignmentStatus \/ QueryEnds \/ NodeTick

NodeSpec == NodeInit /\ [][NodeNext]_vars

\* The wall timer fires for ever, whatever the topics and the service do.
FairNodeSpec == NodeSpec /\ WF_vars(NodeTick)

-----------------------------------------------------------------------------
(* Properties.                                                             *)

\* Types of the shell's state, and what _tick hands to the policy.
NodeTypeOK ==
  /\ PolicyTypeOK
  /\ requested \in BOOLEAN /\ afterReset \in BOOLEAN /\ retryable \in BOOLEAN
  /\ fitness \in Fitness /\ stamp \in Stamps \cup {NoTime}
  /\ candidates \in Seq(Scores) /\ pending \in Seq(Scores) \cup {NoReply}
  /\ mismatch \in Mismatch
  /\ inflight \in 0..MaxInFlight
  /\ nodeHist \in [overtaken: BOOLEAN, good: 0..Needed, sent: Sent]

\* A recovery is never taken as confirmed on samples that predate the reset,
\* or on one sample seen by several ticks: leaving the settling for a
\* cross-check or for standdown takes Needed good samples received since the
\* reset went out.
EvidenceIsFresh ==
  [][sup.name = "settling" /\ sup'.name \in {"verifying", "standdown"} =>
       nodeHist'.good >= Needed]_vars

\* The policy walks its own copy of the scores, the node publishes from its
\* own copy of the candidates.  A reset is sent with a pose whose score clears
\* the floor, unless it walks down a list that a reply nobody waited for has
\* replaced in the node; the first candidate of a reply is never sent wrong.
EveryResetIsSent ==
  nodeHist.sent \in {"skipped", "below_floor"} => nodeHist.overtaken

\* "Candidates scoring below this are never published.": the comment on
\* min_candidate_score.
WeakIsNeverPublished == nodeHist.sent # "below_floor"

\* A request that stays asserted is settled one way or the other, whatever
\* the service does, unless it keeps reporting that it has no scan yet or the
\* odometry bridge, whose resets cost no attempt, keeps being tried.
StandingRequestSettles ==
  /\ <>[]requested
  /\ <>[](decision.reason \notin {"scan_not_ready", "odom_bridge_reset_published"})
  => <>[](sup.name \in {"standdown", "exhausted"})

=============================================================================
