----------------------------- MODULE SeedMotion -----------------------------
(***************************************************************************)
(* Where a relocalization seed is published.  A global query takes long,   *)
(* and its candidate is a fix of the scan the service held when the query  *)
(* started; the supervisor node pushes the candidate forward by a velocity *)
(* it has estimated.  Modelled: the motion bookkeeping of                  *)
(* reinitialization_supervisor_node.py with the estimators of              *)
(* reinitialization_supervisor_policy.py, and the service that answers     *)
(* (global_localization_node.py, global_localization_query.py,             *)
(* g2_candidate_registration_rank_policy.py).  When the supervisor queries *)
(* and publishes is the subject of SupervisorNode; here it may at any time *)
(* of an episode.                                                          *)
(*                                                                         *)
(* The vehicle drives along a line: at time t it is at Speed * t.  Times   *)
(* are whole seconds of one clock.  A velocity is the fraction num / den   *)
(* (den = 0: invalid), and so is the distance a seed is moved by.          *)
(***************************************************************************)
EXTENDS Integers, Sequences, SequencesExt

CONSTANTS
  None,            \* no value yet
  Speed,           \* of the vehicle
  Hits,            \* what a search can find, best BBS score first: how far from
                   \* the vehicle (0: a right fix), BBS score, NDT fitness
  Diverged,        \* fitness of a registration that did not converge
  PoseErrors,      \* how far from the vehicle a pose can be when it is heard:
                   \* lost, or late
  ScanAges,        \* how old the service's latest cloud can be
  ScoreGate,       \* registration_score_gate, also the scale of a score
  Scoring,         \* enable_registration_scoring
  WallFallback,    \* seed_motion_wall_fallback
  SkipFitness,     \* seed_motion_skip_registration_fitness_threshold
  MaxSpeed, MaxLatency, VelocityMaxAge,      \* max_seed_speed_mps and so on
  MinFixDt, MaxFixDt,                        \* of estimate_sim_fix_velocity
  Horizon, MaxInFlight     \* bounds: seconds, unanswered queries

ASSUME SeedAssumption ==
  /\ Speed \in Int /\ PoseErrors \subseteq Int /\ ScanAges \subseteq Nat /\ None \notin Int
  /\ Hits \subseteq Seq([offset: Int, bbs: Nat, fitness: Nat \cup {Diverged}]) \ {<<>>}
  /\ \A hits \in Hits : \A i, j \in DOMAIN hits : i < j => hits[i].bbs >= hits[j].bbs
  /\ {Scoring, WallFallback} \subseteq BOOLEAN
  /\ {MaxSpeed, MaxLatency, VelocityMaxAge, SkipFitness, Horizon, MaxInFlight} \subseteq Nat
  /\ {ScoreGate, MinFixDt, MaxFixDt} \subseteq Nat \ {0}

VARIABLES
  now,        \* monotonic time, and the stamps of messages
  episode,    \* state.name is neither idle nor standdown
  lastSim,    \* _last_sim_stamp_sec
  stable,     \* _stable_tracking, of the last status heard
  tracker,    \* _seed_velocity_tracker: the held pose, the velocity, its time
  inflight,   \* unanswered queries, oldest first; the scan is None until started
  issue,      \* _query_issue_time, _query_issue_velocity
  query,      \* the _current_query_* fields and _candidates
  simFix,     \* _prev_sim_fix, _sim_fix_velocity
  prevFix,    \* _prev_fix
  seed,       \* what this step published
  honest,     \* history: every fix, and every pose the tracker trusted, was
              \* where the vehicle was
  doubt       \* history: since: a pose was not trusted since the held one;
              \* inside: a velocity was measured across such a pose

vars == <<now, episode, lastSim, stable, tracker, inflight, issue,
          query, simFix, prevFix, seed, honest, doubt>>

Dist(a, b) == IF a > b THEN a - b ELSE b - a
Lesser(a, b) == IF a < b THEN a ELSE b
Greater(a, b) == IF a > b THEN a ELSE b
At(x, t) == [x |-> x, at |-> t]
Here == Speed * now
----------------------------------------------------------------------------
(* The estimators of the policy module.                                    *)

NoVelocity == [num |-> 0, den |-> 0]
Valid(velocity) == velocity.den > 0
Travel(velocity, t) == [num |-> velocity.num * t, den |-> velocity.den]
Nowhere == [num |-> 0, den |-> 1]

\* estimate_seed_velocity
SeedVelocity(p, q, minDt) ==
  IF q.at - p.at < minDt \/ Dist(q.x, p.x) > MaxSpeed * (q.at - p.at)
  THEN NoVelocity
  ELSE [num |-> q.x - p.x, den |-> q.at - p.at]

\* estimate_sim_fix_velocity
SimFixVelocity(p, q) ==
  IF q.at - p.at > MaxFixDt THEN NoVelocity ELSE SeedVelocity(p, q, MinFixDt)

\* TrustedSeedVelocityTracker.observe
Trust(velocity, p) ==
  [held |-> p,
   velocity |-> IF Valid(velocity) THEN velocity ELSE tracker.velocity,
   at |-> IF Valid(velocity) THEN p.at ELSE tracker.at]

ObserveTrusted(p) ==
  CASE tracker.held = None -> Trust(NoVelocity, p)
    [] tracker.held # None /\ p.at - tracker.held.at < 1 -> tracker
    [] OTHER -> Trust(SeedVelocity(tracker.held, p, 1), p)

\* Mutant: an untrusted pose is skipped, and the held one pairs across it.
ObserveAcross(p, trusted) == IF trusted THEN ObserveTrusted(p) ELSE tracker

Observe(p, trusted) ==
  IF trusted THEN ObserveTrusted(p) ELSE [tracker EXCEPT !.held = None]

\* velocity_at
VelocityAt(t) ==
  IF Valid(tracker.velocity) /\ t - tracker.at =< VelocityMaxAge
  THEN tracker.velocity ELSE NoVelocity

\* estimate_pose_delta_from_sim_fix
SimFixTravel(velocity, at) ==
  IF lastSim =< at THEN None ELSE Travel(velocity, Lesser(lastSim - at, MaxLatency))

\* _estimate_pose_delta_sim_fix
SimFixDelta ==
  IF ~Valid(simFix.velocity) \/ lastSim = None THEN None
  ELSE SimFixTravel(simFix.velocity, simFix.fix.at)

\* forward_compensate_xy
Forward(velocity, latency) ==
  IF ~Valid(velocity) \/ latency =< 0 THEN Nowhere
  ELSE Travel(velocity, Lesser(latency, MaxLatency))
----------------------------------------------------------------------------
(* The global localization service: one query at a time, on one thread.    *)

\* registration_fitness_to_supervisor_score, times the gate.
ScoreOf(c) ==
  IF ~Scoring THEN c.bbs
  ELSE IF c.fitness = Diverged THEN 0 ELSE Greater(0, ScoreGate - c.fitness)

\* _fitness_sort_key, then the BBS score
Before(c, d) ==
  \/ c.fitness # Diverged /\ (d.fitness = Diverged \/ c.fitness < d.fitness)
  \/ c.fitness = d.fitness /\ c.bbs > d.bbs

\* apply_registration_ranking: a stable sort.
ByRegistration(list) ==
  LET precedes(i, j) == \/ Before(list[i], list[j])
                        \/ ~Before(list[j], list[i]) /\ i < j
  IN {[i \in DOMAIN list |-> list[order[i]]] :
        order \in {o \in [DOMAIN list -> DOMAIN list] :
                    \A i, j \in DOMAIN list : i < j => precedes(o[i], o[j])}}

\* _score_with_registration (without registration_refine_candidates), or the
\* order of the search.
Ranked(list) == IF Scoring THEN ByRegistration(list) ELSE {list}

\* handle_query: the age of a candidate is that of its scan, at the reply.
Answer(work, list) ==
  [list |-> list, stamp |-> work.scan, age |-> work.age + (now - work.start)]

\* A search of the scan finds one of Hits.
Found(scan) ==
  {[i \in DOMAIN hits |-> [x |-> Speed * scan + hits[i].offset,
                           bbs |-> hits[i].bbs, fitness |-> hits[i].fitness]] :
    hits \in Hits}
----------------------------------------------------------------------------
NoIssue == [at |-> None, velocity |-> NoVelocity]
NoQuery == [list |-> <<>>, unread |-> FALSE, issued |-> None, age |-> None,
            at |-> None, velocity |-> NoVelocity, delta |-> None]
NoSeed == [via |-> "none"]

Init ==
  /\ now = 0 /\ episode = FALSE /\ lastSim = None /\ stable = FALSE
  /\ tracker = [held |-> None, velocity |-> NoVelocity, at |-> None]
  /\ inflight = <<>> /\ issue = NoIssue /\ query = NoQuery
  /\ simFix = [fix |-> None, velocity |-> NoVelocity] /\ prevFix = None
  /\ seed = NoSeed /\ honest = TRUE /\ doubt = "none"

\* Time passes; nobody is called.
Wait ==
  /\ now < Horizon /\ now' = now + 1 /\ seed' = NoSeed
  /\ UNCHANGED <<episode, lastSim, stable, tracker, inflight, issue,
                 query, simFix, prevFix, honest, doubt>>

\* _on_alignment_status: the clock it carries, and whether tracking is stable.
OnAlignmentStatus ==
  /\ stable' \in BOOLEAN
  /\ lastSim' = now /\ seed' = NoSeed
  /\ UNCHANGED <<now, episode, tracker, inflight, issue, query, simFix,
                 prevFix, honest, doubt>>

\* What a pose leaves of the doubts about the ones before it.
DoubtAfter(trusted) ==
  CASE doubt = "inside" -> "inside"
    [] doubt # "inside" /\ ~trusted -> "since"
    [] doubt # "inside" /\ trusted ->
         IF tracker'.at # tracker.at /\ doubt = "since" THEN "inside"
         ELSE IF tracker'.held # tracker.held THEN "none" ELSE doubt

\* _on_pose: /pose and the status are topics of their own, so the pose is
\* judged by the last status heard, whichever scan that was of.
OnPose ==
  LET trusted == stable /\ ~episode   \* _pose_velocity_trusted
  IN \E error \in PoseErrors :
       /\ tracker' = Observe(At(Here + error, now), trusted)
       /\ honest' = (honest /\ (trusted => error = 0))
       /\ doubt' = DoubtAfter(trusted)
       /\ lastSim' = now /\ seed' = NoSeed
       /\ UNCHANGED <<now, episode, stable, inflight, issue, query, simFix, prevFix>>

\* The policy leaves idle.
EpisodeBegins ==
  /\ ~episode /\ episode' = TRUE /\ seed' = NoSeed
  /\ UNCHANGED <<now, lastSim, stable, tracker, inflight, issue,
                 query, simFix, prevFix, honest, doubt>>

\* A decision that ends the episode: _clear_wall_seed_motion_history.  The
\* list stays in the node, but is not read again before the next reply.
EpisodeEnds ==
  /\ episode /\ episode' = FALSE /\ seed' = NoSeed
  /\ prevFix' = None
  /\ query' = NoQuery
  /\ UNCHANGED <<now, lastSim, stable, tracker, inflight, issue,
                 simFix, honest, doubt>>

\* _issue_query.  The pose of the issue is not kept: an episode is running,
\* so neither end of a pose delta is trusted.
IssueQuery ==
  /\ episode /\ Len(inflight) < MaxInFlight /\ seed' = NoSeed
  /\ inflight' = Append(inflight, [scan |-> None, age |-> 0, start |-> now])
  /\ issue' = [at |-> now, velocity |-> VelocityAt(now)]
  /\ UNCHANGED <<now, episode, lastSim, stable, tracker, query,
                 simFix, prevFix, honest, doubt>>

\* The service takes up the oldest query, on the latest cloud it has received.
QueryStarts ==
  /\ inflight # <<>> /\ Head(inflight).scan = None
  /\ \E age \in ScanAges :
       /\ age =< now
       /\ inflight' = <<[scan |-> now - age, age |-> age, start |-> now]>>
                        \o Tail(inflight)
  /\ seed' = NoSeed
  /\ UNCHANGED <<now, episode, lastSim, stable, tracker, issue, query,
                 simFix, prevFix, honest, doubt>>

\* _update_sim_fix_velocity_from_query
SimFixWith(fix) ==
  [fix |-> fix,
   velocity |-> IF simFix.fix = None THEN NoVelocity ELSE SimFixVelocity(simFix.fix, fix)]

\* _on_query_response with candidates; a search takes time.
QueryAnswered ==
  /\ inflight # <<>> /\ Head(inflight).scan # None /\ Head(inflight).start < now
  /\ \E found \in Found(Head(inflight).scan) : \E list \in Ranked(found) :
       LET reply == Answer(Head(inflight), list)
           top == reply.list[1]
       IN /\ query' = [query EXCEPT !.list = reply.list, !.unread = TRUE,
                         !.issued = issue.at, !.age = reply.age,
                         !.at = now, !.velocity = NoVelocity]
          /\ simFix' = SimFixWith(At(top.x, reply.stamp))
          /\ honest' = (honest /\ top.x = Speed * reply.stamp)
  /\ inflight' = Tail(inflight) /\ seed' = NoSeed
  /\ UNCHANGED <<now, episode, lastSim, stable, tracker, issue, prevFix, doubt>>

\* _on_query_response without: no scan yet, or nothing found in it.
QueryFails ==
  /\ inflight # <<>>
  /\ inflight' = Tail(inflight) /\ seed' = NoSeed
  /\ query' = [query EXCEPT !.list = <<>>, !.unread = TRUE, !.age = None,
                 !.at = None]
  /\ simFix' = [simFix EXCEPT !.velocity = NoVelocity]
  /\ UNCHANGED <<now, episode, lastSim, stable, tracker, issue,
                 prevFix, honest, doubt>>
----------------------------------------------------------------------------
(* _publish_reset                                                          *)

\* Mutant: the age is added to the whole wait since the query.
LatencySinceIssue == IF query.age # None THEN query.age + (now - issue.at) ELSE now - issue.at

\* _seed_latency_sec
Latency == IF query.age # None THEN query.age + (now - query.at) ELSE now - issue.at

\* _current_query_fix_time
FixTime == IF query.age # None THEN query.at - query.age ELSE issue.at

\* _estimate_pose_delta_since_query_issue, in an episode
QueryDelta ==
  IF Valid(issue.velocity) /\ Latency > 0 /\ Latency =< MaxLatency
  THEN Travel(issue.velocity, Latency) ELSE None

Moved(by, via, q, fix) == [by |-> by, via |-> via, query |-> q, prevFix |-> fix]

\* The fields are those of another query than the last one issued.
Current ==
  IF query.issued = issue.at THEN query
  ELSE [query EXCEPT !.velocity = NoVelocity, !.delta = None, !.issued = issue.at]

\* A kept delta goes before a velocity; without either the candidate stays.
Apply(q, fix, via) ==
  CASE q.delta # None -> Moved(q.delta, via, q, fix)
    [] q.delta = None /\ Valid(q.velocity) ->
         Moved(Forward(q.velocity, Latency), "velocity", q, fix)
    [] OTHER -> Moved(Nowhere, "raw", q, fix)

\* The first candidate of a query: the fix the next query is compared with.
WallFirst(x) ==
  LET fix == At(x, FixTime) IN
  IF prevFix = None
  THEN Apply([Current EXCEPT !.velocity = NoVelocity,
                !.delta = IF QueryDelta # None THEN QueryDelta ELSE @],
             fix, IF QueryDelta # None THEN "delta" ELSE "kept")
  ELSE Apply([Current EXCEPT !.velocity = SeedVelocity(prevFix, fix, 1)], fix, "kept")

\* _compensate_seed, for candidate i (from 1) of the list
Compensate(i) ==
  LET c == query.list[i] IN
  CASE SimFixDelta # None -> Moved(SimFixDelta, "sim", query, prevFix)
    [] SimFixDelta = None /\ Scoring /\ c.fitness # Diverged /\ c.fitness =< SkipFitness ->
         Moved(Nowhere, "registered", query, prevFix)
    [] SimFixDelta = None /\ ~(Scoring /\ c.fitness # Diverged /\ c.fitness =< SkipFitness) ->
         IF ~WallFallback THEN Moved(Nowhere, "raw", query, prevFix)
         ELSE IF i = 1 THEN WallFirst(c.x) ELSE Apply(Current, prevFix, "kept")

\* ACTION_PUBLISH_RESET: the first candidate of a reply the policy has not
\* read yet, or a later one on its walk.
Publish ==
  /\ episode
  /\ \E i \in DOMAIN query.list :
       /\ i = 1 => query.unread
       /\ LET move == Compensate(i) IN
          /\ seed' = [via |-> move.via, first |-> i = 1, raw |-> query.list[i].x,
                      by |-> move.by,
                      implausible |->
                        /\ i = 1 /\ prevFix # None /\ move.via # "sim"
                        /\ ~Valid(SeedVelocity(prevFix, At(query.list[i].x, FixTime), 1))]
          /\ query' = [move.query EXCEPT !.unread = FALSE]
          /\ prevFix' = move.prevFix
  /\ UNCHANGED <<now, episode, lastSim, stable, tracker, inflight,
                 issue, simFix, honest, doubt>>

Next ==
  \/ Wait \/ OnAlignmentStatus \/ OnPose
  \/ EpisodeBegins \/ EpisodeEnds
  \/ IssueQuery \/ QueryStarts \/ QueryAnswered \/ QueryFails
  \/ Publish

Spec == Init /\ [][Next]_vars
----------------------------------------------------------------------------
\* No seed is published further from its candidate than the fastest vehicle
\* drives in the longest latency, whichever estimate moved it and however old
\* the fix is (the clamps of forward_compensate_xy and of
\* estimate_pose_delta_from_sim_fix, the checks of the pose delta).
SeedIsBounded ==
  seed.via # "none" =>
    Dist(seed.by.num, 0) =< MaxSpeed * MaxLatency * seed.by.den

\* As long as every fix and every trusted pose was right, a seed moved by an estimate made for this
\* query lies between its candidate and the vehicle, which drives on meanwhile:
\* the estimate never overshoots, also when the reply is late and belongs to an
\* older query than the last one issued.  A delta kept from another query is
\* excluded: see ImplausibleLeavesRaw.
FixCatchesUp ==
  (honest /\ seed.via \in {"sim", "velocity", "delta"} /\ seed.first) =>
    Dist(seed.by.num, 0) + Dist(seed.raw * seed.by.den + seed.by.num, Here * seed.by.den)
      = Dist(seed.raw, Here) * seed.by.den

\* "Pair history is cleared across untrusted gaps so a later trusted pose never
\* pairs with one from before the gap" (TrustedSeedVelocityTracker).
PairsAreUnbroken == doubt # "inside"

\* The velocity a first query is compensated with is the vehicle's own, as long
\* as no pose was off the vehicle while the last status heard called tracking
\* stable; the status of another scan can vouch for such a pose.
VelocityIsTheVehicles ==
  honest /\ Valid(tracker.velocity) =>
    tracker.velocity.num = Speed * tracker.velocity.den

\* The list is ranked by the score the supervisor reads, best first: it looks
\* at the first score only before it publishes, and walks down the list.
ReplyIsRanked ==
  \A i, j \in DOMAIN query.list : i < j => ScoreOf(query.list[i]) >= ScoreOf(query.list[j])

\* What the compensation starts from and what it may do: a ranked list, a
\* velocity measured on an unbroken pair of trusted poses, and a move that is
\* bounded whatever that velocity is.
SeedMotionIsSound ==
  SeedIsBounded /\ PairsAreUnbroken /\ VelocityIsTheVehicles /\ ReplyIsRanked

\* "Disabled, first-query, or implausible-velocity cases return the raw
\* position unchanged": the docstring of _compensate_seed.
ImplausibleLeavesRaw ==
  seed.via # "none" /\ seed.implausible => seed.by.num = 0
=============================================================================
