----------------------- MODULE StartupInitialization -----------------------
(***************************************************************************)
(* Cold start: scripts/startup_initialization_node.py, its policy          *)
(* decide_startup in scripts/quickstart_model.py, the saved pose on disk,   *)
(* and the query service of scripts/global_localization_node.py (G2).      *)
(*                                                                         *)
(* rclpy.spin runs the node's callbacks one at a time, so each is a step.   *)
(* Node and service receive the same cloud topic over best-effort links,    *)
(* so each may miss a scan. The process may die and be started again, on    *)
(* another map; what it saved survives.                                    *)
(***************************************************************************)
EXTENDS Integers, FiniteSets

CONSTANTS
  Maps,                 \* map contents, by identity (size and SHA-256)
  Poses,                \* a set of integers; poses one apart agree
  QueryTimeout,         \* query_timeout_sec, in ticks
  VerificationTimeout,  \* verification_timeout_sec, in ticks
  VerificationSamples,  \* verification_samples
  MaxAttempts,          \* max_global_attempts
  ConsensusSamples,     \* global_consensus_samples
  PreverifyAttempts,    \* saved_pose_preverify_attempts
  PreverifySaved,       \* preverify_saved_pose
  SaveInterval,         \* save_interval_sec, in ticks
  MaxStamp,             \* bound: scans per run of the process
  MaxRestarts           \* bound: how often the process is started again

ASSUME StartupAssumption ==
  /\ Poses \subseteq Nat \ {0} /\ Maps # {}
  /\ {QueryTimeout, VerificationTimeout, SaveInterval, MaxStamp, MaxRestarts}
       \subseteq Nat
  /\ {VerificationSamples, MaxAttempts, ConsensusSamples, PreverifyAttempts}
       \subseteq Nat \ {0}
  /\ PreverifySaved \in BOOLEAN

VARIABLES
  st,        \* StartupState
  decision,  \* the action of the last decision
  node,      \* the node's own fields
  scan,      \* stamp of the last scan the sensor published
  g2scan,    \* latest_cloud of the service
  map,       \* the contents of the map file
  file,      \* the pose state file: the map its pose belongs to, or none
  hist       \* history, for properties only

vars == <<st, decision, node, scan, g2scan, map, file, hist>>

None == 0                         \* no file, no pose, no stamp
\* What the policy makes of a reply: nothing came, it is weak, ambiguous, stale
\* or incomplete, or it is good.
Replies == [grade: {"none", "rejected", "good"}, pose: Poses \cup {None},
            stamp: 0..MaxStamp]
NoReply == [grade |-> "none", pose |-> None, stamp |-> None]
Rejection(stamp) == [grade |-> "rejected", pose |-> None, stamp |-> stamp]
GoodReply(pose, stamp) == [grade |-> "good", pose |-> pose, stamp |-> stamp]
Agree(p, q) == p - q \in {-1, 0, 1}
Least(a, b) == IF a =< b THEN a ELSE b
Longest == IF QueryTimeout >= VerificationTimeout THEN QueryTimeout
           ELSE VerificationTimeout

-----------------------------------------------------------------------------
(* Starting the process                                                    *)

\* How quickstart.py launches the node: with the pose of --initial-pose, with
\* neither that nor --auto-initialize, or automatically, without or with an
\* occupancy map to search.
Modes == {"explicit", "manual", "saved", "guarded"}
Preconfigured(mode) == mode = "explicit"
Restores(mode) == mode \in {"saved", "guarded"}
EnableGlobal(mode) == mode = "guarded"

InitialState ==
  [name |-> "waiting_for_scan", source |-> "", waited |-> 0, attempts |-> 0,
   confirmations |-> 0, savedTried |-> FALSE,
   agreed |-> 0, pose |-> None, stamp |-> None]

\* Mutant: the identity of the map is not compared.
LoadableAnyMap(f, m) == f # None

\* load_stored_pose: only a valid record of this very map, not expired.
Loadable(f, m) == f # None /\ f = m

\* The node after __init__ with the saved pose it loaded; the scorer that
\* preverifies it may be unavailable.
Booted(mode, saved, scorer) ==
  [mode |-> mode,
   saved |-> saved, preverified |-> saved # None /\ ~PreverifySaved,
   scorer |-> saved # None /\ PreverifySaved /\ scorer, tries |-> 0,
   scanReady |-> FALSE, cloud |-> None, lastScan |-> None,
   inFlight |-> FALSE, pending |-> NoReply,
   sample |-> "none", stable |-> 0,
   latestPose |-> "none", saveAge |-> SaveInterval]

NoHistory == [globals |-> 0, saveds |-> 0, goodSince |-> 0, seen |-> {},
              boots |-> 0]

Boot(f, m) ==
  \E mode \in Modes, scorer, expired \in BOOLEAN :
    node' = Booted(mode,
                   IF Restores(mode) /\ Loadable(f, m) /\ ~expired THEN f ELSE None,
                   scorer)

Init ==
  /\ st = InitialState /\ decision = "wait"
  /\ map = (CHOOSE m \in Maps : TRUE) /\ file = None
  /\ \E mode \in Modes : node = Booted(mode, None, FALSE)
  /\ scan = None /\ g2scan = None /\ hist = NoHistory

\* The process dies at any time and is launched again; the map may have been
\* replaced in between. Saving replaces the file atomically, so a crash leaves
\* either the old record or the new one.
Restart ==
  /\ hist.boots < MaxRestarts
  /\ map' \in Maps /\ Boot(file, map')
  /\ st' = InitialState /\ decision' = "wait"
  /\ scan' = None /\ g2scan' = None
  /\ hist' = [NoHistory EXCEPT !.boots = hist.boots + 1]
  /\ UNCHANGED file

-----------------------------------------------------------------------------
(* Topic callbacks                                                         *)

AwaitsPreverification(n) == n.saved # None /\ ~n.preverified

\* _preverify_saved_pose: an accepted score, or one try less; the scorer is
\* dropped with the last try.
AfterPreverification(n, accepted) ==
  [n EXCEPT !.tries = @ + 1, !.preverified = accepted,
            !.scorer = ~accepted /\ n.tries + 1 < PreverifyAttempts]

\* The cloud counts as a scan unless a preverification is still to be repeated.
CloudSeen(n) ==
  [n EXCEPT !.cloud = scan + 1,
            !.scanReady = @ \/ ~(AwaitsPreverification(n) /\ n.scorer)]

OnCloud ==
  IF AwaitsPreverification(node) /\ node.scorer
  THEN \E accepted \in BOOLEAN :
         node' = CloudSeen(AfterPreverification(node, accepted))
  ELSE node' = CloudSeen(node)

\* One scan, received by the node, by the service, or by both.
Scan ==
  /\ scan < MaxStamp /\ scan' = scan + 1
  /\ \/ OnCloud /\ g2scan' \in {g2scan, scan + 1}
     \/ node' = node /\ g2scan' = scan + 1
  /\ UNCHANGED <<st, decision, map, file, hist>>

\* _maybe_save_pose: called with every pose and every status.
SaveDue(n) ==
  /\ n.latestPose = "global" /\ n.stable >= VerificationSamples
  /\ n.saveAge >= SaveInterval

MaybeSave(n) ==
  \/ /\ SaveDue(n)
     /\ file' = map
     /\ node' = [n EXCEPT !.saveAge = 0]
  \/ node' = n /\ UNCHANGED file      \* nothing to save, or the write failed

\* A pose in the global frame, or in another one, which is never saved.
OnPose ==
  /\ \E frame \in {"global", "foreign"} : MaybeSave([node EXCEPT !.latestPose = frame])
  /\ UNCHANGED <<st, decision, scan, g2scan, map, hist>>

\* Tracking good and fitness within the threshold, or not.
WithSample(n, good) ==
  [n EXCEPT !.sample = IF good THEN "good" ELSE "bad",
            !.stable = IF good THEN Least(@ + 1, VerificationSamples) ELSE 0]

OnAlignment ==
  /\ \E good \in BOOLEAN :
       /\ MaybeSave(WithSample(node, good))
       /\ hist' = IF good
                  THEN [hist EXCEPT !.goodSince = Least(@ + 1, VerificationSamples)]
                  ELSE hist
  /\ UNCHANGED <<st, decision, scan, g2scan, map>>

\* handle_query and _on_query_response: candidates from the service's scan,
\* whose stamp the reply may lack.
QueryAnswered ==
  /\ node.inFlight /\ g2scan # None
  /\ \E stamp \in {g2scan, None} :
       \E reply \in {Rejection(stamp)} \cup {GoodReply(p, stamp) : p \in Poses} :
         node' = [node EXCEPT !.inFlight = FALSE, !.lastScan = stamp,
                              !.pending = reply]
  /\ UNCHANGED <<st, decision, scan, g2scan, map, file, hist>>

\* No scan yet, no candidate, no registration scoring where it is required,
\* or a call that failed: the empty list.
QueryFailed ==
  /\ node.inFlight
  /\ node' = [node EXCEPT !.inFlight = FALSE, !.pending = Rejection(None)]
  /\ UNCHANGED <<st, decision, scan, g2scan, map, file, hist>>

-----------------------------------------------------------------------------
(* decide_startup: s is the state, n the node's observation. Expired is     *)
(* "now > deadline".                                                       *)

Expired(s, timeout) == s.waited > timeout

Take(action, s) == decision' = action /\ st' = s

Operator(s) == Take("needs_operator", [s EXCEPT !.name = "needs_operator"])

Query(s) ==
  \/ s.attempts >= MaxAttempts /\ Operator(s)
  \/ /\ s.attempts < MaxAttempts
     /\ Take("query_global",
             [s EXCEPT !.name = "querying_global", !.source = "global",
                       !.waited = 0, !.attempts = @ + 1, !.confirmations = 0])

\* The next automatic source, or none.
Search(s, n) ==
  \/ EnableGlobal(n.mode) /\ Query(s)
  \/ ~EnableGlobal(n.mode) /\ Operator(s)

Verify(action, s, source) ==
  Take(action, [s EXCEPT !.name = "verifying", !.source = source, !.waited = 0,
                         !.confirmations = 0])

\* A fresh diagnostic counts one confirmation, a bad one resets the count.
Confirmed(s, n) ==
  IF n.sample = "none" THEN s
  ELSE [s EXCEPT !.confirmations = IF n.sample = "good" THEN @ + 1 ELSE 0]

Activates(s, n) ==
  n.sample # "none" /\ Confirmed(s, n).confirmations >= VerificationSamples

Active(s) == s.name = "active" /\ Take("active", s)

NeedsOperator(s, n) ==
  /\ s.name = "needs_operator"
  /\ \/ /\ Activates(s, n)
        /\ Take("active", [Confirmed(s, n) EXCEPT !.name = "active",
                                                  !.source = "manual"])
     \/ ~Activates(s, n) /\ Take("needs_operator", Confirmed(s, n))

WaitingForScan(s, n) ==
  /\ s.name = "waiting_for_scan"
  /\ \/ ~n.scanReady /\ Take("wait", s)
     \/ n.scanReady /\ Preconfigured(n.mode) /\ Verify("wait", s, "explicit")
     \/ /\ n.scanReady /\ ~Preconfigured(n.mode)
        /\ n.saved # None /\ n.preverified /\ ~s.savedTried
        /\ Verify("publish_saved", [s EXCEPT !.savedTried = TRUE], "saved")
     \/ /\ n.scanReady /\ ~Preconfigured(n.mode)
        /\ ~(n.saved # None /\ n.preverified /\ ~s.savedTried)
        /\ Search(s, n)

\* Mutant: a query that is still in flight is waited for.
AwaitingQueryForever(s, n) ==
  /\ s.name = "querying_global" /\ n.pending = NoReply
  /\ \/ Expired(s, QueryTimeout) /\ ~n.inFlight /\ Query(s)
     \/ (~Expired(s, QueryTimeout) \/ n.inFlight) /\ Take("wait", s)

AwaitingQuery(s, n) ==
  /\ s.name = "querying_global" /\ n.pending = NoReply
  /\ \/ Expired(s, QueryTimeout) /\ n.inFlight /\ Operator(s)
     \/ Expired(s, QueryTimeout) /\ ~n.inFlight /\ Query(s)
     \/ ~Expired(s, QueryTimeout) /\ Take("wait", s)

Usable(reply) == reply.grade = "good" /\ reply.stamp # None

Rejected(s, n) ==
  /\ s.name = "querying_global" /\ n.pending # NoReply /\ ~Usable(n.pending)
  /\ Query(s)

Agreed(s, n, count) ==
  [s EXCEPT !.agreed = count, !.pose = n.pending.pose, !.stamp = n.pending.stamp]

PublishGlobal(s) == Verify("publish_global", s, "global")

\* Mutant: results of one scan count as two.
SameScanCounts(s, n) == FALSE

\* The scan of this result is not later than the one agreed on last.
SameScan(s, n) == s.stamp = None \/ n.pending.stamp =< s.stamp

\* Mutant: the first usable result is published.
ConsensusAtOnce(s, n) ==
  s.name = "querying_global" /\ Usable(n.pending) /\ PublishGlobal(s)

Consensus(s, n) ==
  /\ s.name = "querying_global" /\ Usable(n.pending)
  /\ \/ s.agreed = 0 /\ ConsensusSamples > 1 /\ Query(Agreed(s, n, 1))
     \/ s.agreed = 0 /\ ConsensusSamples = 1 /\ PublishGlobal(s)
     \/ s.agreed # 0 /\ SameScan(s, n) /\ Take("awaiting_fresh_scan", s)
     \/ /\ s.agreed # 0 /\ ~SameScan(s, n) /\ ~Agree(n.pending.pose, s.pose)
        /\ Query(Agreed(s, n, 1))
     \/ /\ s.agreed # 0 /\ ~SameScan(s, n) /\ Agree(n.pending.pose, s.pose)
        /\ IF s.agreed + 1 < ConsensusSamples
           THEN Query(Agreed(s, n, s.agreed + 1))
           ELSE PublishGlobal(Agreed(s, n, s.agreed + 1))

Verifying(s, n) ==
  /\ s.name = "verifying"
  /\ \/ /\ Activates(s, n)
        /\ Take("active", [Confirmed(s, n) EXCEPT !.name = "active"])
     \/ /\ ~Activates(s, n) /\ Expired(s, VerificationTimeout)
        /\ Search(Confirmed(s, n), n)
     \/ /\ ~Activates(s, n) /\ ~Expired(s, VerificationTimeout)
        /\ Take("wait", Confirmed(s, n))

DecideStartup(s, n) ==
  \/ Active(s) \/ NeedsOperator(s, n) \/ WaitingForScan(s, n)
  \/ AwaitingQuery(s, n) \/ Rejected(s, n) \/ Consensus(s, n)
  \/ Verifying(s, n)

-----------------------------------------------------------------------------
(* _tick                                                                   *)

\* _issue_query: one at a time, and only with a scan later than the one the
\* last result was computed from.
MayIssue(n) ==
  ~n.inFlight /\ (n.lastScan = None \/ (n.cloud # None /\ n.cloud > n.lastScan))

Published == decision' \in {"publish_saved", "publish_global"}

\* The observation is taken and cleared, the policy decides, and a query goes
\* out in every search state that publishes nothing, if the service is there.
NodeAfterTick(n) ==
  /\ \/ /\ st'.name = "querying_global" /\ ~Published /\ MayIssue(n)
        /\ node' = [n EXCEPT !.inFlight = TRUE]
     \/ node' = n

\* Mutant: a diagnostic stays fresh for the next tick.
ForgottenButDiagnostic(n) ==
  [n EXCEPT !.pending = NoReply, !.saveAge = Least(@ + 1, SaveInterval)]

Forgotten(n) ==
  [n EXCEPT !.pending = NoReply, !.sample = "none",
            !.saveAge = Least(@ + 1, SaveInterval)]

Remember(n) ==
  hist' = [hist EXCEPT
    !.globals = IF decision' = "publish_global" THEN @ + 1 ELSE @,
    !.saveds = IF decision' = "publish_saved" THEN @ + 1 ELSE @,
    !.goodSince = IF Published \/ (st'.source = "explicit" /\ st.source = "")
                  THEN 0 ELSE @,
    !.seen = IF Usable(n.pending) THEN @ \cup {n.pending} ELSE @]

Tick ==
  /\ DecideStartup([st EXCEPT !.waited = Least(@ + 1, Longest + 1)], node)
  /\ NodeAfterTick(Forgotten(node))
  /\ Remember(node)
  /\ UNCHANGED <<scan, g2scan, map, file>>

Next ==
  \/ Scan \/ OnPose \/ OnAlignment \/ QueryAnswered \/ QueryFailed \/ Tick
  \/ Restart

Spec == Init /\ [][Next]_vars

\* The timer of the node fires for ever.
FairSpec == Spec /\ WF_vars(Tick)

-----------------------------------------------------------------------------
(* Properties                                                              *)

NodeType ==
  [mode: Modes, saved: Maps \cup {None}, preverified: BOOLEAN, scorer: BOOLEAN,
   tries: 0..PreverifyAttempts, scanReady: BOOLEAN, cloud: 0..MaxStamp,
   lastScan: 0..MaxStamp, inFlight: BOOLEAN, pending: Replies,
   sample: {"none", "good", "bad"}, stable: 0..VerificationSamples,
   latestPose: {"none", "global", "foreign"}, saveAge: 0..SaveInterval]

StateType ==
  [name: {"waiting_for_scan", "querying_global", "verifying", "active",
          "needs_operator"},
   source: {"", "explicit", "saved", "global", "manual"},
   waited: 0..(Longest + 1), attempts: 0..MaxAttempts,
   confirmations: 0..VerificationSamples, savedTried: BOOLEAN,
   agreed: 0..MaxAttempts, pose: Poses \cup {None}, stamp: 0..MaxStamp]

\* Types; that attempts and preverification tries stay within their budgets is
\* what is not obvious in it.
StartupTypeOK ==
  /\ st \in StateType /\ node \in NodeType
  /\ scan \in 0..MaxStamp /\ g2scan \in 0..MaxStamp
  /\ map \in Maps /\ file \in Maps \cup {None}

\* What the node publishes on its own is bounded: the saved pose once per start,
\* the searched poses by the attempts, the first of which takes ConsensusSamples
\* of them; and it publishes nothing where the operator's pose or no automatic
\* initialization was asked for.
AutomaticPosesBounded ==
  /\ hist.saveds =< 1 /\ st.attempts =< MaxAttempts
  /\ hist.globals > 0 => hist.globals + ConsensusSamples - 1 =< st.attempts
  /\ node.mode \in {"explicit", "manual"} => hist.globals + hist.saveds = 0

\* The node calls itself active only after VerificationSamples good samples
\* received since the pose it last published, whatever it tried before.
ActiveIsVerified ==
  [][st'.name = "active" /\ st.name \notin {"active", "needs_operator"} =>
       hist.goodSince >= VerificationSamples]_vars

\* A global candidate is published only when results of ConsensusSamples scans
\* with different stamps agree one with the next, the last being its own.
PublishedByConsensus ==
  [][hist'.globals > hist.globals =>
       \E chain \in [1..ConsensusSamples -> hist'.seen] :
         /\ chain[ConsensusSamples] = node.pending
         /\ \A i \in 1..(ConsensusSamples - 1) :
              /\ chain[i].stamp < chain[i + 1].stamp
              /\ Agree(chain[i].pose, chain[i + 1].pose)]_vars

\* A restored pose was saved for the map the localizer runs on now, across
\* crashes, restarts and replaced maps.
RestoredForThisMap == hist.saveds > 0 => node.saved = map

\* Once a scan is in, the start ends active or with the operator, unless the
\* service keeps answering from a scan it has answered from before.
StartupSettles ==
  <>[](decision # "awaiting_fresh_scan") =>
    (node.scanReady ~>
       st.name \in {"active", "needs_operator"} \/ ~node.scanReady)
=============================================================================
