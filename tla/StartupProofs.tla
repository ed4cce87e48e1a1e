--------------------------- MODULE StartupProofs ---------------------------
(***************************************************************************)
(* Proofs about the cold start, for every size of the search budget, of    *)
(* the consensus and of the verification, every set of maps and poses, and *)
(* any number of crashes.                                                  *)
(***************************************************************************)
EXTENDS StartupInitialization, TLAPS

LEMMA ConstantTypes ==
  /\ QueryTimeout \in Nat /\ VerificationTimeout \in Nat /\ SaveInterval \in Nat
  /\ MaxStamp \in Nat /\ MaxRestarts \in Nat
  /\ VerificationSamples \in Nat /\ VerificationSamples >= 1
  /\ MaxAttempts \in Nat /\ MaxAttempts >= 1
  /\ ConsensusSamples \in Nat /\ ConsensusSamples >= 1
  /\ PreverifyAttempts \in Nat /\ PreverifyAttempts >= 1
  /\ Poses \subseteq Nat /\ None \notin Poses /\ None = 0 /\ Longest \in Nat
BY StartupAssumption DEF None, Longest

LEMMA NoneYet == 0 < VerificationSamples
  BY ConstantTypes

LEMMA StateFields ==
  ASSUME NEW s \in StateType
  PROVE  /\ s.attempts \in 0..MaxAttempts /\ s.agreed \in 0..MaxAttempts
         /\ s.confirmations \in 0..VerificationSamples
         /\ s.attempts \in Nat /\ s.agreed \in Nat /\ s.confirmations \in Nat
         /\ s.attempts =< MaxAttempts /\ s.agreed =< MaxAttempts
         /\ s.confirmations =< VerificationSamples
<1>1. /\ s.attempts \in 0..MaxAttempts /\ s.agreed \in 0..MaxAttempts
      /\ s.confirmations \in 0..VerificationSamples
  BY DEF StateType
<1>2. MaxAttempts \in Nat /\ VerificationSamples \in Nat
  BY ConstantTypes
<1> QED
  BY <1>1, <1>2

-----------------------------------------------------------------------------
(* What one decision does to the state of the start.                       *)

\* t has the given name, source, attempts and confirmations, and agrees with s
\* in what the policy remembers of the search.
Is(t, name, source, attempts, confirmations, s) ==
  /\ t \in StateType
  /\ t.name = name /\ t.source = source /\ t.attempts = attempts
  /\ t.confirmations = confirmations
  /\ t.savedTried = s.savedTried /\ t.agreed = s.agreed
  /\ t.pose = s.pose /\ t.stamp = s.stamp

\* Handing over to the operator changes the name only.
LEMMA OperatorState ==
  ASSUME NEW s \in StateType, Operator(s)
  PROVE  /\ decision' = "needs_operator"
         /\ Is(st', "needs_operator", s.source, s.attempts, s.confirmations, s)
BY DEF Operator, Take, Is, StateType

\* A query is charged to the budget, and not sent when the budget is spent.
LEMMA QueryState ==
  ASSUME NEW s \in StateType, Query(s)
  PROVE  \/ /\ decision' = "needs_operator"
            /\ Is(st', "needs_operator", s.source, s.attempts, s.confirmations, s)
         \/ /\ decision' = "query_global"
            /\ s.attempts < MaxAttempts
            /\ Is(st', "querying_global", "global", s.attempts + 1, 0, s)
<1>1. CASE Operator(s)
  BY <1>1, OperatorState
<1>2. CASE s.attempts < MaxAttempts /\ ~Operator(s)
  <2> DEFINE a == s.attempts + 1
  <2>1. /\ st' = [s EXCEPT !.name = "querying_global", !.source = "global",
                           !.waited = 0, !.attempts = a, !.confirmations = 0]
        /\ decision' = "query_global"
    BY <1>2 DEF Query, Take
  <2>2. a \in 0..MaxAttempts /\ 0 \in 0..(Longest + 1) /\ 0 \in 0..VerificationSamples
    BY <1>2, ConstantTypes, StateFields
  <2> HIDE DEF a
  <2>3. Is(st', "querying_global", "global", a, 0, s)
    BY <2>1, <2>2 DEF Is, StateType
  <2> QED
    BY <1>2, <2>1, <2>3 DEF a
<1> QED
  BY <1>1, <1>2 DEF Query

\* Waiting for a published pose to be verified starts with no confirmations.
LEMMA VerifyState ==
  ASSUME NEW s \in StateType, NEW action,
         NEW source \in {"explicit", "saved", "global"},
         Verify(action, s, source)
  PROVE  /\ decision' = action
         /\ Is(st', "verifying", source, s.attempts, 0, s)
<1>1. 0 \in 0..(Longest + 1) /\ 0 \in 0..VerificationSamples
  BY ConstantTypes
<1> QED
  BY <1>1 DEF Verify, Take, Is, StateType

\* A diagnostic changes the confirmations only.
LEMMA ConfirmedState ==
  ASSUME NEW s \in StateType, s.confirmations < VerificationSamples, NEW n
  PROVE  LET c == Confirmed(s, n)
         IN  /\ Is(c, s.name, s.source, s.attempts, c.confirmations, s)
             /\ c.confirmations =
                  IF n.sample = "none" THEN s.confirmations
                  ELSE IF n.sample = "good" THEN s.confirmations + 1 ELSE 0
             /\ c.confirmations < VerificationSamples \/ Activates(s, n)
<1> DEFINE k == IF n.sample = "good" THEN s.confirmations + 1 ELSE 0
<1>1. k \in 0..VerificationSamples
  BY ConstantTypes, StateFields
<1>2. Confirmed(s, n) =
        IF n.sample = "none" THEN s ELSE [s EXCEPT !.confirmations = k]
  BY DEF Confirmed
<1> HIDE DEF k
<1>3. Is(Confirmed(s, n), s.name, s.source, s.attempts,
         Confirmed(s, n).confirmations, s)
  BY <1>1, <1>2 DEF Is, StateType
<1>4. Confirmed(s, n).confirmations =
        IF n.sample = "none" THEN s.confirmations ELSE k
  BY <1>2 DEF StateType
<1>5. Confirmed(s, n).confirmations < VerificationSamples \/ Activates(s, n)
  BY <1>1, <1>4, ConstantTypes DEF Activates
<1> QED
  BY <1>3, <1>4, <1>5 DEF k

-----------------------------------------------------------------------------
(* The moves of the start.                                                 *)

\* The part of the invariant that speaks of the policy's state alone.
Sane(s) ==
  /\ s \in StateType
  /\ s.agreed =< s.attempts
  /\ s.name = "querying_global" => s.agreed + 1 =< s.attempts
  /\ s.name # "active" => s.confirmations < VerificationSamples
  /\ s.name = "waiting_for_scan" => s.source = ""
  /\ s.name = "verifying" => s.source # ""

\* The search remembers what it did.
SearchKept(s) == st'.agreed = s.agreed /\ st'.pose = s.pose /\ st'.stamp = s.stamp

\* The result under consideration is the k-th that agrees.
Extends(s, n, k) ==
  /\ s.name = "querying_global" /\ Usable(n.pending)
  /\ st'.agreed = k /\ st'.pose = n.pending.pose /\ st'.stamp = n.pending.stamp
  /\ k # 1 => /\ s.agreed # 0 /\ k = s.agreed + 1 /\ ~SameScan(s, n)
              /\ Agree(n.pending.pose, s.pose)

\* Nothing but the clock moves, or a diagnostic is counted.
Waits(s, n) ==
  /\ ~Published /\ st'.name = s.name /\ st'.source = s.source
  /\ st'.attempts = s.attempts /\ st'.savedTried = s.savedTried /\ SearchKept(s)
  /\ \/ st'.confirmations = s.confirmations /\ s.name # "verifying"
     \/ s.name \in {"verifying", "needs_operator"}
        /\ st'.confirmations = Confirmed(s, n).confirmations

\* The operator has to help.
HandsOver(s, n) ==
  /\ ~Published /\ s.name # "active" /\ st'.name = "needs_operator"
  /\ st'.attempts = s.attempts /\ st'.savedTried = s.savedTried
  /\ SearchKept(s) \/ Extends(s, n, 1) \/ Extends(s, n, s.agreed + 1)

\* A pose has been verified.
Activated(s, n) ==
  /\ ~Published /\ s.name \in {"verifying", "needs_operator"} /\ Activates(s, n)
  /\ st'.name = "active" /\ st'.attempts = s.attempts
  /\ st'.savedTried = s.savedTried /\ SearchKept(s)
  /\ s.name = "verifying" => st'.source = s.source

\* Another query, on the account.
Asks(s, n) ==
  /\ decision' = "query_global" /\ s.name # "active"
  /\ EnableGlobal(n.mode) \/ s.name = "querying_global"
  /\ st'.name = "querying_global" /\ st'.source = "global"
  /\ s.attempts < MaxAttempts /\ st'.attempts = s.attempts + 1
  /\ st'.savedTried = s.savedTried
  /\ SearchKept(s) \/ Extends(s, n, 1) \/ Extends(s, n, s.agreed + 1)

\* The pose the operator gave, or the one the last run saved.
Tries(s, n) ==
  /\ s.name = "waiting_for_scan" /\ st'.name = "verifying"
  /\ st'.attempts = s.attempts /\ st'.confirmations = 0 /\ SearchKept(s)
  /\ \/ ~Published /\ st'.source = "explicit" /\ st'.savedTried = s.savedTried
     \/ /\ decision' = "publish_saved" /\ st'.source = "saved"
        /\ n.saved # None /\ ~s.savedTried /\ st'.savedTried

\* A result that was agreed on.
Announces(s, n) ==
  /\ decision' = "publish_global" /\ s.name = "querying_global"
  /\ st'.name = "verifying" /\ st'.source = "global"
  /\ st'.attempts = s.attempts /\ st'.confirmations = 0
  /\ st'.savedTried = s.savedTried /\ Usable(n.pending)
  /\ \/ s.agreed = 0 /\ ConsensusSamples = 1 /\ SearchKept(s)
     \/ /\ s.agreed # 0 /\ s.agreed + 1 >= ConsensusSamples
        /\ Extends(s, n, s.agreed + 1)

Moves(s, n) ==
  \/ Waits(s, n) \/ HandsOver(s, n) \/ Activated(s, n) \/ Asks(s, n)
  \/ Tries(s, n) \/ Announces(s, n)

\* A result under consideration is remembered within the budget.
LEMMA AgreedState ==
  ASSUME NEW s, Sane(s), s.name = "querying_global",
         NEW n, n.pending \in Replies, NEW k \in {1, s.agreed + 1}
  PROVE  /\ Is([Agreed(s, n, k) EXCEPT !.agreed = s.agreed, !.pose = s.pose,
                                       !.stamp = s.stamp],
               s.name, s.source, s.attempts, s.confirmations, s)
         /\ Agreed(s, n, k) \in StateType
         /\ Agreed(s, n, k).name = s.name /\ Agreed(s, n, k).source = s.source
         /\ Agreed(s, n, k).attempts = s.attempts
         /\ Agreed(s, n, k).confirmations = s.confirmations
         /\ Agreed(s, n, k).savedTried = s.savedTried
         /\ Agreed(s, n, k).agreed = k /\ Agreed(s, n, k).pose = n.pending.pose
         /\ Agreed(s, n, k).stamp = n.pending.stamp
<1>1. k \in 0..MaxAttempts /\ s \in StateType
  BY ConstantTypes, StateFields DEF Sane
<1> DEFINE p == n.pending.pose
           m == n.pending.stamp
<1>2. p \in Poses \cup {None} /\ m \in 0..MaxStamp
  BY DEF Replies
<1>3. Agreed(s, n, k) = [s EXCEPT !.agreed = k, !.pose = p, !.stamp = m]
  BY DEF Agreed
<1> HIDE DEF p, m
<1> QED
  BY <1>1, <1>2, <1>3 DEF Is, StateType, p, m

\* A new query, or the operator when there is no budget for it, after a result
\* that is the k-th to agree.
LEMMA QueryAgreed ==
  ASSUME NEW s, Sane(s), s.name = "querying_global",
         NEW n, n.pending \in Replies, Usable(n.pending),
         NEW k \in {1, s.agreed + 1},
         k # 1 => /\ s.agreed # 0 /\ ~SameScan(s, n)
                  /\ Agree(n.pending.pose, s.pose),
         Query(Agreed(s, n, k))
  PROVE  Sane(st') /\ (HandsOver(s, n) \/ Asks(s, n))
<1> DEFINE a == Agreed(s, n, k)
<1>1. /\ a \in StateType /\ a.name = s.name /\ a.attempts = s.attempts
      /\ a.confirmations = s.confirmations /\ a.savedTried = s.savedTried
      /\ a.agreed = k /\ a.pose = n.pending.pose /\ a.stamp = n.pending.stamp
  BY AgreedState
<1> HIDE DEF a
<1>2. \/ /\ decision' = "needs_operator"
         /\ Is(st', "needs_operator", a.source, a.attempts, a.confirmations, a)
      \/ /\ decision' = "query_global"
         /\ a.attempts < MaxAttempts
         /\ Is(st', "querying_global", "global", a.attempts + 1, 0, a)
  BY <1>1, QueryState DEF a
<1>3. /\ s.agreed \in Nat /\ s.attempts \in Nat /\ s.agreed + 1 =< s.attempts
      /\ s.confirmations < VerificationSamples /\ k =< s.attempts
  BY ConstantTypes, StateFields DEF Sane
<1>4. Extends(s, n, k)
  BY <1>1, <1>2, <1>3 DEF Extends, Is
<1>5. Extends(s, n, 1) \/ Extends(s, n, s.agreed + 1)
  BY <1>4
<1>6. CASE decision' = "needs_operator"
  <2>1. Is(st', "needs_operator", a.source, a.attempts, a.confirmations, a)
    BY <1>2, <1>6
  <2>2. Sane(st')
    BY <1>1, <1>3, <2>1 DEF Sane, Is
  <2>3. HandsOver(s, n)
    BY <1>1, <1>5, <1>6, <2>1 DEF HandsOver, Is, Published
  <2> QED
    BY <2>2, <2>3
<1>7. CASE decision' = "query_global"
  <2>1. /\ a.attempts < MaxAttempts
        /\ Is(st', "querying_global", "global", a.attempts + 1, 0, a)
    BY <1>2, <1>7
  <2>2. Sane(st')
    BY <1>1, <1>3, <2>1, ConstantTypes DEF Sane, Is
  <2>3. Asks(s, n)
    BY <1>1, <1>5, <1>7, <2>1 DEF Asks, Is
  <2> QED
    BY <2>2, <2>3
<1> QED
  BY <1>2, <1>6, <1>7

\* The next query, or the operator, with the search as it is.
LEMMA QueryKept ==
  ASSUME NEW s, Sane(s), NEW c, Is(c, s.name, s.source, s.attempts, c.confirmations, s),
         c.confirmations < VerificationSamples, NEW n, s.name # "active",
         EnableGlobal(n.mode) \/ s.name = "querying_global", Query(c)
  PROVE  Sane(st') /\ (HandsOver(s, n) \/ Asks(s, n))
<1>1. c \in StateType
  BY DEF Is
<1>2. s.agreed \in Nat /\ s.attempts \in Nat /\ s.agreed =< s.attempts
  BY StateFields DEF Sane
<1>3. \/ /\ decision' = "needs_operator"
         /\ Is(st', "needs_operator", c.source, c.attempts, c.confirmations, c)
      \/ /\ decision' = "query_global"
         /\ c.attempts < MaxAttempts
         /\ Is(st', "querying_global", "global", c.attempts + 1, 0, c)
  BY <1>1, QueryState
<1>4. /\ c.attempts = s.attempts /\ c.savedTried = s.savedTried
      /\ c.agreed = s.agreed /\ c.pose = s.pose /\ c.stamp = s.stamp
  BY DEF Is
<1>6. CASE decision' = "needs_operator"
  <2>1. Is(st', "needs_operator", c.source, c.attempts, c.confirmations, c)
    BY <1>3, <1>6
  <2>2. Sane(st')
    BY <1>2, <1>4, <2>1 DEF Sane, Is
  <2>3. HandsOver(s, n)
    BY <1>4, <1>6, <2>1 DEF HandsOver, Is, Published, SearchKept
  <2> QED
    BY <2>2, <2>3
<1>7. CASE decision' = "query_global"
  <2>1. /\ c.attempts < MaxAttempts
        /\ Is(st', "querying_global", "global", c.attempts + 1, 0, c)
    BY <1>3, <1>7
  <2>2. Sane(st')
    <3>1. /\ st' \in StateType /\ st'.name = "querying_global"
          /\ st'.source = "global" /\ st'.attempts = s.attempts + 1
          /\ st'.agreed = s.agreed /\ st'.confirmations = 0
      BY <1>4, <2>1 DEF Is
    <3>2. s.agreed + 1 =< s.attempts + 1 /\ s.agreed =< s.attempts + 1
      BY <1>2
    <3>3. st'.agreed + 1 =< st'.attempts /\ st'.agreed =< st'.attempts
      BY <3>1, <3>2
    <3> QED
      BY <3>1, <3>3, NoneYet DEF Sane
  <2>3. Asks(s, n)
    BY <1>4, <1>7, <2>1 DEF Asks, Is, SearchKept
  <2> QED
    BY <2>2, <2>3
<1> QED
  BY <1>3, <1>6, <1>7

\* Every decision is a move and leaves the state sane.
LEMMA DecisionMoves ==
  ASSUME NEW s, Sane(s), NEW n, n.pending \in Replies,
         n.sample \in {"none", "good", "bad"}, DecideStartup(s, n)
  PROVE  Sane(st') /\ Moves(s, n)
<1>0. /\ s \in StateType /\ s.agreed \in Nat /\ s.attempts \in Nat
      /\ s.agreed =< s.attempts /\ s.attempts =< MaxAttempts
      /\ s.confirmations \in Nat
  BY StateFields DEF Sane
<1>s. Is(s, s.name, s.source, s.attempts, s.confirmations, s)
  BY <1>0 DEF Is
<1> DEFINE c == Confirmed(s, n)
<1>c. s.name # "active" =>
        /\ Is(c, s.name, s.source, s.attempts, c.confirmations, s)
        /\ c.confirmations < VerificationSamples \/ Activates(s, n)
  BY <1>0, ConfirmedState DEF Sane
<1>k. SearchKept(s) <=> st'.agreed = s.agreed /\ st'.pose = s.pose /\ st'.stamp = s.stamp
  BY DEF SearchKept
<1>1. CASE Active(s)
  BY <1>0, <1>1 DEF Active, Take, Waits, Moves, Sane, Published, SearchKept
<1>2. CASE NeedsOperator(s, n)
  <2>1. s.name = "needs_operator"
    BY <1>2 DEF NeedsOperator
  <2>2. CASE Activates(s, n)
    <3>1. /\ st' = [c EXCEPT !.name = "active", !.source = "manual"]
          /\ decision' = "active"
      BY <1>2, <2>2 DEF NeedsOperator, Take
    <3> HIDE DEF c
    <3>2. Is(st', "active", "manual", s.attempts, c.confirmations, s)
      BY <1>c, <2>1, <3>1 DEF Is, StateType
    <3> QED
      BY <1>0, <2>1, <2>2, <3>1, <3>2
      DEF Activated, Moves, Sane, Is, Published, SearchKept
  <2>3. CASE ~Activates(s, n)
    <3>1. st' = c /\ decision' = "needs_operator"
      BY <1>2, <2>3 DEF NeedsOperator, Take
    <3>2. st'.confirmations = Confirmed(s, n).confirmations
      BY <3>1
    <3> HIDE DEF c
    <3> QED
      BY <1>0, <1>c, <2>1, <2>3, <3>1, <3>2
      DEF Waits, Moves, Sane, Is, Published, SearchKept
  <2> QED
    BY <2>2, <2>3
<1>3. CASE WaitingForScan(s, n)
  <2>1. s.name = "waiting_for_scan"
    BY <1>3 DEF WaitingForScan
  <2>2. CASE Take("wait", s)
    BY <1>0, <2>1, <2>2 DEF Take, Waits, Moves, Sane, Published, SearchKept
  <2>3. CASE Verify("wait", s, "explicit")
    <3>1. decision' = "wait" /\ Is(st', "verifying", "explicit", s.attempts, 0, s)
      BY <1>0, <2>3, VerifyState
    <3>2. Sane(st')
      BY <1>0, <3>1, NoneYet DEF Sane, Is
    <3>3. Tries(s, n)
      BY <2>1, <3>1 DEF Tries, Is, Published, SearchKept
    <3> QED
      BY <3>2, <3>3 DEF Moves
  <2>4. CASE /\ n.saved # None /\ n.preverified /\ ~s.savedTried
             /\ Verify("publish_saved", [s EXCEPT !.savedTried = TRUE], "saved")
    <3> DEFINE t == [s EXCEPT !.savedTried = TRUE]
    <3>1. /\ t \in StateType /\ t.savedTried /\ t.attempts = s.attempts
          /\ t.agreed = s.agreed /\ t.pose = s.pose /\ t.stamp = s.stamp
      BY <1>0 DEF StateType
    <3> HIDE DEF t
    <3>2. decision' = "publish_saved" /\ Is(st', "verifying", "saved", t.attempts, 0, t)
      BY <2>4, <3>1, VerifyState DEF t
    <3>3. Sane(st')
      BY <1>0, <3>1, <3>2, NoneYet DEF Sane, Is
    <3>4. Tries(s, n)
      BY <2>1, <2>4, <3>1, <3>2 DEF Tries, Is, SearchKept
    <3> QED
      BY <3>3, <3>4 DEF Moves
  <2>5. CASE Search(s, n)
    <3>1. CASE Query(s) /\ EnableGlobal(n.mode)
      BY <1>s, <2>1, <3>1, QueryKept DEF Moves, Sane
    <3>2. CASE Operator(s)
      BY <1>0, <2>1, <3>2, OperatorState
      DEF HandsOver, Moves, Sane, Is, Published, SearchKept
    <3> QED
      BY <2>5, <3>1, <3>2 DEF Search
  <2> QED
    BY <1>3, <2>2, <2>3, <2>4, <2>5 DEF WaitingForScan
<1>4. CASE AwaitingQuery(s, n)
  <2>1. s.name = "querying_global"
    BY <1>4 DEF AwaitingQuery
  <2>2. CASE Take("wait", s)
    BY <1>0, <2>1, <2>2 DEF Take, Waits, Moves, Sane, Published, SearchKept
  <2>3. CASE Operator(s)
    BY <1>0, <2>1, <2>3, OperatorState
    DEF HandsOver, Moves, Sane, Is, Published, SearchKept
  <2>4. CASE Query(s)
    BY <1>s, <2>1, <2>4, QueryKept DEF Moves, Sane
  <2> QED
    BY <1>4, <2>2, <2>3, <2>4 DEF AwaitingQuery
<1>5. CASE Rejected(s, n)
  <2>1. s.name = "querying_global" /\ Query(s)
    BY <1>5 DEF Rejected
  <2> QED
    BY <1>s, <2>1, QueryKept DEF Moves, Sane
<1>6. CASE Consensus(s, n)
  <2>1. s.name = "querying_global" /\ Usable(n.pending)
    BY <1>6 DEF Consensus
  <2>2. CASE Query(Agreed(s, n, 1))
    BY <2>1, <2>2, QueryAgreed DEF Moves
  <2>3. CASE s.agreed = 0 /\ ConsensusSamples = 1 /\ PublishGlobal(s)
    <3>1. /\ decision' = "publish_global"
          /\ Is(st', "verifying", "global", s.attempts, 0, s)
      BY <1>0, <2>3, VerifyState DEF PublishGlobal
    <3>2. Sane(st')
      BY <1>0, <3>1, NoneYet DEF Sane, Is
    <3>3. Announces(s, n)
      BY <2>1, <2>3, <3>1 DEF Announces, Is, SearchKept
    <3> QED
      BY <3>2, <3>3 DEF Moves
  <2>4. CASE Take("awaiting_fresh_scan", s)
    BY <1>0, <2>1, <2>4 DEF Take, Waits, Moves, Sane, Published, SearchKept
  <2>5. CASE /\ s.agreed # 0 /\ ~SameScan(s, n) /\ Agree(n.pending.pose, s.pose)
             /\ Query(Agreed(s, n, s.agreed + 1))
    BY <2>1, <2>5, QueryAgreed DEF Moves
  <2>6. CASE /\ s.agreed # 0 /\ ~SameScan(s, n) /\ Agree(n.pending.pose, s.pose)
             /\ s.agreed + 1 >= ConsensusSamples
             /\ PublishGlobal(Agreed(s, n, s.agreed + 1))
    <3> DEFINE k == s.agreed + 1
               a == Agreed(s, n, k)
    <3>1. /\ a \in StateType /\ a.attempts = s.attempts /\ a.savedTried = s.savedTried
          /\ a.agreed = k /\ a.pose = n.pending.pose /\ a.stamp = n.pending.stamp
      BY <2>1, AgreedState
    <3> HIDE DEF a
    <3>2. decision' = "publish_global" /\ Is(st', "verifying", "global", a.attempts, 0, a)
      BY <2>6, <3>1, VerifyState DEF PublishGlobal, a
    <3>3. Extends(s, n, s.agreed + 1)
      BY <2>1, <2>6, <3>1, <3>2 DEF Extends, Is
    <3>4. Sane(st')
      BY <1>0, <2>1, <3>1, <3>2, ConstantTypes DEF Sane, Is
    <3>5. Announces(s, n)
      BY <2>1, <2>6, <3>1, <3>2, <3>3 DEF Announces, Is
    <3> QED
      BY <3>4, <3>5 DEF Moves
  <2> QED
    BY <1>0, <1>6, <2>2, <2>3, <2>4, <2>5, <2>6, ConstantTypes DEF Consensus
<1>7. CASE Verifying(s, n)
  <2>1. s.name = "verifying" /\ s.source # ""
    BY <1>7 DEF Verifying, Sane
  <2>2. CASE Activates(s, n)
    <3>1. st' = [c EXCEPT !.name = "active"] /\ decision' = "active"
      BY <1>7, <2>2 DEF Verifying, Take
    <3> HIDE DEF c
    <3>2. Is(st', "active", s.source, s.attempts, c.confirmations, s)
      BY <1>c, <2>1, <3>1 DEF Is, StateType
    <3> QED
      BY <1>0, <2>1, <2>2, <3>1, <3>2
      DEF Activated, Moves, Sane, Is, Published, SearchKept
  <2>3. CASE ~Activates(s, n) /\ Take("wait", c)
    <3>1. st' = c /\ decision' = "wait"
      BY <2>3 DEF Take
    <3>2. st'.confirmations = Confirmed(s, n).confirmations
      BY <3>1
    <3> HIDE DEF c
    <3> QED
      BY <1>0, <1>c, <2>1, <2>3, <3>1, <3>2
      DEF Waits, Moves, Sane, Is, Published, SearchKept
  <2>4. CASE ~Activates(s, n) /\ Search(c, n)
    <3> HIDE DEF c
    <3>1. CASE Query(c) /\ EnableGlobal(n.mode)
      BY <1>c, <2>1, <2>4, <3>1, QueryKept DEF Moves
    <3>2. CASE Operator(c)
      <4>1. c \in StateType
        BY <1>c, <2>1 DEF Is
      <4> QED
        BY <1>0, <1>c, <2>1, <2>4, <3>2, <4>1, OperatorState
        DEF HandsOver, Moves, Sane, Is, Published, SearchKept
    <3> QED
      BY <2>4, <3>1, <3>2 DEF Search
  <2> QED
    BY <1>7, <2>2, <2>3, <2>4 DEF Verifying
<1> QED
  BY <1>1, <1>2, <1>3, <1>4, <1>5, <1>6, <1>7 DEF DecideStartup

-----------------------------------------------------------------------------
(* Types.                                                                  *)

HistType ==
  [globals: Nat, saveds: Nat, goodSince: 0..VerificationSamples,
   seen: SUBSET Replies, boots: Nat]

TypeInv ==
  /\ Sane(st) /\ node \in NodeType /\ hist \in HistType
  /\ node.scorer => node.tries < PreverifyAttempts
  /\ scan \in 0..MaxStamp /\ g2scan \in 0..MaxStamp
  /\ map \in Maps /\ file \in Maps \cup {None}

\* A start begins sane.
LEMMA InitialSane == Sane(InitialState)
<1>1. /\ 0 \in 0..(Longest + 1) /\ 0 \in 0..MaxAttempts /\ 0 \in 0..VerificationSamples
      /\ 0 \in 0..MaxStamp /\ None = 0
  BY ConstantTypes
<1>2. InitialState \in StateType
  BY <1>1 DEF InitialState, StateType
<1>3. /\ InitialState.name = "waiting_for_scan" /\ InitialState.source = ""
      /\ InitialState.agreed = 0 /\ InitialState.attempts = 0
      /\ InitialState.confirmations = 0
  BY DEF InitialState
<1>4. InitialState.agreed =< InitialState.attempts
  BY DEF InitialState
<1>5. InitialState.confirmations < VerificationSamples
  BY <1>3, NoneYet
<1> QED
  BY <1>2, <1>3, <1>4, <1>5 DEF Sane

\* What a launch gives the node.
LEMMA BootedType ==
  ASSUME NEW mode \in Modes, NEW saved \in Maps \cup {None}, NEW scorer \in BOOLEAN
  PROVE  /\ Booted(mode, saved, scorer) \in NodeType
         /\ Booted(mode, saved, scorer).scorer =>
              Booted(mode, saved, scorer).tries < PreverifyAttempts
         /\ Booted(mode, saved, scorer).saved = saved
         /\ Booted(mode, saved, scorer).mode = mode
<1>1. /\ 0 \in 0..PreverifyAttempts /\ None \in 0..MaxStamp
      /\ 0 \in 0..VerificationSamples /\ SaveInterval \in 0..SaveInterval
      /\ NoReply \in Replies /\ 0 < PreverifyAttempts
  BY ConstantTypes DEF NoReply, Replies
<1>2. (saved # None /\ ~PreverifySaved) \in BOOLEAN
      /\ (saved # None /\ PreverifySaved /\ scorer) \in BOOLEAN
  OBVIOUS
<1> QED
  BY <1>1, <1>2 DEF Booted, NodeType

LEMMA NoHistoryType ==
  /\ NoHistory \in HistType
  /\ NoHistory.globals = 0 /\ NoHistory.saveds = 0
BY ConstantTypes DEF NoHistory, HistType

\* A scan the node receives changes the cloud, the preverification and whether
\* a scan is ready.
LEMMA CloudType ==
  ASSUME TypeInv, scan < MaxStamp, OnCloud
  PROVE  /\ node' \in NodeType
         /\ node'.scorer => node'.tries < PreverifyAttempts
         /\ node'.mode = node.mode /\ node'.saved = node.saved
         /\ node'.sample = node.sample
<1>0. /\ node \in NodeType /\ scan + 1 \in 0..MaxStamp
      /\ node.tries \in 0..PreverifyAttempts /\ PreverifyAttempts \in Nat
  BY ConstantTypes DEF TypeInv, NodeType
<1>1. ASSUME NEW n \in NodeType, n.scorer => n.tries < PreverifyAttempts,
             n.mode = node.mode, n.saved = node.saved, n.sample = node.sample,
             node' = CloudSeen(n)
      PROVE  /\ node' \in NodeType
             /\ node'.scorer => node'.tries < PreverifyAttempts
             /\ node'.mode = node.mode /\ node'.saved = node.saved
             /\ node'.sample = node.sample
  <2> DEFINE r == n.scanReady \/ ~(AwaitsPreverification(n) /\ n.scorer)
             k == scan + 1
  <2>1. node' = [n EXCEPT !.cloud = k, !.scanReady = r]
    BY <1>1 DEF CloudSeen
  <2>2. r \in BOOLEAN /\ k \in 0..MaxStamp
    BY <1>0
  <2> HIDE DEF r, k
  <2> QED
    BY <1>1, <2>1, <2>2 DEF NodeType
<1>2. CASE AwaitsPreverification(node) /\ node.scorer
  <2>1. PICK accepted \in BOOLEAN :
          node' = CloudSeen(AfterPreverification(node, accepted))
    BY <1>2 DEF OnCloud
  <2> DEFINE t == node.tries + 1
             c == ~accepted /\ node.tries + 1 < PreverifyAttempts
             n == [node EXCEPT !.tries = t, !.preverified = accepted, !.scorer = c]
  <2>2. AfterPreverification(node, accepted) = n
    BY DEF AfterPreverification
  <2>3. t \in 0..PreverifyAttempts /\ c \in BOOLEAN /\ (c => t < PreverifyAttempts)
    BY <1>0, <1>2 DEF TypeInv
  <2> HIDE DEF t, c
  <2>4. /\ n \in NodeType /\ (n.scorer => n.tries < PreverifyAttempts)
        /\ n.mode = node.mode /\ n.saved = node.saved /\ n.sample = node.sample
    BY <1>0, <2>3 DEF NodeType
  <2> HIDE DEF n
  <2> QED
    BY <1>1, <2>1, <2>2, <2>4
<1>3. CASE ~(AwaitsPreverification(node) /\ node.scorer)
  BY <1>0, <1>1, <1>3 DEF OnCloud, TypeInv
<1> QED
  BY <1>2, <1>3

\* What the callbacks leave alone in the node.
NodeKept(n, m) ==
  /\ n \in NodeType /\ n.mode = m.mode /\ n.saved = m.saved
  /\ n.scorer = m.scorer /\ n.tries = m.tries

\* Saving changes the age of the last save and the file.
LEMMA SaveType ==
  ASSUME NEW n \in NodeType, map \in Maps, file \in Maps \cup {None}, MaybeSave(n)
  PROVE  NodeKept(node', n) /\ node'.sample = n.sample /\ file' \in Maps \cup {None}
<1>1. 0 \in 0..SaveInterval
  BY ConstantTypes
<1> QED
  BY <1>1 DEF MaybeSave, NodeKept, NodeType

\* The state _tick hands to the policy.
Aged == [st EXCEPT !.waited = Least(@ + 1, Longest + 1)]

LEMMA AgedState ==
  ASSUME TypeInv
  PROVE  /\ Sane(Aged)
         /\ Is(Aged, st.name, st.source, st.attempts, st.confirmations, st)
<1> DEFINE w == Least(st.waited + 1, Longest + 1)
<1>1. w \in 0..(Longest + 1)
  <2>1. st.waited \in 0..(Longest + 1) /\ Longest \in Nat
    BY ConstantTypes DEF TypeInv, Sane, StateType
  <2> QED
    BY <2>1 DEF Least
<1>2. Aged = [st EXCEPT !.waited = w]
  BY DEF Aged
<1> HIDE DEF w
<1>3. Is(Aged, st.name, st.source, st.attempts, st.confirmations, st)
  BY <1>1, <1>2 DEF TypeInv, Sane, Is, StateType
<1> QED
  BY <1>3 DEF TypeInv, Sane, Is

\* A tick is a move of the start, and forgets what it has seen.
LEMMA TickMoves ==
  ASSUME TypeInv, Tick
  PROVE  /\ Sane(st') /\ Moves(Aged, node)
         /\ NodeKept(node', node) /\ node'.sample = "none"
         /\ hist' \in HistType
         /\ hist'.globals = IF decision' = "publish_global" THEN hist.globals + 1
                            ELSE hist.globals
         /\ hist'.saveds = IF decision' = "publish_saved" THEN hist.saveds + 1
                           ELSE hist.saveds
         /\ hist'.goodSince =
              IF Published \/ (st'.source = "explicit" /\ st.source = "")
              THEN 0 ELSE hist.goodSince
         /\ hist'.seen = IF Usable(node.pending) THEN hist.seen \cup {node.pending}
                         ELSE hist.seen
<1>0. /\ node \in NodeType /\ node.pending \in Replies
      /\ node.sample \in {"none", "good", "bad"} /\ node.saveAge \in 0..SaveInterval
  BY DEF TypeInv, NodeType
<1>1. DecideStartup(Aged, node) /\ NodeAfterTick(Forgotten(node)) /\ Remember(node)
  BY DEF Tick, Aged
<1>2. Sane(st') /\ Moves(Aged, node)
  BY <1>0, <1>1, AgedState, DecisionMoves
<1>3. NodeKept(node', node) /\ node'.sample = "none"
  <2> DEFINE a == Least(node.saveAge + 1, SaveInterval)
             n == Forgotten(node)
  <2>1. a \in 0..SaveInterval /\ NoReply \in Replies
    <3>1. a \in 0..SaveInterval
      BY <1>0, ConstantTypes DEF Least
    <3>2. NoReply \in Replies
      BY ConstantTypes DEF NoReply, Replies
    <3> QED
      BY <3>1, <3>2
  <2>2. n = [node EXCEPT !.pending = NoReply, !.sample = "none", !.saveAge = a]
    BY DEF Forgotten
  <2> HIDE DEF a, n
  <2>3. NodeKept(n, node) /\ n.sample = "none"
    BY <1>0, <2>1, <2>2 DEF NodeKept, NodeType
  <2>4. node' = n \/ node' = [n EXCEPT !.inFlight = TRUE]
    BY <1>1 DEF NodeAfterTick, n
  <2> QED
    BY <2>3, <2>4 DEF NodeKept, NodeType
<1>4. /\ hist' \in HistType
      /\ hist'.globals = IF decision' = "publish_global" THEN hist.globals + 1
                         ELSE hist.globals
      /\ hist'.saveds = IF decision' = "publish_saved" THEN hist.saveds + 1
                        ELSE hist.saveds
      /\ hist'.goodSince =
           IF Published \/ (st'.source = "explicit" /\ st.source = "")
           THEN 0 ELSE hist.goodSince
      /\ hist'.seen = IF Usable(node.pending) THEN hist.seen \cup {node.pending}
                      ELSE hist.seen
  <2> DEFINE g == IF decision' = "publish_global" THEN hist.globals + 1 ELSE hist.globals
             v == IF decision' = "publish_saved" THEN hist.saveds + 1 ELSE hist.saveds
             o == IF Published \/ (st'.source = "explicit" /\ st.source = "")
                  THEN 0 ELSE hist.goodSince
             e == IF Usable(node.pending) THEN hist.seen \cup {node.pending}
                  ELSE hist.seen
  <2>1. hist \in HistType
    BY DEF TypeInv
  <2>2. g \in Nat /\ v \in Nat /\ o \in 0..VerificationSamples
    <3>1. /\ hist.globals \in Nat /\ hist.saveds \in Nat
          /\ hist.goodSince \in 0..VerificationSamples
      BY <2>1 DEF HistType
    <3>2. g \in Nat /\ v \in Nat
      BY <3>1
    <3>3. o \in 0..VerificationSamples
      <4>1. o \in {0, hist.goodSince}
        OBVIOUS
      <4>2. 0 \in 0..VerificationSamples
        BY ConstantTypes
      <4> QED
        BY <3>1, <4>1, <4>2
    <3> QED
      BY <3>2, <3>3
  <2>3. e \in SUBSET Replies
    BY <1>0, <2>1 DEF HistType
  <2>4. hist' = [hist EXCEPT !.globals = g, !.saveds = v, !.goodSince = o, !.seen = e]
    BY <1>1 DEF Remember
  <2> HIDE DEF g, v, o, e
  <2>5. /\ hist' \in HistType /\ hist'.globals = g /\ hist'.saveds = v
        /\ hist'.goodSince = o /\ hist'.seen = e
    BY <2>1, <2>2, <2>3, <2>4 DEF HistType
  <2> QED
    BY <2>5 DEF g, v, o, e
<1> QED
  BY <1>2, <1>3, <1>4

\* A status sample is one more good one, or none.
LEMMA AlignmentType ==
  ASSUME TypeInv, OnAlignment
  PROVE  /\ NodeKept(node', node) /\ file' \in Maps \cup {None} /\ hist' \in HistType
         /\ hist'.globals = hist.globals /\ hist'.saveds = hist.saveds
         /\ hist'.seen = hist.seen
         /\ \/ node'.sample = "bad" /\ hist'.goodSince = hist.goodSince
            \/ /\ node'.sample = "good"
               /\ hist'.goodSince = Least(hist.goodSince + 1, VerificationSamples)
<1>0. /\ node \in NodeType /\ hist \in HistType
      /\ node.stable \in 0..VerificationSamples
      /\ hist.goodSince \in 0..VerificationSamples
  BY DEF TypeInv, NodeType, HistType
<1>1. PICK good \in BOOLEAN :
        /\ MaybeSave(WithSample(node, good))
        /\ hist' = IF good
                   THEN [hist EXCEPT !.goodSince = Least(@ + 1, VerificationSamples)]
                   ELSE hist
  BY DEF OnAlignment
<1> DEFINE k == IF good THEN Least(node.stable + 1, VerificationSamples) ELSE 0
           g == Least(hist.goodSince + 1, VerificationSamples)
           w == IF good THEN "good" ELSE "bad"
           n == [node EXCEPT !.sample = w, !.stable = k]
<1>2. k \in 0..VerificationSamples /\ g \in 0..VerificationSamples
  BY <1>0, ConstantTypes DEF Least
<1>3. WithSample(node, good) = n
  BY DEF WithSample
<1> HIDE DEF k, g
<1>4. n \in NodeType /\ NodeKept(n, node) /\ n.sample = w
  BY <1>0, <1>2 DEF NodeType, NodeKept
<1> HIDE DEF n
<1>5. NodeKept(node', n) /\ node'.sample = w /\ file' \in Maps \cup {None}
  BY <1>1, <1>3, <1>4, SaveType DEF TypeInv
<1>6. hist' = IF good THEN [hist EXCEPT !.goodSince = g] ELSE hist
  BY <1>1 DEF g
<1>7. /\ hist' \in HistType /\ hist'.globals = hist.globals
      /\ hist'.saveds = hist.saveds /\ hist'.seen = hist.seen
      /\ hist'.goodSince = IF good THEN g ELSE hist.goodSince
  BY <1>0, <1>2, <1>6 DEF HistType
<1> QED
  BY <1>4, <1>5, <1>7 DEF NodeKept, g

\* The callbacks other than a status and the tick.
LEMMA OtherType ==
  ASSUME TypeInv, Scan \/ OnPose \/ QueryAnswered \/ QueryFailed
  PROVE  /\ TypeInv' /\ UNCHANGED <<st, map, hist>>
         /\ node'.mode = node.mode /\ node'.saved = node.saved
         /\ node'.sample = node.sample
<1>0. /\ node \in NodeType
      /\ node.scorer => node.tries < PreverifyAttempts
  BY DEF TypeInv
<1>1. CASE Scan
  <2>1. scan' \in 0..MaxStamp /\ g2scan' \in 0..MaxStamp
    BY <1>1, ConstantTypes DEF Scan, TypeInv
  <2>2. /\ node' \in NodeType /\ (node'.scorer => node'.tries < PreverifyAttempts)
        /\ node'.mode = node.mode /\ node'.saved = node.saved
        /\ node'.sample = node.sample
    <3>1. CASE OnCloud
      BY <1>1, <3>1, CloudType DEF Scan
    <3>2. CASE node' = node
      BY <1>0, <3>2
    <3> QED
      BY <1>1, <3>1, <3>2 DEF Scan
  <2> QED
    BY <1>1, <2>1, <2>2 DEF Scan, TypeInv
<1>2. CASE OnPose
  <2>1. PICK frame \in {"global", "foreign"} : MaybeSave([node EXCEPT !.latestPose = frame])
    BY <1>2 DEF OnPose
  <2> DEFINE n == [node EXCEPT !.latestPose = frame]
  <2>2. n \in NodeType
    BY <1>0 DEF NodeType
  <2>4. /\ n.mode = node.mode /\ n.saved = node.saved /\ n.sample = node.sample
        /\ n.scorer = node.scorer /\ n.tries = node.tries
    BY <1>0 DEF NodeType
  <2> HIDE DEF n
  <2>3. NodeKept(node', n) /\ node'.sample = n.sample /\ file' \in Maps \cup {None}
    BY <2>1, <2>2, SaveType DEF TypeInv, n
  <2> QED
    BY <1>0, <1>2, <2>2, <2>3, <2>4 DEF OnPose, TypeInv, NodeKept
<1>3. CASE QueryAnswered
  <2>1. PICK stamp \in {g2scan, None} :
          \E reply \in {Rejection(stamp)} \cup {GoodReply(p, stamp) : p \in Poses} :
            node' = [node EXCEPT !.inFlight = FALSE, !.lastScan = stamp,
                                 !.pending = reply]
    BY <1>3 DEF QueryAnswered
  <2>2. PICK reply \in {Rejection(stamp)} \cup {GoodReply(p, stamp) : p \in Poses} :
          node' = [node EXCEPT !.inFlight = FALSE, !.lastScan = stamp,
                               !.pending = reply]
    BY <2>1
  <2>3. stamp \in 0..MaxStamp
    BY ConstantTypes DEF TypeInv
  <2>4. reply \in Replies
    BY <2>3 DEF Replies, Rejection, GoodReply
  <2>5. /\ node' \in NodeType /\ (node'.scorer => node'.tries < PreverifyAttempts)
        /\ node'.mode = node.mode /\ node'.saved = node.saved
        /\ node'.sample = node.sample
    <3>1. node' \in NodeType
      BY <1>0, <2>2, <2>3, <2>4 DEF NodeType
    <3>2. /\ node'.mode = node.mode /\ node'.saved = node.saved
          /\ node'.sample = node.sample
          /\ node'.scorer = node.scorer /\ node'.tries = node.tries
      BY <1>0, <2>2, <2>3, <2>4 DEF NodeType
    <3> QED
      BY <1>0, <3>1, <3>2
  <2> QED
    BY <1>3, <2>5 DEF QueryAnswered, TypeInv
<1>4. CASE QueryFailed
  <2>1. Rejection(None) \in Replies
    BY ConstantTypes DEF Rejection, Replies
  <2>2. node' = [node EXCEPT !.inFlight = FALSE, !.pending = Rejection(None)]
    BY <1>4 DEF QueryFailed
  <2>3. /\ node' \in NodeType /\ (node'.scorer => node'.tries < PreverifyAttempts)
        /\ node'.mode = node.mode /\ node'.saved = node.saved
        /\ node'.sample = node.sample
    <3>1. node' \in NodeType
      BY <1>0, <2>1, <2>2 DEF NodeType
    <3>2. /\ node'.mode = node.mode /\ node'.saved = node.saved
          /\ node'.sample = node.sample
          /\ node'.scorer = node.scorer /\ node'.tries = node.tries
      BY <1>0, <2>1, <2>2 DEF NodeType
    <3> QED
      BY <1>0, <3>1, <3>2
  <2> QED
    BY <1>4, <2>3 DEF QueryFailed, TypeInv
<1> QED
  BY <1>1, <1>2, <1>3, <1>4

\* A launch starts from scratch, with a pose of the map it finds.
LEMMA LaunchType ==
  ASSUME TypeInv, Restart
  PROVE  /\ TypeInv' /\ st' = InitialState
         /\ hist'.globals = 0 /\ hist'.saveds = 0
         /\ node'.saved # None => node'.saved = map' /\ Restores(node'.mode)
<1>1. PICK mode \in Modes, scorer \in BOOLEAN, expired \in BOOLEAN :
        node' = Booted(mode,
                       IF Restores(mode) /\ Loadable(file, map') /\ ~expired
                       THEN file ELSE None, scorer)
  BY DEF Restart, Boot
<1> DEFINE v == IF Restores(mode) /\ Loadable(file, map') /\ ~expired
                THEN file ELSE None
<1>2. /\ v \in Maps \cup {None}
      /\ v # None => v = map' /\ Restores(mode)
  BY DEF Loadable, TypeInv
<1> HIDE DEF v
<1>3. /\ node' \in NodeType /\ (node'.scorer => node'.tries < PreverifyAttempts)
      /\ node'.saved = v /\ node'.mode = mode
  BY <1>1, <1>2, BootedType DEF v
<1> DEFINE b == hist.boots + 1
<1>4. b \in Nat
  BY DEF TypeInv, HistType
<1>5. hist' = [NoHistory EXCEPT !.boots = b]
  BY DEF Restart
<1> HIDE DEF b
<1>6. hist' \in HistType /\ hist'.globals = 0 /\ hist'.saveds = 0
  BY <1>4, <1>5, NoHistoryType DEF HistType
<1>7. st' = InitialState /\ scan' = None /\ g2scan' = None /\ map' \in Maps
      /\ file' = file
  BY DEF Restart
<1>8. TypeInv'
  BY <1>3, <1>6, <1>7, InitialSane, ConstantTypes DEF TypeInv
<1> QED
  BY <1>2, <1>3, <1>6, <1>7, <1>8

\* Types are kept by every step.
LEMMA TypeStep == TypeInv /\ [Next]_vars => TypeInv'
<1> SUFFICES ASSUME TypeInv, [Next]_vars PROVE TypeInv'
  OBVIOUS
<1>1. CASE Scan \/ OnPose \/ QueryAnswered \/ QueryFailed
  BY <1>1, OtherType
<1>2. CASE OnAlignment
  BY <1>2, AlignmentType DEF OnAlignment, TypeInv, NodeKept
<1>3. CASE Tick
  BY <1>3, TickMoves DEF Tick, TypeInv, NodeKept
<1>4. CASE Restart
  BY <1>4, LaunchType
<1>5. CASE UNCHANGED vars
  BY <1>5 DEF vars, TypeInv
<1> QED
  BY <1>1, <1>2, <1>3, <1>4, <1>5 DEF Next

LEMMA TypeInit == Init => TypeInv
<1> SUFFICES ASSUME Init PROVE TypeInv
  OBVIOUS
<1>1. map \in Maps
  BY StartupAssumption DEF Init
<1>2. node \in NodeType /\ (node.scorer => node.tries < PreverifyAttempts)
  <2>1. PICK mode \in Modes : node = Booted(mode, None, FALSE)
    BY DEF Init
  <2>2. None \in Maps \cup {None} /\ FALSE \in BOOLEAN
    OBVIOUS
  <2> QED
    BY <2>1, <2>2, BootedType
<1>3. /\ Sane(st) /\ hist \in HistType
      /\ scan \in 0..MaxStamp /\ g2scan \in 0..MaxStamp /\ file \in Maps \cup {None}
  BY InitialSane, NoHistoryType, ConstantTypes DEF Init
<1> QED
  BY <1>1, <1>2, <1>3 DEF TypeInv

\* Type correctness of the cold start: attempts and preverifications stay
\* within their budgets.
THEOREM StartupTypeCorrect == Spec => []StartupTypeOK
<1>1. TypeInv => StartupTypeOK
  BY DEF TypeInv, Sane, StartupTypeOK
<1> QED
  BY <1>1, TypeInit, TypeStep, PTL DEF Spec

-----------------------------------------------------------------------------
(* The saved pose and the budget.                                          *)

\* The pose the node restored is of the map it runs on, and was tried at most
\* once.
SavedInv ==
  /\ node.saved # None => node.saved = map /\ Restores(node.mode)
  /\ st.savedTried => node.saved # None
  /\ hist.saveds = IF st.savedTried THEN 1 ELSE 0

\* A search has one attempt it has not published for, and the first publication
\* cost ConsensusSamples of them.
BudgetInv ==
  /\ st.name = "querying_global" \/ hist.globals > 0 => EnableGlobal(node.mode)
  /\ hist.globals > 0 => hist.globals + ConsensusSamples - 1 =< st.attempts
  /\ st.name = "querying_global" /\ hist.globals > 0 =>
       hist.globals + ConsensusSamples =< st.attempts

\* What a launch resets in the policy's state.
LEMMA LaunchState ==
  ASSUME st' = InitialState
  PROVE  st'.name = "waiting_for_scan" /\ ~st'.savedTried
<1>1. /\ InitialState.name = "waiting_for_scan"
      /\ ~InitialState.savedTried
  BY DEF InitialState
<1> QED
  BY <1>1

LEMMA InitState ==
  ASSUME Init
  PROVE  /\ st.name = "waiting_for_scan" /\ ~st.savedTried
         /\ hist.globals = 0 /\ hist.saveds = 0
<1>1. /\ InitialState.name = "waiting_for_scan"
      /\ ~InitialState.savedTried
  BY DEF InitialState
<1>2. st = InitialState /\ hist = NoHistory
  BY DEF Init
<1> QED
  BY <1>1, <1>2, NoHistoryType

LEMMA SavedStep == TypeInv /\ SavedInv /\ [Next]_vars => SavedInv'
<1> SUFFICES ASSUME TypeInv, SavedInv, [Next]_vars PROVE SavedInv'
  OBVIOUS
<1>1. CASE Scan \/ OnPose \/ QueryAnswered \/ QueryFailed
  BY <1>1, OtherType DEF SavedInv
<1>2. CASE OnAlignment
  BY <1>2, AlignmentType DEF OnAlignment, SavedInv, NodeKept
<1>3. CASE Tick
  <2>1. Aged.savedTried = st.savedTried
    BY AgedState DEF Is
  <2>2. /\ Moves(Aged, node) /\ node'.saved = node.saved /\ node'.mode = node.mode
        /\ hist'.saveds = IF decision' = "publish_saved" THEN hist.saveds + 1
                          ELSE hist.saveds
        /\ map' = map
    BY <1>3, TickMoves DEF NodeKept, Tick
  <2>3. \/ decision' # "publish_saved" /\ st'.savedTried = st.savedTried
        \/ /\ decision' = "publish_saved" /\ node.saved # None
           /\ ~st.savedTried /\ st'.savedTried
    BY <2>1, <2>2
    DEF Moves, Waits, HandsOver, Activated, Asks, Tries, Announces, Published
  <2> QED
    BY <2>2, <2>3 DEF SavedInv
<1>4. CASE Restart
  <2>1. ~st'.savedTried
    BY <1>4, LaunchType, LaunchState
  <2> QED
    BY <1>4, <2>1, LaunchType DEF SavedInv
<1>5. CASE UNCHANGED vars
  BY <1>5 DEF vars, SavedInv
<1> QED
  BY <1>1, <1>2, <1>3, <1>4, <1>5 DEF Next

LEMMA SavedInit == Init => SavedInv
<1> SUFFICES ASSUME Init PROVE SavedInv
  OBVIOUS
<1>1. node.saved = None
  <2>1. PICK mode \in Modes : node = Booted(mode, None, FALSE)
    BY DEF Init
  <2> QED
    BY <2>1 DEF Booted
<1>2. hist.saveds = 0 /\ ~st.savedTried
  BY InitState
<1> QED
  BY <1>1, <1>2 DEF SavedInv

\* A restored pose is of the map the localizer runs on, whatever crashes, saves
\* and replaced maps came before.
THEOREM RestoredPoseIsOfThisMap == Spec => []RestoredForThisMap
<1>1. SavedInv => RestoredForThisMap
  BY DEF SavedInv, RestoredForThisMap
<1> QED
  BY <1>1, TypeInit, TypeStep, SavedInit, SavedStep, PTL DEF Spec

LEMMA BudgetStep == TypeInv /\ BudgetInv /\ [Next]_vars => BudgetInv'
<1> SUFFICES ASSUME TypeInv, BudgetInv, [Next]_vars PROVE BudgetInv'
  OBVIOUS
<1>1. CASE Scan \/ OnPose \/ QueryAnswered \/ QueryFailed
  BY <1>1, OtherType DEF BudgetInv
<1>2. CASE OnAlignment
  BY <1>2, AlignmentType DEF OnAlignment, BudgetInv, NodeKept
<1>3. CASE Tick
  <2>1. /\ Aged.name = st.name /\ Aged.attempts = st.attempts
        /\ Aged.agreed = st.agreed /\ Sane(Aged)
    BY AgedState DEF Is
  <2>2. /\ Moves(Aged, node) /\ node'.mode = node.mode
        /\ hist'.globals = IF decision' = "publish_global" THEN hist.globals + 1
                           ELSE hist.globals
    BY <1>3, TickMoves DEF NodeKept
  <2>3. /\ hist.globals \in Nat /\ st.attempts \in Nat /\ st.agreed \in Nat
        /\ ConsensusSamples \in Nat /\ ConsensusSamples >= 1
    BY ConstantTypes, StateFields DEF TypeInv, HistType, Sane
  <2>4. CASE Announces(Aged, node)
    <3>1. /\ st.name = "querying_global" /\ st'.name # "querying_global"
          /\ st'.attempts = st.attempts /\ hist'.globals = hist.globals + 1
          /\ st.agreed + 1 >= ConsensusSamples
      BY <2>1, <2>2, <2>3, <2>4 DEF Announces
    <3>2. st.agreed + 1 =< st.attempts
      BY <2>1, <3>1 DEF Sane
    <3>3. hist.globals + ConsensusSamples =< st.attempts
      BY <2>3, <3>1, <3>2 DEF BudgetInv
    <3> QED
      BY <2>2, <2>3, <3>1, <3>3 DEF BudgetInv
  <2>5. CASE Asks(Aged, node)
    <3>1. /\ st'.attempts = st.attempts + 1 /\ hist'.globals = hist.globals
          /\ EnableGlobal(node.mode)
      BY <2>1, <2>2, <2>5 DEF Asks, BudgetInv
    <3> QED
      BY <2>2, <2>3, <3>1 DEF BudgetInv
  <2>6. CASE ~Announces(Aged, node) /\ ~Asks(Aged, node)
    <3>1. /\ st'.attempts = st.attempts /\ hist'.globals = hist.globals
          /\ st'.name = "querying_global" => st.name = "querying_global"
      BY <2>1, <2>2, <2>6
      DEF Moves, Waits, HandsOver, Activated, Tries, Published
    <3> QED
      BY <2>2, <2>3, <3>1 DEF BudgetInv
  <2> QED
    BY <2>4, <2>5, <2>6
<1>4. CASE Restart
  <2>1. st'.name = "waiting_for_scan"
    BY <1>4, LaunchType, LaunchState
  <2> QED
    BY <1>4, <2>1, LaunchType DEF BudgetInv
<1>5. CASE UNCHANGED vars
  BY <1>5 DEF vars, BudgetInv
<1> QED
  BY <1>1, <1>2, <1>3, <1>4, <1>5 DEF Next

\* What the node publishes on its own stays within its budgets, for every
\* budget and every length of the consensus.
THEOREM PosesAreBounded == Spec => []AutomaticPosesBounded
<1>1. Init => BudgetInv
  BY InitState DEF BudgetInv
<1>2. TypeInv /\ SavedInv /\ BudgetInv => AutomaticPosesBounded
  <2> SUFFICES ASSUME TypeInv, SavedInv, BudgetInv PROVE AutomaticPosesBounded
    OBVIOUS
  <2>1. st.attempts =< MaxAttempts /\ hist.globals \in Nat
    BY StateFields DEF TypeInv, Sane, HistType
  <2>2. hist.saveds =< 1 /\ hist.saveds \in Nat
    BY DEF SavedInv
  <2>3. node.mode \in {"explicit", "manual"} => hist.globals = 0 /\ hist.saveds = 0
    BY <2>1 DEF SavedInv, BudgetInv, EnableGlobal, Restores
  <2> QED
    BY <2>1, <2>2, <2>3 DEF BudgetInv, AutomaticPosesBounded
<1> QED
  BY <1>1, <1>2, TypeInit, TypeStep, SavedInit, SavedStep, BudgetStep, PTL DEF Spec

-----------------------------------------------------------------------------
(* Verification.                                                           *)

\* Every confirmation is a good sample since the last pose, the one a tick has
\* not counted yet included.
FreshInv ==
  st.name = "verifying" =>
    \/ hist.goodSince >= VerificationSamples
    \/ st.confirmations + (IF node.sample = "good" THEN 1 ELSE 0) =< hist.goodSince

LEMMA FreshStep ==
  ASSUME TypeInv, FreshInv, [Next]_vars
  PROVE  /\ FreshInv'
         /\ st'.name = "active" /\ st.name \notin {"active", "needs_operator"} =>
              hist.goodSince >= VerificationSamples
<1>v. VerificationSamples \in Nat /\ VerificationSamples >= 1
  BY ConstantTypes
<1>g. hist.goodSince \in 0..VerificationSamples
  BY DEF TypeInv, HistType
<1>c. st.confirmations \in Nat
  BY StateFields DEF TypeInv, Sane
<1>0. /\ st.confirmations \in Nat /\ hist.goodSince \in Nat
      /\ VerificationSamples \in Nat /\ VerificationSamples >= 1
  BY <1>v, <1>g, <1>c
<1>1. CASE Scan \/ OnPose \/ QueryAnswered \/ QueryFailed
  BY <1>1, OtherType DEF FreshInv
<1>2. CASE OnAlignment
  <2>1. st' = st
    BY <1>2 DEF OnAlignment
  <2>2. CASE node'.sample = "bad" /\ hist'.goodSince = hist.goodSince
    BY <1>0, <2>1, <2>2 DEF FreshInv
  <2>3. CASE /\ node'.sample = "good"
             /\ hist'.goodSince = Least(hist.goodSince + 1, VerificationSamples)
    <3>1. \/ hist'.goodSince >= VerificationSamples
          \/ hist'.goodSince = hist.goodSince + 1
      BY <1>0, <2>3 DEF Least
    <3>2. \/ hist'.goodSince \in Nat /\ hist'.goodSince >= hist.goodSince
          \/ hist'.goodSince >= VerificationSamples
      BY <1>0, <3>1
    <3> QED
      BY <1>0, <2>1, <2>3, <3>1, <3>2 DEF FreshInv
  <2> QED
    BY <1>2, <2>1, <2>2, <2>3, AlignmentType
<1>3. CASE Tick
  <2> DEFINE s == Aged
             c == Confirmed(s, node).confirmations
  <2>1. /\ s.name = st.name /\ s.confirmations = st.confirmations
        /\ s.source = st.source /\ Sane(s)
    BY AgedState DEF Is
  <2>2. /\ Moves(s, node) /\ node'.sample = "none" /\ Sane(st')
        /\ hist'.goodSince =
             IF Published \/ (st'.source = "explicit" /\ st.source = "")
             THEN 0 ELSE hist.goodSince
    BY <1>3, TickMoves
  <2>3. /\ s.name # "active" =>
             c = IF node.sample = "none" THEN st.confirmations
                 ELSE IF node.sample = "good" THEN st.confirmations + 1 ELSE 0
        /\ s.name = "waiting_for_scan" => s.source = ""
        /\ s.name = "verifying" => s.source # ""
    BY <2>1, ConfirmedState DEF Sane
  <2>4. Activates(s, node) => node.sample # "none" /\ c >= VerificationSamples
    BY DEF Activates
  <2> HIDE DEF s, c
  <2>5. st.name = "verifying" /\ ~Published /\ st'.source = st.source =>
          hist'.goodSince = hist.goodSince
    BY <2>1, <2>2, <2>3
  <2>a. st.name = "verifying" => hist.goodSince >= VerificationSamples
                                  \/ c =< hist.goodSince
    <3> SUFFICES ASSUME st.name = "verifying"
                 PROVE  hist.goodSince >= VerificationSamples \/ c =< hist.goodSince
      OBVIOUS
    <3>0. s.name = "verifying"
      BY <2>1
    <3>4. s.name # "active"
      BY <3>0
    <3>5. c = IF node.sample = "none" THEN st.confirmations
                 ELSE IF node.sample = "good" THEN st.confirmations + 1 ELSE 0
      BY <2>3, <3>4
    <3>6. hist.goodSince >= VerificationSamples \/
          st.confirmations + (IF node.sample = "good" THEN 1 ELSE 0) =< hist.goodSince
      BY DEF FreshInv
    <3>1. CASE node.sample = "good"
      BY <1>0, <3>5, <3>6, <3>1
    <3>2. CASE node.sample = "none"
      BY <1>0, <3>5, <3>6, <3>2
    <3>3. CASE node.sample \notin {"good", "none"}
      BY <1>0, <3>5, <3>3
    <3> QED
      BY <3>1, <3>2, <3>3
  <2>b. st.name = "verifying" => c \in Nat
    <3> SUFFICES ASSUME st.name = "verifying" PROVE c \in Nat
      OBVIOUS
    <3>0. s.name = "verifying"
      BY <2>1
    <3>1. s.name # "active"
      BY <3>0
    <3>2. c = IF node.sample = "none" THEN st.confirmations
                 ELSE IF node.sample = "good" THEN st.confirmations + 1 ELSE 0
      BY <2>3, <3>1
    <3> QED
      BY <1>0, <3>2
  <2>6. CASE Waits(s, node)
    <3>1. /\ ~Published /\ st'.name = st.name /\ st'.source = st.source
          /\ st.name = "verifying" => st'.confirmations = c
      BY <2>1, <2>6 DEF Waits, c
    <3>2. st'.name = "verifying" => hist'.goodSince = hist.goodSince
                                    /\ st'.confirmations = c
      BY <2>5, <3>1
    <3>3. st'.name = "verifying" =>
            hist'.goodSince >= VerificationSamples \/ st'.confirmations =< hist'.goodSince
      BY <2>a, <3>1, <3>2
    <3>4. st'.name = "verifying" => st'.confirmations + 0 = st'.confirmations
      BY <2>b, <3>1, <3>2
    <3>5. FreshInv'
      BY <2>2, <3>3, <3>4 DEF FreshInv
    <3> QED
      BY <3>1, <3>5
  <2>7. CASE Activated(s, node)
    <3>1. /\ ~Published /\ st'.name = "active" /\ c >= VerificationSamples
          /\ node.sample # "none" /\ st.name \in {"verifying", "needs_operator"}
          /\ st.name = "verifying" => st'.source = st.source
      BY <2>1, <2>4, <2>7 DEF Activated
    <3>2. st.name = "verifying" => hist.goodSince >= VerificationSamples
      BY <1>0, <2>a, <2>b, <3>1
    <3> QED
      BY <3>1, <3>2 DEF FreshInv
  <2>8. CASE Tries(s, node) \/ Announces(s, node)
    <3>1. st'.name = "verifying" /\ st'.confirmations = 0 /\ hist'.goodSince = 0
      BY <2>1, <2>2, <2>3, <2>8 DEF Tries, Announces, Published
    <3>2. (IF node'.sample = "good" THEN 1 ELSE 0) = 0
      BY <2>2
    <3>3. st'.confirmations + (IF node'.sample = "good" THEN 1 ELSE 0) =< hist'.goodSince
      BY <3>1, <3>2
    <3>4. st'.name # "active"
      BY <3>1
    <3> QED
      BY <3>3, <3>4 DEF FreshInv
  <2>9. CASE HandsOver(s, node) \/ Asks(s, node)
    <3>1. st'.name \in {"needs_operator", "querying_global"}
      BY <2>9 DEF HandsOver, Asks
    <3> QED
      BY <3>1 DEF FreshInv
  <2> QED
    BY <2>2, <2>6, <2>7, <2>8, <2>9 DEF Moves
<1>4. CASE Restart
  <2>1. st'.name = "waiting_for_scan"
    BY <1>4, LaunchType, LaunchState
  <2> QED
    BY <2>1 DEF FreshInv
<1>5. CASE UNCHANGED vars
  BY <1>5 DEF vars, FreshInv
<1> QED
  BY <1>1, <1>2, <1>3, <1>4, <1>5 DEF Next

\* The node calls a pose it published verified only on samples that came after
\* it, for every number of samples asked for.
THEOREM ActiveAfterVerification == Spec => ActiveIsVerified
<1> DEFINE Verified == st'.name = "active" /\ st.name \notin {"active", "needs_operator"}
                         => hist.goodSince >= VerificationSamples
<1>1. Init => FreshInv
  BY InitState DEF FreshInv
<1>2. TypeInv /\ FreshInv /\ [Next]_vars => FreshInv' /\ [Verified]_vars
  BY FreshStep
<1> QED
  BY <1>1, <1>2, TypeInit, TypeStep, PTL DEF Spec, ActiveIsVerified

-----------------------------------------------------------------------------
(* Consensus.                                                              *)

\* c is a chain of k results among those seen: each of a later scan than the
\* one before it, and agreeing with it.
IsChain(c, k, seen) ==
  /\ c \in [1..k -> seen]
  /\ \A i \in 1..(k - 1) : c[i].stamp < c[i + 1].stamp /\ Agree(c[i].pose, c[i + 1].pose)

\* What the policy counts as agreed is a chain of that length, and its last
\* result is the one the policy remembers.
ConsensusInv ==
  st.agreed # 0 =>
    \E c : /\ IsChain(c, st.agreed, hist.seen)
           /\ c[st.agreed].pose = st.pose /\ c[st.agreed].stamp = st.stamp

\* A chain of one result.
LEMMA ChainStarts ==
  ASSUME NEW seen, NEW r \in seen
  PROVE  IsChain([i \in 1..1 |-> r], 1, seen)
BY DEF IsChain

\* A later result that agrees with the last one makes a chain longer by one.
LEMMA ChainGrows ==
  ASSUME NEW seen, NEW more, seen \subseteq more, NEW k \in Nat \ {0}, NEW c,
         IsChain(c, k, seen), NEW r \in more,
         c[k].stamp < r.stamp, Agree(c[k].pose, r.pose)
  PROVE  LET longer == [i \in 1..(k + 1) |-> IF i = k + 1 THEN r ELSE c[i]]
         IN  IsChain(longer, k + 1, more) /\ longer[k + 1] = r
<1> DEFINE longer == [i \in 1..(k + 1) |-> IF i = k + 1 THEN r ELSE c[i]]
<1>1. \A i \in 1..k : longer[i] = c[i] /\ c[i] \in seen
  BY DEF IsChain
<1>2. longer[k + 1] = r
  OBVIOUS
<1>3. longer \in [1..(k + 1) -> more]
  BY <1>1, <1>2
<1>4. ASSUME NEW i \in 1..((k + 1) - 1)
      PROVE  /\ longer[i].stamp < longer[i + 1].stamp
             /\ Agree(longer[i].pose, longer[i + 1].pose)
  <2>1. CASE i = k
    BY <1>1, <1>2, <2>1
  <2>2. CASE i # k
    <3>1. i \in 1..(k - 1) /\ i \in 1..k /\ i + 1 \in 1..k
      BY <2>2
    <3> HIDE DEF longer
    <3> QED
      BY <1>1, <3>1 DEF IsChain
  <2> QED
    BY <2>1, <2>2
<1> HIDE DEF longer
<1>5. IsChain(longer, k + 1, more)
  BY <1>3, <1>4 DEF IsChain
<1> QED
  BY <1>2, <1>5 DEF longer

\* The end of a chain is a chain.
LEMMA ChainEnd ==
  ASSUME NEW seen, NEW k \in Nat, NEW m \in 1..k, NEW c, IsChain(c, k, seen)
  PROVE  LET end == [i \in 1..m |-> c[i + (k - m)]]
         IN  IsChain(end, m, seen) /\ end[m] = c[k]
<1> DEFINE end == [i \in 1..m |-> c[i + (k - m)]]
<1>1. \A i \in 1..m : end[i] = c[i + (k - m)] /\ i + (k - m) \in 1..k
  OBVIOUS
<1>2. end \in [1..m -> seen]
  BY <1>1 DEF IsChain
<1>3. ASSUME NEW i \in 1..(m - 1)
      PROVE  end[i].stamp < end[i + 1].stamp /\ Agree(end[i].pose, end[i + 1].pose)
  <2>1. /\ i \in 1..m /\ i + 1 \in 1..m
        /\ i + (k - m) \in 1..(k - 1) /\ (i + 1) + (k - m) = (i + (k - m)) + 1
    OBVIOUS
  <2>2. end[i] = c[i + (k - m)] /\ end[i + 1] = c[(i + (k - m)) + 1]
    BY <1>1, <2>1
  <2> HIDE DEF end
  <2> QED
    BY <2>1, <2>2 DEF IsChain
<1>4. m \in 1..m /\ m + (k - m) = k
  OBVIOUS
<1>5. end[m] = c[k]
  BY <1>1, <1>4
<1> HIDE DEF end
<1> QED
  BY <1>2, <1>3, <1>5 DEF IsChain, end

\* A chain among what was seen is one among more.
LEMMA ChainKept ==
  ASSUME NEW seen, NEW more, seen \subseteq more, NEW k, NEW c, IsChain(c, k, seen)
  PROVE  IsChain(c, k, more)
BY DEF IsChain

\* Agreeing is symmetric.
LEMMA AgreeSymmetric ==
  ASSUME NEW p \in Nat, NEW q \in Nat, Agree(p, q)
  PROVE  Agree(q, p)
BY DEF Agree

\* The result under consideration ends a chain as long as the policy says.
LEMMA ExtendedChain ==
  ASSUME TypeInv, ConsensusInv, NEW k \in {1, st.agreed + 1}, Extends(Aged, node, k),
         hist'.seen = hist.seen \cup {node.pending}
  PROVE  \E c : IsChain(c, k, hist'.seen) /\ c[k] = node.pending
<1>0. /\ Aged.agreed = st.agreed /\ Aged.pose = st.pose /\ Aged.stamp = st.stamp
      /\ st.agreed \in Nat
  BY AgedState, StateFields DEF Is, TypeInv, Sane
<1>1. node.pending \in hist'.seen /\ hist.seen \subseteq hist'.seen
  OBVIOUS
<1>2. CASE k = 1
  <2>1. IsChain([i \in 1..1 |-> node.pending], 1, hist'.seen)
    BY <1>1, ChainStarts
  <2> QED
    BY <1>2, <2>1
<1>3. CASE k # 1
  <2>1. /\ st.agreed # 0 /\ k = st.agreed + 1 /\ ~SameScan(Aged, node)
        /\ Agree(node.pending.pose, st.pose)
    BY <1>0, <1>3 DEF Extends
  <2>2. PICK c : /\ IsChain(c, st.agreed, hist.seen)
                 /\ c[st.agreed].pose = st.pose /\ c[st.agreed].stamp = st.stamp
    BY <2>1 DEF ConsensusInv
  <2>r. node.pending \in Replies /\ st \in StateType
    BY DEF TypeInv, Sane, NodeType
  <2>n. node.pending.pose \in Poses \cup {None} /\ node.pending.stamp \in 0..MaxStamp
    BY <2>r DEF Replies
  <2>s. st.pose \in Poses \cup {None} /\ st.stamp \in 0..MaxStamp
    BY <2>r DEF StateType
  <2>3. node.pending.stamp \in Nat /\ st.stamp \in Nat
    BY <2>n, <2>s, ConstantTypes
  <2>4. c[st.agreed].stamp < node.pending.stamp
    BY <1>0, <2>1, <2>2, <2>3 DEF SameScan
  <2>p. \A p : p \in Poses \cup {None} => p \in Nat
    BY ConstantTypes
  <2>5. node.pending.pose \in Nat /\ st.pose \in Nat
    BY <2>n, <2>s, <2>p, Zenon
  <2>6. Agree(c[st.agreed].pose, node.pending.pose)
    BY <2>1, <2>2, <2>5, AgreeSymmetric
  <2>7. st.agreed \in Nat \ {0}
    BY <1>0, <2>1
  <2> DEFINE n == st.agreed
             r == node.pending
             more == hist'.seen
             longer == [i \in 1..(n + 1) |-> IF i = n + 1 THEN r ELSE c[i]]
  <2>8. IsChain(longer, n + 1, more) /\ longer[n + 1] = r
    <3>1. /\ IsChain(c, n, hist.seen) /\ n \in Nat \ {0} /\ r \in more
          /\ hist.seen \subseteq more
          /\ c[n].stamp < r.stamp /\ Agree(c[n].pose, r.pose)
      BY <1>1, <2>2, <2>4, <2>6, <2>7
    <3> HIDE DEF n, r, more
    <3> QED
      BY <3>1, ChainGrows
  <2> HIDE DEF longer
  <2> QED
    BY <2>1, <2>8
<1> QED
  BY <1>2, <1>3

\* What a tick makes of the count of the search.
LEMMA ConsensusTick ==
  ASSUME TypeInv, ConsensusInv, Tick
  PROVE  /\ ConsensusInv'
         /\ hist'.globals > hist.globals =>
              \E c : IsChain(c, ConsensusSamples, hist'.seen)
                     /\ c[ConsensusSamples] = node.pending
<1>0. /\ Aged.agreed = st.agreed /\ Aged.pose = st.pose /\ Aged.stamp = st.stamp
      /\ st.agreed \in Nat /\ hist.globals \in Nat
      /\ ConsensusSamples \in Nat /\ ConsensusSamples >= 1
  BY AgedState, StateFields, ConstantTypes DEF Is, TypeInv, Sane, HistType
<1>1. /\ Moves(Aged, node)
      /\ hist'.globals = IF decision' = "publish_global" THEN hist.globals + 1
                         ELSE hist.globals
      /\ hist'.seen = IF Usable(node.pending) THEN hist.seen \cup {node.pending}
                      ELSE hist.seen
  BY TickMoves
<1>2. hist.seen \subseteq hist'.seen
  BY <1>1
<1>3. ASSUME SearchKept(Aged) PROVE ConsensusInv'
  <2>1. st'.agreed = st.agreed /\ st'.pose = st.pose /\ st'.stamp = st.stamp
    BY <1>0, <1>3 DEF SearchKept
  <2> QED
    BY <1>2, <2>1, ChainKept DEF ConsensusInv
<1>4. ASSUME NEW k \in {1, st.agreed + 1}, Extends(Aged, node, k)
      PROVE  /\ ConsensusInv'
             /\ \E c : IsChain(c, k, hist'.seen) /\ c[k] = node.pending
  <2>1. /\ hist'.seen = hist.seen \cup {node.pending}
        /\ st'.agreed = k /\ st'.pose = node.pending.pose
        /\ st'.stamp = node.pending.stamp
    BY <1>1, <1>4 DEF Extends
  <2>2. PICK c : IsChain(c, k, hist'.seen) /\ c[k] = node.pending
    BY <1>4, <2>1, ExtendedChain
  <2> QED
    BY <2>1, <2>2 DEF ConsensusInv
<1>5. ConsensusInv'
  <2>1. \/ SearchKept(Aged) \/ Extends(Aged, node, 1)
        \/ Extends(Aged, node, st.agreed + 1)
    BY <1>0, <1>1 DEF Moves, Waits, HandsOver, Activated, Asks, Tries, Announces
  <2> QED
    BY <1>3, <1>4, <2>1
<1>6. ASSUME hist'.globals > hist.globals
      PROVE  \E c : IsChain(c, ConsensusSamples, hist'.seen)
                    /\ c[ConsensusSamples] = node.pending
  <2>1. decision' = "publish_global"
    BY <1>0, <1>1, <1>6
  <2>2. Announces(Aged, node)
    BY <1>1, <2>1 DEF Moves, Waits, HandsOver, Activated, Asks, Tries, Published
  <2>3. CASE ConsensusSamples = 1
    <3>1. node.pending \in hist'.seen
      BY <1>1, <2>2 DEF Announces
    <3>2. IsChain([i \in 1..1 |-> node.pending], 1, hist'.seen)
      BY <3>1, ChainStarts
    <3> QED
      BY <2>3, <3>2
  <2>4. CASE ConsensusSamples # 1
    <3> DEFINE k == st.agreed + 1
    <3>1. k >= ConsensusSamples /\ Extends(Aged, node, k) /\ k \in Nat
      BY <1>0, <2>2, <2>4 DEF Announces
    <3> HIDE DEF k
    <3>2. PICK c : IsChain(c, k, hist'.seen) /\ c[k] = node.pending
      BY <1>4, <3>1 DEF k
    <3>3. ConsensusSamples \in 1..k
      BY <1>0, <3>1
    <3> DEFINE end == [i \in 1..ConsensusSamples |-> c[i + (k - ConsensusSamples)]]
    <3>4. /\ IsChain(end, ConsensusSamples, hist'.seen)
          /\ end[ConsensusSamples] = c[k]
      BY <3>1, <3>2, <3>3, ChainEnd
    <3> HIDE DEF end
    <3> QED
      BY <3>2, <3>4
  <2> QED
    BY <2>3, <2>4
<1> QED
  BY <1>5, <1>6

LEMMA ConsensusStep ==
  ASSUME TypeInv, ConsensusInv, [Next]_vars
  PROVE  /\ ConsensusInv'
         /\ hist'.globals > hist.globals =>
              \E c : IsChain(c, ConsensusSamples, hist'.seen)
                     /\ c[ConsensusSamples] = node.pending
<1>0. hist.globals \in Nat
  BY DEF TypeInv, HistType
<1>1. CASE Scan \/ OnPose \/ QueryAnswered \/ QueryFailed
  BY <1>0, <1>1, OtherType DEF ConsensusInv
<1>2. CASE OnAlignment
  BY <1>0, <1>2, AlignmentType DEF OnAlignment, ConsensusInv
<1>3. CASE Tick
  BY <1>3, ConsensusTick
<1>4. CASE Restart
  <2>1. InitialState.agreed = 0
    BY DEF InitialState
  <2>2. st'.agreed = 0 /\ hist'.globals = 0
    BY <1>4, <2>1, LaunchType
  <2> QED
    BY <1>0, <2>2 DEF ConsensusInv
<1>5. CASE UNCHANGED vars
  BY <1>0, <1>5 DEF vars, ConsensusInv
<1> QED
  BY <1>1, <1>2, <1>3, <1>4, <1>5 DEF Next

\* A global candidate is published only as the end of a chain of agreeing results
\* of ConsensusSamples different scans, for every number of samples, across
\* interrupted searches, stale replies and restarts.
THEOREM CandidatesAreAgreed == Spec => PublishedByConsensus
<1> DEFINE Agreeing == hist'.globals > hist.globals =>
       \E chain \in [1..ConsensusSamples -> hist'.seen] :
         /\ chain[ConsensusSamples] = node.pending
         /\ \A i \in 1..(ConsensusSamples - 1) :
              /\ chain[i].stamp < chain[i + 1].stamp
              /\ Agree(chain[i].pose, chain[i + 1].pose)
<1>1. Init => ConsensusInv
  <2>1. InitialState.agreed = 0
    BY DEF InitialState
  <2> QED
    BY <2>1 DEF Init, ConsensusInv
<1>2. TypeInv /\ ConsensusInv /\ [Next]_vars => ConsensusInv' /\ [Agreeing]_vars
  BY ConsensusStep DEF IsChain
<1> QED
  BY <1>1, <1>2, TypeInit, TypeStep, PTL DEF Spec, PublishedByConsensus
=============================================================================
