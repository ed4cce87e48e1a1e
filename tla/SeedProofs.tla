----------------------------- MODULE SeedProofs -----------------------------
(***************************************************************************)
(* Proofs about the two halves of a seed: SeedMotion, where it is          *)
(* published, and ShadowMotionGate, whether it is.                         *)
(***************************************************************************)
EXTENDS SeedMotion, ShadowMotionGate, TLAPS, SequenceTheorems

(* Fractions.  A velocity or a distance is num / den.                      *)

Fractions == [num: Int, den: Nat]

\* Never faster than the fastest vehicle.
Moderate(v) ==
  v \in Fractions /\ v.num =< MaxSpeed * v.den /\ -v.num =< MaxSpeed * v.den

\* The velocity of the vehicle, if it is one.
Real(v) == Valid(v) => v.num = Speed * v.den

\* Never further than the fastest vehicle drives in the longest latency.
Near(d) ==
  /\ d \in Fractions
  /\ d.num =< MaxSpeed * MaxLatency * d.den /\ -d.num =< MaxSpeed * MaxLatency * d.den

LEMMA SeedConstants ==
  /\ Speed \in Int /\ MaxSpeed \in Nat /\ MaxLatency \in Nat /\ None \notin Int
  /\ VelocityMaxAge \in Nat /\ SkipFitness \in Nat
  /\ ScoreGate \in Nat /\ MinFixDt \in Nat /\ MinFixDt >= 1 /\ MaxFixDt \in Nat
  /\ ScanAges \subseteq Nat /\ PoseErrors \subseteq Int /\ Scoring \in BOOLEAN
BY SeedAssumption

\* Multiplying by a natural number keeps an order.
LEMMA Scales ==
  ASSUME NEW a \in Int, NEW b \in Int, a =< b, NEW t \in Nat
  PROVE  a * t =< b * t
<1>1. (b - a) * t >= 0
  OBVIOUS
<1> QED
  BY <1>1

\* A moderate velocity takes a seed no further than Near in the longest latency.
LEMMA TravelIsNear ==
  ASSUME NEW v, Moderate(v), NEW t \in Nat, t =< MaxLatency
  PROVE  Near(Travel(v, t))
<1> DEFINE n == v.num
           d == v.den
<1>1. n \in Int /\ d \in Nat /\ n =< MaxSpeed * d /\ -n =< MaxSpeed * d
  BY DEF Moderate, Fractions
<1>2. Travel(v, t) = [num |-> n * t, den |-> d]
  BY DEF Travel
<1> HIDE DEF n, d
<1>3. MaxSpeed \in Nat /\ MaxLatency \in Nat
  BY SeedConstants
<1> DEFINE m == MaxSpeed * d
<1>4. m \in Nat
  BY <1>1, <1>3
<1>5. m * MaxLatency = MaxSpeed * MaxLatency * d
  BY <1>1, <1>3
<1>6. n =< m /\ -n =< m /\ -n \in Int
  BY <1>1
<1> HIDE DEF m
<1>7. n * t =< m * t /\ (-n) * t =< m * t
  BY <1>1, <1>4, <1>6, Scales
<1>8. t * m =< MaxLatency * m
  BY <1>3, <1>4, Scales
<1>9. m * t =< m * MaxLatency /\ (-n) * t = -(n * t) /\ n * t \in Int
  BY <1>1, <1>3, <1>4, <1>8
<1>10. n * t =< MaxSpeed * MaxLatency * d /\ -(n * t) =< MaxSpeed * MaxLatency * d
  <2> DEFINE a == n * t
             b == m * t
             e == m * MaxLatency
             f == (-n) * t
  <2>1. a \in Int /\ b \in Int /\ e \in Int /\ f = -a
    BY <1>1, <1>3, <1>4, <1>9
  <2>2. a =< b /\ f =< b /\ b =< e /\ e = MaxSpeed * MaxLatency * d
    BY <1>5, <1>7, <1>9
  <2> HIDE DEF a, b, e, f
  <2>3. a =< e /\ -a =< e
    BY <2>1, <2>2
  <2> QED
    BY <2>2, <2>3 DEF a
<1> QED
  BY <1>1, <1>2, <1>9, <1>10 DEF Near, Fractions

\* A velocity between two points is moderate, and that of the vehicle if both
\* are where it was.
LEMMA VelocityOf ==
  ASSUME NEW p, NEW q, NEW minDt \in Nat, minDt >= 1,
         p.x \in Int, p.at \in Int, q.x \in Int, q.at \in Int
  PROVE  /\ Moderate(SeedVelocity(p, q, minDt))
         /\ (p.x = Speed * p.at /\ q.x = Speed * q.at) => Real(SeedVelocity(p, q, minDt))
<1> DEFINE v == SeedVelocity(p, q, minDt)
           dx == q.x - p.x
           dt == q.at - p.at
<1>0. MaxSpeed \in Nat /\ Speed \in Int
  BY SeedConstants
<1>1. CASE dt < minDt \/ Dist(q.x, p.x) > MaxSpeed * dt
  <2>1. v = [num |-> 0, den |-> 0]
    BY <1>1 DEF SeedVelocity, NoVelocity
  <2> HIDE DEF v
  <2>2. v.num = 0 /\ v.den = 0 /\ MaxSpeed * 0 = 0 /\ v \in Fractions
    BY <1>0, <2>1 DEF Fractions
  <2> QED
    BY <2>2 DEF Moderate, Real, Valid, v
<1>2. CASE ~(dt < minDt \/ Dist(q.x, p.x) > MaxSpeed * dt)
  <2>1. v = [num |-> dx, den |-> dt]
    BY <1>2 DEF SeedVelocity
  <2>2. dx \in Int /\ dt \in Int /\ MaxSpeed * dt \in Int
    BY <1>0
  <2>3. dt >= minDt /\ Dist(q.x, p.x) =< MaxSpeed * dt
    BY <1>2, <2>2 DEF Dist
  <2>4. dx =< MaxSpeed * dt /\ -dx =< MaxSpeed * dt
    BY <2>2, <2>3 DEF Dist
  <2>5. (p.x = Speed * p.at /\ q.x = Speed * q.at) => dx = Speed * dt
    BY <1>0
  <2> HIDE DEF v, dx, dt
  <2>6. v.num = dx /\ v.den = dt /\ v \in Fractions
    BY <2>1, <2>2, <2>3 DEF Fractions
  <2> QED
    BY <2>4, <2>5, <2>6 DEF Moderate, Real, v
<1> QED
  BY <1>1, <1>2

LEMMA NoVelocityOf == Moderate(NoVelocity) /\ Real(NoVelocity) /\ ~Valid(NoVelocity)
<1>1. MaxSpeed * 0 = 0
  BY SeedConstants
<1> QED
  BY <1>1 DEF NoVelocity, Moderate, Real, Valid, Fractions

LEMMA SimFixVelocityOf ==
  ASSUME NEW p, NEW q, p.x \in Int, p.at \in Int, q.x \in Int, q.at \in Int
  PROVE  /\ Moderate(SimFixVelocity(p, q))
         /\ (p.x = Speed * p.at /\ q.x = Speed * q.at) => Real(SimFixVelocity(p, q))
BY SeedConstants, VelocityOf, NoVelocityOf DEF SimFixVelocity

\* A seed that moves by t of the T seconds the vehicle has driven since the fix
\* lies between the fix and the vehicle.
Between(raw, by) ==
  Dist(by.num, 0) + Dist(raw * by.den + by.num, Here * by.den) = Dist(raw, Here) * by.den

LEMMA CatchesUp ==
  ASSUME NEW v, v \in Fractions, v.num = Speed * v.den, NEW at \in Int, now \in Int,
         NEW t \in Nat, t =< now - at, NEW raw, raw = Speed * at
  PROVE  Between(raw, Travel(v, t))
<1> DEFINE d == v.den
           a == Speed * d
           u == (now - at) - t
           n == a * t
           far == raw * d + n
           here == Here * d
<1>0. d \in Nat /\ Speed \in Int /\ u \in Nat /\ a \in Int /\ raw \in Int /\ Here \in Int
  BY SeedConstants DEF Fractions, Here
<1>1. Travel(v, t) = [num |-> n, den |-> d]
  BY DEF Travel
<1>2. here - far = a * u
  <2>1. here - far = Speed * now * d - (Speed * at * d + Speed * d * t)
    BY DEF Here
  <2>2. a * u = Speed * d * ((now - at) - t)
    OBVIOUS
  <2> QED
    BY <1>0, <2>1, <2>2
<1>3. here - raw * d = n + a * u
  <2> DEFINE r == raw * d
             w == a * u
  <2>1. /\ here \in Int /\ r \in Int /\ n \in Int /\ w \in Int
        /\ here - far = w /\ far = r + n
    BY <1>0, <1>2
  <2> HIDE DEF r, w, n, far, here
  <2>2. here - r = n + w
    BY <2>1
  <2> QED
    BY <2>2 DEF r, w
<1>4. n \in Int /\ far \in Int /\ here \in Int /\ a * u \in Int
  BY <1>0
<1>5. Dist(raw, Here) * d = Dist(raw * d, here)
  <2>1. CASE raw > Here
    <3>1. raw * d >= here
      BY <1>0, <2>1, Scales
    <3> QED
      BY <1>0, <1>4, <2>1, <3>1 DEF Dist
  <2>2. CASE raw =< Here
    <3>1. raw * d =< here
      BY <1>0, <2>2, Scales
    <3> QED
      BY <1>0, <1>4, <2>2, <3>1 DEF Dist
  <2> QED
    BY <1>0, <2>1, <2>2
<1>6. (n >= 0 /\ a * u >= 0) \/ (n =< 0 /\ a * u =< 0)
  <2>1. CASE a >= 0
    BY <1>0, <2>1
  <2>2. CASE a =< 0
    <3>1. a * t =< 0 * t /\ a * u =< 0 * u
      BY <1>0, <2>2, Scales
    <3> QED
      BY <1>0, <3>1
  <2> QED
    BY <1>0, <2>1, <2>2
<1>7. Dist(n, 0) + Dist(far, here) = Dist(raw * d, here)
  <2> DEFINE w == a * u
             r == raw * d
  <2>1. /\ n \in Int /\ w \in Int /\ far \in Int /\ here \in Int /\ r \in Int
        /\ here - far = w /\ here - r = n + w
        /\ (n >= 0 /\ w >= 0) \/ (n =< 0 /\ w =< 0)
    BY <1>0, <1>2, <1>3, <1>4, <1>6
  <2> HIDE DEF w, r, n, far, here
  <2> QED
    BY <2>1 DEF Dist, r
<1>8. Between(raw, [num |-> n, den |-> d])
  BY <1>5, <1>7 DEF Between
<1> QED
  BY <1>1, <1>8

-----------------------------------------------------------------------------
(* The list of a reply.                                                    *)

Candidates == [x: Int, bbs: Nat, fitness: Nat \cup {Diverged}]
Lists == UNION {[1..n -> Candidates] : n \in Nat}

\* Best first, in the score the supervisor reads.
BestFirst(list) ==
  \A i, j \in DOMAIN list : i < j => ScoreOf(list[i]) >= ScoreOf(list[j])

\* A candidate that the registration does not rank behind another one has the
\* better score, or the same.
LEMMA OrderIsScore ==
  ASSUME NEW c \in Candidates, NEW d \in Candidates, Scoring, ~Before(d, c)
  PROVE  ScoreOf(c) >= ScoreOf(d)
BY SeedConstants DEF Candidates, Before, ScoreOf, Greater

LEMMA BeforeIsStrict ==
  ASSUME NEW c \in Candidates, NEW d \in Candidates, Before(c, d)
  PROVE  ~Before(d, c)
BY DEF Candidates, Before

LEMMA FoundOf ==
  ASSUME NEW scan \in Int, NEW found \in Found(scan)
  PROVE  /\ \E n \in Nat : n >= 1 /\ found \in [1..n -> Candidates]
         /\ \A i, j \in DOMAIN found : i < j => found[i].bbs >= found[j].bbs
<1>1. PICK hits \in Hits :
        found = [i \in DOMAIN hits |-> [x |-> Speed * scan + hits[i].offset,
                                       bbs |-> hits[i].bbs, fitness |-> hits[i].fitness]]
  BY DEF Found
<1> DEFINE Hit == [offset: Int, bbs: Nat, fitness: Nat \cup {Diverged}]
<1>2. hits \in Seq(Hit) /\ hits # <<>>
  BY SeedAssumption
<1>3. Len(hits) \in Nat /\ Len(hits) >= 1 /\ DOMAIN hits = 1..Len(hits)
  BY <1>2
<1>4. \A i \in DOMAIN hits : hits[i] \in Hit
  <2> HIDE DEF Hit
  <2> QED
    BY <1>2
<1>5. \A i \in DOMAIN hits : found[i] \in Candidates /\ found[i].bbs = hits[i].bbs
  <2> TAKE i \in DOMAIN hits
  <2>1. hits[i] \in Hit
    BY <1>4
  <2>2. Speed * scan + hits[i].offset \in Int
    BY <2>1, SeedConstants
  <2> QED
    BY <1>1, <2>1, <2>2 DEF Candidates
<1>6. found \in [1..Len(hits) -> Candidates]
  BY <1>1, <1>3, <1>5
<1>7. \A i, j \in DOMAIN found : i < j => found[i].bbs >= found[j].bbs
  <2>1. \A i, j \in DOMAIN hits : i < j => hits[i].bbs >= hits[j].bbs
    BY SeedAssumption
  <2>2. DOMAIN found = DOMAIN hits
    BY <1>3, <1>6
  <2> QED
    BY <1>5, <2>1, <2>2
<1> QED
  BY <1>3, <1>6, <1>7

LEMMA RankedOf ==
  ASSUME NEW scan \in Int, NEW found \in Found(scan), NEW list \in Ranked(found)
  PROVE  list \in Lists /\ 1 \in DOMAIN list /\ BestFirst(list)
<1>1. PICK n \in Nat : n >= 1 /\ found \in [1..n -> Candidates]
  BY FoundOf
<1>2. CASE ~Scoring
  <2>1. list = found
    BY <1>2 DEF Ranked
  <2>2. BestFirst(found)
    BY <1>2, FoundOf DEF BestFirst, ScoreOf
  <2> QED
    BY <1>1, <2>1, <2>2 DEF Lists
<1>3. CASE Scoring
  <2>1. PICK o \in [1..n -> 1..n] :
          /\ list = [i \in 1..n |-> found[o[i]]]
          /\ \A i, j \in 1..n : i < j =>
               \/ Before(found[o[i]], found[o[j]])
               \/ ~Before(found[o[j]], found[o[i]]) /\ o[i] < o[j]
    BY <1>1, <1>3 DEF Ranked, ByRegistration
  <2>2. list \in [1..n -> Candidates] /\ \A i \in 1..n : list[i] = found[o[i]]
    BY <1>1, <2>1
  <2>3. \A i, j \in 1..n : i < j => ~Before(list[j], list[i])
    BY <2>1, <2>2, BeforeIsStrict
  <2>4. \A i, j \in 1..n : i < j => ScoreOf(list[i]) >= ScoreOf(list[j])
    BY <1>3, <2>2, <2>3, OrderIsScore
  <2> QED
    BY <1>1, <2>2, <2>4 DEF Lists, BestFirst
<1> QED
  BY <1>2, <1>3

-----------------------------------------------------------------------------
(* The invariant.                                                          *)

Points == [x: Int, at: Int]

\* Work of the service: the scan a query was started on.
Works == {w \in [scan: Int \cup {None}, age: Nat, start: Nat] :
           w.start =< now /\ (w.scan # None => w.scan = w.start - w.age)}

SeedTypeOK ==
  /\ now \in Nat /\ {episode, stable, honest} \subseteq BOOLEAN
  /\ lastSim \in Nat \cup {None}
  /\ tracker \in [held: Points \cup {None}, velocity: Fractions, at: Int \cup {None}]
  /\ inflight \in Seq(Works)
  /\ issue \in [at: Int \cup {None}, velocity: Fractions]
  /\ query \in [list: Lists, unread: BOOLEAN, issued: Int \cup {None},
                age: Nat \cup {None}, at: Nat \cup {None},
                velocity: Fractions, delta: Fractions \cup {None}]
  /\ simFix \in [fix: Points \cup {None}, velocity: Fractions]
  /\ prevFix \in Points \cup {None}

\* What is known of the velocity the tracker holds, and of the one taken from
\* it when a query was issued: moderate whatever the poses were; that of the
\* vehicle as long as the trusted poses were where it was; and measured on a
\* pair that no untrusted pose came between, since such a pose drops the held
\* one.
TrackerInv ==
  /\ lastSim # None => lastSim =< now
  /\ tracker.held # None => tracker.held.at =< now
  /\ Moderate(tracker.velocity) /\ Moderate(issue.velocity)
  /\ honest => /\ tracker.held # None => tracker.held.x = Speed * tracker.held.at
               /\ Real(tracker.velocity) /\ Real(issue.velocity)
  /\ doubt \in {"none", "since"}
  /\ doubt = "since" => tracker.held = None

\* The list in hand and the latest fix are of one reply: the fix is its first
\* candidate, at the time of its scan.
ReplyInv ==
  /\ BestFirst(query.list)
  /\ Moderate(query.velocity)
  /\ query.delta # None => Near(query.delta)
  /\ query.list # <<>> =>
       /\ query.age # None /\ query.at # None /\ query.at =< now
       /\ simFix.fix = At(query.list[1].x, query.at - query.age)
       /\ honest => query.list[1].x = Speed * (query.at - query.age)

\* As long as every fix was right, what is measured between fixes is true too.
FixInv ==
  /\ Moderate(simFix.velocity)
  /\ simFix.fix # None => simFix.fix.at =< now
  /\ honest => /\ Real(simFix.velocity)
               /\ simFix.fix # None => simFix.fix.x = Speed * simFix.fix.at
               /\ prevFix # None => prevFix.x = Speed * prevFix.at

SeedInv ==
  seed.via # "none" =>
    /\ Near(seed.by)
    /\ honest /\ seed.via \in {"sim", "velocity", "delta"} /\ seed.first =>
         Between(seed.raw, seed.by)

MotionInv == SeedTypeOK /\ TrackerInv /\ ReplyInv /\ FixInv /\ SeedInv

LEMMA EmptyList == <<>> \in Lists /\ BestFirst(<<>>)
<1>1. <<>> \in [1..0 -> Candidates]
  OBVIOUS
<1> QED
  BY <1>1 DEF Lists, BestFirst

LEMMA MotionInit == Init => MotionInv
<1> SUFFICES ASSUME Init PROVE MotionInv
  OBVIOUS
<1>1. NoVelocity \in Fractions
  BY DEF NoVelocity, Fractions
<1>2. SeedTypeOK
  <2>1. inflight \in Seq(Works)
    BY EmptySeq DEF Init
  <2>2. query \in [list: Lists, unread: BOOLEAN, issued: Int \cup {None},
                  age: Nat \cup {None}, at: Nat \cup {None},
                  velocity: Fractions, delta: Fractions \cup {None}]
    BY <1>1, EmptyList DEF Init, NoQuery
  <2>3. issue \in [at: Int \cup {None}, velocity: Fractions]
    BY <1>1 DEF Init, NoIssue
  <2> QED
    BY <1>1, <2>1, <2>2, <2>3 DEF Init, SeedTypeOK
<1>3. TrackerInv
  BY NoVelocityOf DEF Init, TrackerInv, NoIssue
<1>4. ReplyInv
  BY NoVelocityOf, EmptyList DEF Init, ReplyInv, NoQuery
<1>5. FixInv
  BY NoVelocityOf DEF Init, FixInv
<1>6. SeedInv
  BY DEF Init, SeedInv, NoSeed
<1> QED
  BY <1>2, <1>3, <1>4, <1>5, <1>6 DEF MotionInv

-----------------------------------------------------------------------------
(* The steps that publish nothing.                                         *)

\* Later, a query is work as before.
LEMMA WorksLater ==
  ASSUME SeedTypeOK, now' \in Nat, now' >= now
  PROVE  inflight \in Seq(Works')
<1>1. Works \subseteq Works'
  BY DEF SeedTypeOK, Works
<1> QED
  BY <1>1, SeqMonotonic DEF SeedTypeOK

LEMMA WaitStep == MotionInv /\ Wait => MotionInv'
<1> SUFFICES ASSUME MotionInv, Wait PROVE MotionInv'
  OBVIOUS
<1>0. now \in Nat /\ now' = now + 1
  BY DEF MotionInv, SeedTypeOK, Wait
<1>1. inflight \in Seq(Works')
  BY <1>0, WorksLater DEF MotionInv
<1>2. SeedTypeOK'
  BY <1>0, <1>1 DEF MotionInv, SeedTypeOK, Wait
<1>3. TrackerInv'
  BY <1>0 DEF MotionInv, SeedTypeOK, TrackerInv, Wait, Points
<1>4. ReplyInv'
  <2>1. query.list # <<>> => query.at \in Nat
    BY DEF MotionInv, SeedTypeOK, ReplyInv
  <2> QED
    BY <1>0, <2>1 DEF MotionInv, ReplyInv, Wait, BestFirst
<1>5. FixInv'
  BY <1>0 DEF MotionInv, SeedTypeOK, FixInv, Wait, Points
<1>6. SeedInv'
  BY DEF Wait, SeedInv, NoSeed
<1> QED
  BY <1>2, <1>3, <1>4, <1>5, <1>6 DEF MotionInv

LEMMA AlignmentStatusStep == MotionInv /\ OnAlignmentStatus => MotionInv'
BY DEF MotionInv, OnAlignmentStatus, SeedTypeOK, TrackerInv, ReplyInv, FixInv, SeedInv,
       NoSeed, BestFirst, Works, At, Points

LEMMA EpisodeBeginsStep == MotionInv /\ EpisodeBegins => MotionInv'
BY DEF MotionInv, EpisodeBegins, SeedTypeOK, TrackerInv, ReplyInv, FixInv, SeedInv,
       NoSeed, BestFirst, Works, At, Points

LEMMA EpisodeEndsStep == MotionInv /\ EpisodeEnds => MotionInv'
<1> SUFFICES ASSUME MotionInv, EpisodeEnds PROVE MotionInv'
  OBVIOUS
<1>0. /\ query' = NoQuery /\ prevFix' = None /\ episode' = FALSE /\ seed' = NoSeed
      /\ UNCHANGED <<now, lastSim, stable, tracker, inflight, issue, simFix, honest, doubt>>
  BY DEF EpisodeEnds
<1>1. query' \in [list: Lists, unread: BOOLEAN, issued: Int \cup {None},
                  age: Nat \cup {None}, at: Nat \cup {None},
                  velocity: Fractions, delta: Fractions \cup {None}]
  BY <1>0, EmptyList, NoVelocityOf DEF NoQuery, Moderate
<1>2. Works' = Works
  BY <1>0 DEF Works
<1>3. SeedTypeOK'
  BY <1>0, <1>1, <1>2 DEF MotionInv, SeedTypeOK
<1>4. TrackerInv'
  BY <1>0 DEF MotionInv, TrackerInv
<1>5. ReplyInv'
  BY <1>0, EmptyList, NoVelocityOf DEF ReplyInv, NoQuery
<1>6. FixInv'
  BY <1>0 DEF MotionInv, FixInv
<1>7. SeedInv'
  BY <1>0 DEF SeedInv, NoSeed
<1> QED
  BY <1>3, <1>4, <1>5, <1>6, <1>7 DEF MotionInv

\* What the tracker makes of a pose: of a trusted one, paired with the held one,
\* a moderate velocity, and that of the vehicle if both are where it was; of
\* another one, nothing, and the held pose is dropped.
LEMMA ObserveOf ==
  ASSUME SeedTypeOK, TrackerInv, NEW trusted \in BOOLEAN, NEW x \in Int
  PROVE  LET t == Observe(At(x, now), trusted) IN
         /\ t \in [held: Points \cup {None}, velocity: Fractions, at: Int \cup {None}]
         /\ t.held # None => t.held.at =< now
         /\ Moderate(t.velocity)
         /\ honest /\ (trusted => x = Here) =>
              /\ t.held # None => t.held.x = Speed * t.held.at
              /\ Real(t.velocity)
         /\ ~trusted => t.held = None
         /\ trusted /\ tracker.held = None => t.at = tracker.at
<1> DEFINE p == At(x, now)
           Shape == [held: Points \cup {None}, velocity: Fractions, at: Int \cup {None}]
<1>0. /\ p \in Points /\ p.x = x /\ p.at = now /\ now \in Int /\ now =< now
      /\ tracker \in Shape
  BY DEF SeedTypeOK, At, Points
<1>1. ASSUME NEW v, Moderate(v)
      PROVE  /\ Trust(v, p) \in Shape
             /\ Trust(v, p).held = p
             /\ Moderate(Trust(v, p).velocity)
             /\ honest /\ Real(v) => Real(Trust(v, p).velocity)
             /\ ~Valid(v) => Trust(v, p).at = tracker.at
  BY <1>0, <1>1 DEF Trust, TrackerInv, Moderate
<1>2. CASE ~trusted
  <2>1. Observe(p, trusted) = [tracker EXCEPT !.held = None]
    BY <1>2 DEF Observe
  <2>2. /\ [tracker EXCEPT !.held = None] \in Shape
        /\ [tracker EXCEPT !.held = None].held = None
        /\ [tracker EXCEPT !.held = None].velocity = tracker.velocity
    BY <1>0
  <2> QED
    BY <1>2, <2>1, <2>2 DEF TrackerInv
<1>3. CASE trusted
  <2>0. /\ (x = Here => p.x = Speed * p.at) /\ Observe(p, trusted) = ObserveTrusted(p)
    BY <1>0, <1>3 DEF Observe, Here
  <2>1. CASE tracker.held = None
    <3>1. ObserveTrusted(p) = Trust(NoVelocity, p)
      BY <2>1 DEF ObserveTrusted
    <3>2. Observe(p, trusted) = Trust(NoVelocity, p)
      BY <2>0, <3>1
    <3>3. /\ Trust(NoVelocity, p) \in Shape
          /\ Trust(NoVelocity, p).held = p
          /\ Moderate(Trust(NoVelocity, p).velocity)
          /\ honest => Real(Trust(NoVelocity, p).velocity)
          /\ Trust(NoVelocity, p).at = tracker.at
      BY <1>1, NoVelocityOf
    <3> HIDE DEF p, Shape
    <3> QED
      BY <1>0, <1>3, <2>0, <3>2, <3>3 DEF p, Shape
  <2>2. CASE tracker.held # None /\ p.at - tracker.held.at < 1
    <3>1. ObserveTrusted(p) = tracker
      BY <2>2 DEF ObserveTrusted
    <3> QED
      BY <1>0, <1>3, <2>0, <2>2, <3>1 DEF TrackerInv
  <2>3. CASE tracker.held # None /\ ~(p.at - tracker.held.at < 1)
    <3> DEFINE v == SeedVelocity(tracker.held, p, 1)
    <3>1. Observe(p, trusted) = Trust(v, p)
      BY <2>0, <2>3 DEF ObserveTrusted
    <3>2. /\ tracker.held.x \in Int /\ tracker.held.at \in Int
          /\ honest => tracker.held.x = Speed * tracker.held.at
          /\ p.x \in Int /\ p.at \in Int
      BY <1>0, <2>3 DEF TrackerInv, Points
    <3>3. /\ Moderate(v)
          /\ honest /\ x = Here => Real(v)
      <4> HIDE DEF p
      <4> QED
        BY <2>0, <3>2, VelocityOf
    <3> HIDE DEF v
    <3>4. /\ Trust(v, p) \in Shape
          /\ Trust(v, p).held = p
          /\ Moderate(Trust(v, p).velocity)
          /\ honest /\ Real(v) => Real(Trust(v, p).velocity)
      BY <1>1, <3>3
    <3> HIDE DEF p, Shape
    <3> QED
      BY <1>0, <1>3, <2>0, <2>3, <3>1, <3>3, <3>4 DEF p, Shape
  <2> QED
    BY <2>1, <2>2, <2>3
<1> QED
  BY <1>2, <1>3

LEMMA PoseStep == MotionInv /\ OnPose => MotionInv'
<1> SUFFICES ASSUME MotionInv, OnPose PROVE MotionInv'
  OBVIOUS
<1> DEFINE trusted == stable /\ ~episode
<1>1. PICK error \in PoseErrors :
        /\ tracker' = Observe(At(Here + error, now), trusted)
        /\ honest' = (honest /\ (trusted => error = 0))
        /\ doubt' = DoubtAfter(trusted)
        /\ lastSim' = now /\ seed' = NoSeed
        /\ UNCHANGED <<now, episode, stable, inflight, issue, query, simFix, prevFix>>
  BY DEF OnPose
<1>2. /\ Here + error \in Int /\ (error = 0 => Here + error = Here)
      /\ now \in Nat /\ trusted \in BOOLEAN /\ honest \in BOOLEAN
  BY SeedConstants DEF MotionInv, SeedTypeOK, Here
<1> HIDE DEF trusted
<1>3. /\ tracker' \in [held: Points \cup {None}, velocity: Fractions, at: Int \cup {None}]
      /\ tracker'.held # None => tracker'.held.at =< now
      /\ Moderate(tracker'.velocity)
      /\ honest /\ (trusted => Here + error = Here) =>
           /\ tracker'.held # None => tracker'.held.x = Speed * tracker'.held.at
           /\ Real(tracker'.velocity)
      /\ ~trusted => tracker'.held = None
      /\ trusted /\ tracker.held = None => tracker'.at = tracker.at
  BY <1>1, <1>2, ObserveOf DEF MotionInv
<1>4. Works' = Works
  BY <1>1 DEF Works
<1>5. SeedTypeOK'
  BY <1>1, <1>2, <1>3, <1>4 DEF MotionInv, SeedTypeOK
<1>6. doubt' \in {"none", "since"} /\ (doubt' = "since" => tracker'.held = None)
  BY <1>1, <1>2, <1>3 DEF MotionInv, TrackerInv, DoubtAfter
<1>7. honest' => honest /\ (trusted => Here + error = Here)
  BY <1>1, <1>2
<1>8. TrackerInv'
  BY <1>1, <1>2, <1>3, <1>6, <1>7 DEF MotionInv, TrackerInv
<1>9. ReplyInv'
  BY <1>1, <1>7 DEF MotionInv, ReplyInv, BestFirst
<1>10. FixInv' /\ SeedInv'
  BY <1>1, <1>7 DEF MotionInv, FixInv, SeedInv, NoSeed
<1> QED
  BY <1>5, <1>8, <1>9, <1>10 DEF MotionInv

LEMMA IssueQueryStep == MotionInv /\ IssueQuery => MotionInv'
<1> SUFFICES ASSUME MotionInv, IssueQuery PROVE MotionInv'
  OBVIOUS
<1> DEFINE w == [scan |-> None, age |-> 0, start |-> now]
<1>0. /\ seed' = NoSeed /\ inflight' = Append(inflight, w)
      /\ issue' = [at |-> now, velocity |-> VelocityAt(now)]
      /\ UNCHANGED <<now, episode, lastSim, stable, tracker, query, simFix, prevFix, honest, doubt>>
  BY DEF IssueQuery
<1>1. now \in Nat /\ inflight \in Seq(Works) /\ Works' = Works
  BY <1>0 DEF MotionInv, SeedTypeOK, Works
<1>2. w \in Works
  BY <1>1 DEF Works
<1>3. inflight' \in Seq(Works)
  <2> HIDE DEF w
  <2> QED
    BY <1>0, <1>1, <1>2
<1>4. Moderate(VelocityAt(now)) /\ (honest => Real(VelocityAt(now)))
  BY NoVelocityOf DEF VelocityAt, MotionInv, TrackerInv
<1>5. SeedTypeOK'
  BY <1>0, <1>1, <1>3, <1>4 DEF MotionInv, SeedTypeOK, Moderate
<1>6. TrackerInv'
  BY <1>0, <1>4 DEF MotionInv, TrackerInv
<1>7. ReplyInv' /\ FixInv' /\ SeedInv'
  BY <1>0 DEF MotionInv, ReplyInv, FixInv, SeedInv, NoSeed, BestFirst
<1> QED
  BY <1>5, <1>6, <1>7 DEF MotionInv

LEMMA QueryStartsStep == MotionInv /\ QueryStarts => MotionInv'
<1> SUFFICES ASSUME MotionInv, QueryStarts PROVE MotionInv'
  OBVIOUS
<1>0. /\ seed' = NoSeed /\ inflight # <<>>
      /\ UNCHANGED <<now, episode, lastSim, stable, tracker, issue, query, simFix, prevFix, honest, doubt>>
  BY DEF QueryStarts
<1>1. PICK age \in ScanAges :
        /\ age =< now
        /\ inflight' = <<[scan |-> now - age, age |-> age, start |-> now]>> \o Tail(inflight)
  BY DEF QueryStarts
<1> DEFINE w == [scan |-> now - age, age |-> age, start |-> now]
<1>2. now \in Nat /\ age \in Nat /\ inflight \in Seq(Works) /\ Works' = Works
  BY <1>0, SeedConstants DEF MotionInv, SeedTypeOK, Works
<1>3. w \in Works
  BY <1>2 DEF Works
<1>4. inflight' \in Seq(Works)
  <2>1. Tail(inflight) \in Seq(Works)
    BY <1>0, <1>2, HeadTailProperties
  <2> HIDE DEF w
  <2>2. <<w>> \in Seq(Works)
    BY <1>3
  <2>3. <<w>> \o Tail(inflight) \in Seq(Works)
    BY <2>1, <2>2, ConcatProperties
  <2> QED
    BY <1>1, <2>3 DEF w
<1>5. SeedTypeOK'
  BY <1>0, <1>2, <1>4 DEF MotionInv, SeedTypeOK
<1>6. TrackerInv' /\ ReplyInv' /\ FixInv' /\ SeedInv'
  BY <1>0 DEF MotionInv, TrackerInv, ReplyInv, FixInv, SeedInv, NoSeed, BestFirst
<1> QED
  BY <1>5, <1>6 DEF MotionInv

LEMMA QueryFailsStep == MotionInv /\ QueryFails => MotionInv'
<1> SUFFICES ASSUME MotionInv, QueryFails PROVE MotionInv'
  OBVIOUS
<1>0. /\ seed' = NoSeed /\ inflight # <<>> /\ inflight' = Tail(inflight)
      /\ query' = [query EXCEPT !.list = <<>>, !.unread = TRUE, !.age = None, !.at = None]
      /\ simFix' = [simFix EXCEPT !.velocity = NoVelocity]
      /\ UNCHANGED <<now, episode, lastSim, stable, tracker, issue, prevFix, honest, doubt>>
  BY DEF QueryFails
<1>1. inflight \in Seq(Works) /\ Works' = Works
  BY <1>0 DEF MotionInv, SeedTypeOK, Works
<1>2. inflight' \in Seq(Works)
  BY <1>0, <1>1, HeadTailProperties
<1>3. /\ query' \in [list: Lists, unread: BOOLEAN, issued: Int \cup {None},
                     age: Nat \cup {None}, at: Nat \cup {None},
                     velocity: Fractions, delta: Fractions \cup {None}]
      /\ query'.list = <<>> /\ query'.velocity = query.velocity
      /\ query'.delta = query.delta
  BY <1>0, EmptyList DEF MotionInv, SeedTypeOK
<1>4. /\ simFix' \in [fix: Points \cup {None}, velocity: Fractions]
      /\ simFix'.fix = simFix.fix /\ simFix'.velocity = NoVelocity
  BY <1>0, NoVelocityOf DEF MotionInv, SeedTypeOK, Moderate
<1>5. SeedTypeOK'
  BY <1>0, <1>1, <1>2, <1>3, <1>4 DEF MotionInv, SeedTypeOK
<1>6. TrackerInv'
  BY <1>0 DEF MotionInv, TrackerInv
<1>7. ReplyInv'
  BY <1>3, EmptyList DEF MotionInv, ReplyInv
<1>8. FixInv'
  BY <1>0, <1>4, NoVelocityOf DEF MotionInv, FixInv
<1>9. SeedInv'
  BY <1>0 DEF SeedInv, NoSeed
<1> QED
  BY <1>5, <1>6, <1>7, <1>8, <1>9 DEF MotionInv

LEMMA QueryAnsweredStep == MotionInv /\ QueryAnswered => MotionInv'
<1> SUFFICES ASSUME MotionInv, QueryAnswered PROVE MotionInv'
  OBVIOUS
<1> DEFINE work == Head(inflight)
<1>0. /\ seed' = NoSeed /\ inflight # <<>> /\ inflight' = Tail(inflight)
      /\ work.scan # None /\ work.start < now
      /\ UNCHANGED <<now, episode, lastSim, stable, tracker, issue, prevFix, doubt>>
  BY DEF QueryAnswered
<1>1. now \in Nat /\ inflight \in Seq(Works) /\ Works' = Works
  BY <1>0 DEF MotionInv, SeedTypeOK, Works
<1>2. work \in Works /\ inflight' \in Seq(Works)
  BY <1>0, <1>1, HeadTailProperties
<1>3. /\ work.scan \in Int /\ work.age \in Nat /\ work.start \in Nat
      /\ work.scan = work.start - work.age
  BY <1>0, <1>2 DEF Works
<1>4. PICK found \in Found(work.scan) : \E list \in Ranked(found) :
        LET answer == Answer(work, list)
            top == answer.list[1]
        IN /\ query' = [query EXCEPT !.list = answer.list, !.unread = TRUE,
                          !.issued = issue.at, !.age = answer.age,
                          !.at = now, !.velocity = NoVelocity]
           /\ simFix' = SimFixWith(At(top.x, answer.stamp))
           /\ honest' = (honest /\ top.x = Speed * answer.stamp)
  BY DEF QueryAnswered
<1> DEFINE age == work.age + (now - work.start)
<1> HIDE DEF work
<1>5. PICK list \in Ranked(found) :
        /\ query' = [query EXCEPT !.list = list, !.unread = TRUE, !.issued = issue.at,
                       !.age = age, !.at = now, !.velocity = NoVelocity]
        /\ simFix' = SimFixWith(At(list[1].x, work.scan))
        /\ honest' = (honest /\ list[1].x = Speed * work.scan)
  BY <1>4 DEF Answer
<1>6. list \in Lists /\ 1 \in DOMAIN list /\ BestFirst(list)
  BY <1>3, RankedOf
<1>7. list[1] \in Candidates /\ list[1].x \in Int
  BY <1>6 DEF Lists, Candidates
<1>8. age \in Nat /\ now - age = work.scan /\ work.scan =< now
  BY <1>0, <1>1, <1>3
<1> HIDE DEF age
<1>9. /\ query' \in [list: Lists, unread: BOOLEAN, issued: Int \cup {None},
                     age: Nat \cup {None}, at: Nat \cup {None},
                     velocity: Fractions, delta: Fractions \cup {None}]
      /\ query'.list = list /\ query'.velocity = NoVelocity
      /\ query'.age = age /\ query'.at = now /\ query'.delta = query.delta
  BY <1>1, <1>5, <1>6, <1>8, NoVelocityOf DEF MotionInv, SeedTypeOK, Moderate
<1> DEFINE fix == At(list[1].x, work.scan)
<1>10. /\ fix \in Points /\ fix.x = list[1].x /\ fix.at = work.scan
       /\ fix.x \in Int /\ fix.at \in Int
  BY <1>3, <1>7 DEF At, Points
<1> DEFINE v == IF simFix.fix = None THEN NoVelocity ELSE SimFixVelocity(simFix.fix, fix)
<1>11. simFix' = [fix |-> fix, velocity |-> v]
  BY <1>5 DEF SimFixWith
<1>12. /\ Moderate(v)
       /\ honest' => Real(v)
  <2> HIDE DEF fix
  <2>1. CASE simFix.fix = None
    BY <2>1, NoVelocityOf
  <2>2. CASE simFix.fix # None
    <3>1. /\ simFix.fix.x \in Int /\ simFix.fix.at \in Int
          /\ honest => simFix.fix.x = Speed * simFix.fix.at
      BY <2>2 DEF MotionInv, SeedTypeOK, FixInv, Points
    <3>2. honest' => honest /\ fix.x = Speed * fix.at
      BY <1>5, <1>10
    <3>3. v = SimFixVelocity(simFix.fix, fix)
      BY <2>2
    <3> HIDE DEF v
    <3> QED
      BY <1>10, <3>1, <3>2, <3>3, SimFixVelocityOf
  <2> QED
    BY <2>1, <2>2
<1>13. simFix'.fix = fix /\ simFix'.velocity = v
  BY <1>11
<1> HIDE DEF fix, v
<1>14. SeedTypeOK'
  <2>1. simFix' \in [fix: Points \cup {None}, velocity: Fractions]
    BY <1>10, <1>11, <1>12 DEF Moderate
  <2>2. honest' \in BOOLEAN
    BY <1>5 DEF MotionInv, SeedTypeOK
  <2> QED
    BY <1>0, <1>1, <1>2, <1>9, <2>1, <2>2 DEF MotionInv, SeedTypeOK
<1>15. TrackerInv'
  BY <1>0, <1>5 DEF MotionInv, TrackerInv
<1>16. ReplyInv'
  <2>1. age # None /\ now # None /\ now =< now
    BY <1>1, <1>8, SeedConstants
  <2>4. honest' => list[1].x = Speed * (now - age)
    <3>1. honest' => list[1].x = Speed * work.scan
      BY <1>5
    <3> QED
      BY <1>8, <3>1
  <2>2. simFix'.fix = At(list[1].x, now - age)
    BY <1>8, <1>13 DEF fix
  <2>3. query.delta # None => Near(query.delta)
    BY DEF MotionInv, ReplyInv
  <2> QED
    BY <1>0, <1>6, <1>9, <2>1, <2>2, <2>3, <2>4, NoVelocityOf DEF ReplyInv
<1>17. FixInv'
  <2>1. fix # None => fix.at =< now
    BY <1>8, <1>10
  <2>2. honest' => /\ honest /\ fix.x = Speed * fix.at
                   /\ prevFix # None => prevFix.x = Speed * prevFix.at
    BY <1>5, <1>10 DEF MotionInv, FixInv
  <2> QED
    BY <1>0, <1>12, <1>13, <2>1, <2>2 DEF FixInv
<1>18. SeedInv'
  BY <1>0 DEF SeedInv, NoSeed
<1> QED
  BY <1>14, <1>15, <1>16, <1>17, <1>18 DEF MotionInv

-----------------------------------------------------------------------------
(* The step that publishes.                                                *)

\* What a move may be: within the bound, with the node's fields in order; and
\* as long as the fixes are right, between the candidate and the vehicle.
Fields(q) ==
  /\ q \in [list: Lists, unread: BOOLEAN, issued: Int \cup {None},
            age: Nat \cup {None}, at: Nat \cup {None},
            velocity: Fractions, delta: Fractions \cup {None}]
  /\ q.list = query.list /\ q.age = query.age /\ q.at = query.at
  /\ Moderate(q.velocity) /\ (q.delta # None => Near(q.delta))

Sound(m, first) ==
  /\ Fields(m.query) /\ Near(m.by)
  /\ m.prevFix \in Points \cup {None}
  /\ honest /\ m.prevFix # None => m.prevFix.x = Speed * m.prevFix.at
  /\ honest /\ first /\ m.via \in {"sim", "velocity", "delta"} =>
       Between(query.list[1].x, m.by)

LEMMA NowhereIsNear == Near(Nowhere)
<1>1. MaxSpeed * MaxLatency * 1 \in Nat
  BY SeedConstants
<1> QED
  BY <1>1 DEF Near, Nowhere, Fractions

\* The time the candidate in hand was true at, and how long ago that is.
LEMMA FixOf ==
  ASSUME MotionInv, query.list # <<>>
  PROVE  /\ now \in Nat /\ FixTime \in Int /\ FixTime =< now
         /\ Latency = now - FixTime
         /\ query.list[1].x \in Int
         /\ simFix.fix = At(query.list[1].x, FixTime)
         /\ honest => query.list[1].x = Speed * FixTime
         /\ Fields(query)
<1>1. /\ now \in Nat /\ query.age \in Nat /\ query.at \in Nat /\ query.age # None
      /\ query.at =< now /\ simFix.fix = At(query.list[1].x, query.at - query.age)
  BY DEF MotionInv, SeedTypeOK, ReplyInv
<1>2. FixTime = query.at - query.age /\ Latency = query.age + (now - query.at)
  BY <1>1 DEF FixTime, Latency
<1>3. query.list[1].x \in Int
  <2>1. query.list \in Lists
    BY DEF MotionInv, SeedTypeOK
  <2>2. PICK n \in Nat : query.list \in [1..n -> Candidates]
    BY <2>1 DEF Lists
  <2>3. n # 0
    <3>1. \A l \in [1..0 -> Candidates] : l = <<>>
      OBVIOUS
    <3> QED
      BY <2>2, <3>1
  <2> QED
    BY <2>2, <2>3 DEF Candidates
<1>4. Fields(query)
  BY DEF MotionInv, SeedTypeOK, ReplyInv, Fields
<1>5. honest => query.list[1].x = Speed * FixTime
  BY <1>2 DEF MotionInv, ReplyInv
<1>6. FixTime \in Int /\ FixTime =< now /\ Latency = now - FixTime
  BY <1>1, <1>2
<1>7. simFix.fix = At(query.list[1].x, FixTime)
  BY <1>1, <1>2
<1> QED
  BY <1>1, <1>3, <1>4, <1>5, <1>6, <1>7

\* The first kind of move: by the velocity between two fixes, for the time the
\* sensor clock has run since the second.
LEMMA SimMoveOf ==
  ASSUME MotionInv, query.list # <<>>, SimFixDelta # None
  PROVE  /\ Near(SimFixDelta)
         /\ honest => Between(query.list[1].x, SimFixDelta)
<1> DEFINE at == simFix.fix.at
           t == Lesser(lastSim - at, MaxLatency)
<1>1. /\ Valid(simFix.velocity) /\ lastSim # None /\ ~(lastSim =< at)
      /\ SimFixDelta = Travel(simFix.velocity, t)
  BY DEF SimFixDelta, SimFixTravel
<1>2. at = FixTime /\ at \in Int /\ now \in Nat
  BY FixOf DEF At
<1>3. lastSim \in Nat /\ lastSim =< now /\ MaxLatency \in Nat
  BY <1>1, SeedConstants DEF MotionInv, SeedTypeOK, TrackerInv
<1> HIDE DEF at
<1>4. t \in Nat /\ t =< MaxLatency /\ t =< now - at
  BY <1>1, <1>2, <1>3 DEF Lesser
<1> HIDE DEF t
<1>5. /\ Moderate(simFix.velocity) /\ simFix.velocity \in Fractions
      /\ honest => Real(simFix.velocity)
  BY DEF MotionInv, FixInv, Moderate
<1>6. Near(SimFixDelta)
  BY <1>1, <1>4, <1>5, TravelIsNear
<1>7. ASSUME honest PROVE Between(query.list[1].x, SimFixDelta)
  <2>1. simFix.velocity.num = Speed * simFix.velocity.den
    BY <1>1, <1>5, <1>7 DEF Real
  <2>2. query.list[1].x = Speed * at
    BY <1>2, <1>7, FixOf
  <2> QED
    BY <1>1, <1>2, <1>4, <1>5, <2>1, <2>2, CatchesUp
<1> QED
  BY <1>6, <1>7

\* The second: by the velocity the vehicle had when the query was issued.
LEMMA DeltaOf ==
  ASSUME MotionInv, query.list # <<>>, QueryDelta # None
  PROVE  /\ Near(QueryDelta)
         /\ honest => Between(query.list[1].x, QueryDelta)
<1>1. /\ Valid(issue.velocity) /\ Latency > 0 /\ Latency =< MaxLatency
      /\ QueryDelta = Travel(issue.velocity, Latency)
  BY DEF QueryDelta
<1>2. Latency = now - FixTime /\ FixTime \in Int /\ now \in Nat
  BY FixOf
<1>3. Latency \in Nat /\ Latency =< now - FixTime
  BY <1>1, <1>2
<1>4. /\ Moderate(issue.velocity) /\ issue.velocity \in Fractions
      /\ honest => Real(issue.velocity)
  BY DEF MotionInv, TrackerInv, Moderate
<1>5. Near(QueryDelta)
  BY <1>1, <1>3, <1>4, TravelIsNear
<1>6. ASSUME honest PROVE Between(query.list[1].x, QueryDelta)
  <2>1. issue.velocity.num = Speed * issue.velocity.den
    BY <1>1, <1>4, <1>6 DEF Real
  <2>2. query.list[1].x = Speed * FixTime
    BY <1>6, FixOf
  <2> QED
    BY <1>1, <1>2, <1>3, <1>4, <2>1, <2>2, CatchesUp
<1> QED
  BY <1>5, <1>6

\* The third: by the velocity between the fixes of two queries.
LEMMA ForwardOf ==
  ASSUME MotionInv, query.list # <<>>, NEW v, Moderate(v)
  PROVE  /\ Near(Forward(v, Latency))
         /\ honest /\ Valid(v) /\ Real(v) => Between(query.list[1].x, Forward(v, Latency))
<1>0. /\ Latency = now - FixTime /\ FixTime \in Int /\ FixTime =< now /\ now \in Nat
      /\ MaxLatency \in Nat
  BY FixOf, SeedConstants
<1>1. CASE ~Valid(v)
  BY <1>1, NowhereIsNear DEF Forward
<1>2. CASE Valid(v)
  <2> DEFINE t == Lesser(Latency, MaxLatency)
  <2>1. t \in Nat /\ t =< MaxLatency /\ t =< now - FixTime
    BY <1>0 DEF Lesser
  <2>2. v \in Fractions
    BY DEF Moderate
  <2>3. CASE Latency > 0
    <3>1. Forward(v, Latency) = Travel(v, t)
      BY <1>0, <1>2, <2>3 DEF Forward
    <3> HIDE DEF t
    <3>2. Near(Travel(v, t))
      BY <2>1, TravelIsNear
    <3>3. ASSUME honest, Real(v) PROVE Between(query.list[1].x, Travel(v, t))
      <4>1. v.num = Speed * v.den
        BY <1>2, <3>3 DEF Real
      <4>2. query.list[1].x = Speed * FixTime
        BY <3>3, FixOf
      <4> QED
        BY <1>0, <2>1, <2>2, <4>1, <4>2, CatchesUp
    <3> QED
      BY <1>2, <3>1, <3>2, <3>3
  <2>4. CASE ~(Latency > 0)
    <3>1. Forward(v, Latency) = Nowhere /\ FixTime = now
      BY <1>0, <2>4 DEF Forward
    <3>2. ASSUME honest PROVE Between(query.list[1].x, Nowhere)
      <4>1. query.list[1].x = Here /\ Here \in Int
        BY <1>0, <3>1, <3>2, FixOf, SeedConstants DEF Here
      <4> QED
        BY <4>1 DEF Between, Nowhere, Dist
    <3> QED
      BY <3>1, <3>2, NowhereIsNear
  <2> QED
    BY <2>3, <2>4
<1> QED
  BY <1>1, <1>2

\* A kept delta goes first, a velocity after it.
LEMMA ApplyOf ==
  ASSUME MotionInv, query.list # <<>>, NEW q, Fields(q), NEW fix \in Points \cup {None},
         honest /\ fix # None => fix.x = Speed * fix.at,
         NEW via, NEW first \in BOOLEAN,
         honest /\ first => Real(q.velocity),
         honest /\ first /\ q.delta # None /\ via \in {"sim", "velocity", "delta"} =>
           Between(query.list[1].x, q.delta)
  PROVE  Sound(Apply(q, fix, via), first)
<1>0. Moderate(q.velocity) /\ (q.delta # None => Near(q.delta))
  BY DEF Fields
<1>1. CASE q.delta # None
  <2>1. Apply(q, fix, via) = Moved(q.delta, via, q, fix)
    BY <1>1 DEF Apply
  <2> QED
    BY <1>0, <1>1, <2>1 DEF Sound, Moved
<1>2. CASE q.delta = None /\ Valid(q.velocity)
  <2>1. Apply(q, fix, via) = Moved(Forward(q.velocity, Latency), "velocity", q, fix)
    BY <1>2 DEF Apply
  <2>2. /\ Near(Forward(q.velocity, Latency))
        /\ honest /\ first => Between(query.list[1].x, Forward(q.velocity, Latency))
    BY <1>0, <1>2, ForwardOf
  <2> QED
    BY <2>1, <2>2 DEF Sound, Moved
<1>3. CASE q.delta = None /\ ~Valid(q.velocity)
  <2>1. Apply(q, fix, via) = Moved(Nowhere, "raw", q, fix)
    BY <1>3 DEF Apply
  <2> QED
    BY <2>1, NowhereIsNear DEF Sound, Moved
<1> QED
  BY <1>1, <1>2, <1>3

LEMMA CurrentOf ==
  ASSUME MotionInv
  PROVE  Fields(Current)
<1>1. Fields(query)
  BY DEF MotionInv, SeedTypeOK, ReplyInv, Fields
<1>2. CASE query.issued = issue.at
  BY <1>1, <1>2 DEF Current
<1>3. CASE query.issued # issue.at
  <2> DEFINE q == [query EXCEPT !.velocity = NoVelocity, !.delta = None, !.issued = issue.at]
  <2>1. Current = q
    BY <1>3 DEF Current
  <2>2. NoVelocity \in Fractions /\ issue.at \in Int \cup {None}
    BY NoVelocityOf DEF Moderate, MotionInv, SeedTypeOK
  <2>3. Fields(q)
    BY <1>1, <2>2, NoVelocityOf DEF Fields
  <2> QED
    BY <2>1, <2>3
<1> QED
  BY <1>2, <1>3

LEMMA WallFirstOf ==
  ASSUME MotionInv, query.list # <<>>
  PROVE  Sound(WallFirst(query.list[1].x), TRUE)
<1> DEFINE x == query.list[1].x
           fix == At(x, FixTime)
<1>1. /\ fix \in Points /\ fix.x = x /\ fix.at = FixTime /\ x \in Int /\ FixTime \in Int
      /\ honest => fix.x = Speed * fix.at
  BY FixOf DEF At, Points
<1>2. CASE prevFix = None
  <2> DEFINE known == QueryDelta # None
             q == [Current EXCEPT !.velocity = NoVelocity,
                     !.delta = IF known THEN QueryDelta ELSE @]
             via == IF known THEN "delta" ELSE "kept"
  <2>1. WallFirst(x) = Apply(q, fix, via)
    BY <1>2 DEF WallFirst
  <2>2. /\ known => Near(QueryDelta) /\ (honest => Between(x, QueryDelta))
        /\ Near(QueryDelta) => QueryDelta \in Fractions
        /\ NoVelocity \in Fractions
    BY DeltaOf, NoVelocityOf DEF Near, Moderate
  <2>3. /\ Fields(q) /\ q.velocity = NoVelocity
        /\ known => q.delta = QueryDelta
    BY <2>2, CurrentOf, NoVelocityOf DEF Fields
  <2>4. known \/ via = "kept"
    OBVIOUS
  <2> HIDE DEF q, via, fix
  <2>5. /\ honest => Real(q.velocity)
        /\ honest /\ q.delta # None /\ via \in {"sim", "velocity", "delta"} =>
             Between(query.list[1].x, q.delta)
    BY <2>2, <2>3, <2>4, NoVelocityOf
  <2>6. Sound(Apply(q, fix, via), TRUE)
    BY <1>1, <2>3, <2>5, ApplyOf
  <2> QED
    BY <2>1, <2>6
<1>3. CASE prevFix # None
  <2> DEFINE v == SeedVelocity(prevFix, fix, 1)
             q == [Current EXCEPT !.velocity = v]
  <2>1. WallFirst(x) = Apply(q, fix, "kept")
    BY <1>3 DEF WallFirst
  <2>2. /\ prevFix.x \in Int /\ prevFix.at \in Int
        /\ honest => prevFix.x = Speed * prevFix.at
    BY <1>3 DEF MotionInv, SeedTypeOK, FixInv, Points
  <2> HIDE DEF fix
  <2>3. Moderate(v) /\ v \in Fractions /\ (honest => Real(v))
    <3>1. Moderate(v) /\ (honest => Real(v))
      BY <1>1, <2>2, VelocityOf
    <3> QED
      BY <3>1 DEF Moderate
  <2> HIDE DEF v
  <2>4. Fields(q) /\ q.velocity = v
    BY <2>3, CurrentOf DEF Fields
  <2> HIDE DEF q
  <2>5. Sound(Apply(q, fix, "kept"), TRUE)
    BY <1>1, <2>3, <2>4, ApplyOf
  <2> QED
    BY <2>1, <2>5
<1> QED
  BY <1>2, <1>3

LEMMA CompensateOf ==
  ASSUME MotionInv, query.list # <<>>, NEW i \in DOMAIN query.list
  PROVE  Sound(Compensate(i), i = 1)
<1> DEFINE skip == Scoring /\ query.list[i].fitness # Diverged
                   /\ query.list[i].fitness =< SkipFitness
<1>1. /\ Fields(query) /\ prevFix \in Points \cup {None}
      /\ honest /\ prevFix # None => prevFix.x = Speed * prevFix.at
  BY FixOf DEF MotionInv, SeedTypeOK, FixInv
<1>2. CASE SimFixDelta # None
  <2>1. Compensate(i) = Moved(SimFixDelta, "sim", query, prevFix)
    BY <1>2 DEF Compensate
  <2> QED
    BY <1>1, <1>2, <2>1, SimMoveOf DEF Sound, Moved
<1>3. CASE SimFixDelta = None /\ skip
  <2>1. Compensate(i) = Moved(Nowhere, "registered", query, prevFix)
    BY <1>3 DEF Compensate
  <2> QED
    BY <1>1, <2>1, NowhereIsNear DEF Sound, Moved
<1>4. CASE SimFixDelta = None /\ ~skip
  <2>1. Compensate(i) = IF ~WallFallback THEN Moved(Nowhere, "raw", query, prevFix)
                        ELSE IF i = 1 THEN WallFirst(query.list[i].x)
                        ELSE Apply(Current, prevFix, "kept")
    BY <1>4 DEF Compensate
  <2>2. Sound(Moved(Nowhere, "raw", query, prevFix), i = 1)
    BY <1>1, NowhereIsNear DEF Sound, Moved
  <2>3. i = 1 => Sound(WallFirst(query.list[i].x), i = 1)
    <3>1. Sound(WallFirst(query.list[1].x), TRUE)
      BY WallFirstOf
    <3> QED
      BY <3>1
  <2>4. i # 1 => Sound(Apply(Current, prevFix, "kept"), i = 1)
    <3>1. Sound(Apply(Current, prevFix, "kept"), FALSE)
      BY <1>1, CurrentOf, ApplyOf
    <3> QED
      BY <3>1
  <2> QED
    BY <2>1, <2>2, <2>3, <2>4
<1> QED
  BY <1>2, <1>3, <1>4

LEMMA PublishStep == MotionInv /\ Publish => MotionInv'
<1> SUFFICES ASSUME MotionInv, Publish PROVE MotionInv'
  OBVIOUS
<1>0. UNCHANGED <<now, episode, lastSim, stable, tracker, inflight, issue, simFix, honest, doubt>>
  BY DEF Publish
<1>1. PICK i \in DOMAIN query.list :
        LET move == Compensate(i) IN
        /\ seed' = [via |-> move.via, first |-> i = 1, raw |-> query.list[i].x,
                    by |-> move.by,
                    implausible |->
                      /\ i = 1 /\ prevFix # None /\ move.via # "sim"
                      /\ ~Valid(SeedVelocity(prevFix, At(query.list[i].x, FixTime), 1))]
        /\ query' = [move.query EXCEPT !.unread = FALSE]
        /\ prevFix' = move.prevFix
  BY DEF Publish
<1> DEFINE m == Compensate(i)
<1>2. query.list # <<>>
  OBVIOUS
<1>3. Sound(m, i = 1)
  BY <1>2, CompensateOf
<1>4. /\ seed'.via = m.via /\ seed'.first = (i = 1) /\ seed'.raw = query.list[i].x
      /\ seed'.by = m.by
      /\ query' = [m.query EXCEPT !.unread = FALSE] /\ prevFix' = m.prevFix
  BY <1>1
<1> HIDE DEF m
<1>5. /\ query' \in [list: Lists, unread: BOOLEAN, issued: Int \cup {None},
                     age: Nat \cup {None}, at: Nat \cup {None},
                     velocity: Fractions, delta: Fractions \cup {None}]
      /\ query'.list = query.list /\ query'.age = query.age /\ query'.at = query.at
      /\ Moderate(query'.velocity) /\ (query'.delta # None => Near(query'.delta))
  BY <1>3, <1>4 DEF Sound, Fields
<1>6. Works' = Works
  BY <1>0 DEF Works
<1>7. SeedTypeOK'
  BY <1>0, <1>3, <1>4, <1>5, <1>6 DEF MotionInv, SeedTypeOK, Sound
<1>8. TrackerInv'
  BY <1>0 DEF MotionInv, TrackerInv
<1>9. ReplyInv'
  BY <1>0, <1>5 DEF MotionInv, ReplyInv
<1>10. FixInv'
  BY <1>0, <1>3, <1>4 DEF MotionInv, FixInv, Sound
<1>11. SeedInv'
  <2>1. Near(seed'.by)
    BY <1>3, <1>4 DEF Sound
  <2>2. ASSUME honest, m.via \in {"sim", "velocity", "delta"}, i = 1
        PROVE  Between(seed'.raw, seed'.by)
    BY <1>3, <1>4, <2>2 DEF Sound
  <2>3. Here' = Here
    BY <1>0 DEF Here
  <2>4. Between(seed'.raw, seed'.by) <=> Between(seed.raw, seed.by)'
    BY <2>3 DEF Between
  <2> QED
    BY <1>0, <1>4, <2>1, <2>2, <2>4 DEF SeedInv
<1> QED
  BY <1>7, <1>8, <1>9, <1>10, <1>11 DEF MotionInv

LEMMA MotionStep == MotionInv /\ [Next]_vars => MotionInv'
<1> SUFFICES ASSUME MotionInv, [Next]_vars PROVE MotionInv'
  OBVIOUS
<1>1. CASE UNCHANGED vars
  <2>1. Works' = Works
    BY <1>1 DEF vars, Works
  <2> QED
    BY <1>1, <2>1 DEF vars, MotionInv, SeedTypeOK, TrackerInv, ReplyInv, FixInv, SeedInv,
                      Between, Here
<1> QED
  BY <1>1, WaitStep, AlignmentStatusStep, PoseStep, EpisodeBeginsStep, EpisodeEndsStep,
     IssueQueryStep, QueryStartsStep, QueryAnsweredStep, QueryFailsStep, PublishStep DEF Next

\* What the compensation starts from and what it may do, for every velocity,
\* age, latency and list of candidates.
THEOREM SeedsAreSound == Spec => []SeedMotionIsSound
<1>1. MotionInv => SeedMotionIsSound
  <2> SUFFICES ASSUME MotionInv PROVE SeedMotionIsSound
    OBVIOUS
  <2>1. SeedIsBounded
    <3> SUFFICES ASSUME seed.via # "none"
                 PROVE  Dist(seed.by.num, 0) =< MaxSpeed * MaxLatency * seed.by.den
      BY DEF SeedIsBounded
    <3> DEFINE most == MaxSpeed * MaxLatency * seed.by.den
    <3>1. /\ seed.by.num \in Int /\ seed.by.den \in Nat
          /\ seed.by.num =< most /\ -seed.by.num =< most
      BY DEF MotionInv, SeedInv, Near, Fractions
    <3> HIDE DEF most
    <3>2. Dist(seed.by.num, 0) =< most
      BY <3>1 DEF Dist
    <3> QED
      BY <3>2 DEF most
  <2>2. VelocityIsTheVehicles
    BY DEF MotionInv, TrackerInv, VelocityIsTheVehicles, Real
  <2>3. ReplyIsRanked
    BY DEF MotionInv, ReplyInv, ReplyIsRanked, BestFirst
  <2>4. PairsAreUnbroken
    BY DEF MotionInv, TrackerInv, PairsAreUnbroken
  <2> QED
    BY <2>1, <2>2, <2>3, <2>4 DEF SeedMotionIsSound
<1> QED
  BY <1>1, MotionInit, MotionStep, PTL DEF Spec

\* A seed moved by an estimate of its own query never overshoots the vehicle.
THEOREM SeedsCatchUp == Spec => []FixCatchesUp
<1>1. MotionInv => FixCatchesUp
  BY DEF MotionInv, SeedInv, FixCatchesUp, Between
<1> QED
  BY <1>1, MotionInit, MotionStep, PTL DEF Spec

-----------------------------------------------------------------------------
(* The gate.                                                               *)

Vectors == [x: Int, y: Int]

LEMMA RotatedOf ==
  ASSUME NEW v \in Vectors, NEW q \in 0..3
  PROVE  Rotated(v, q) \in Vectors
<1>1. q = 0 \/ q = 1 \/ q = 2 \/ q = 3
  OBVIOUS
<1>2. CASE q = 0
  BY <1>2 DEF Rotated, Vectors
<1>3. CASE q = 1
  BY <1>3 DEF Rotated, Vectors
<1>4. CASE q = 2
  BY <1>4 DEF Rotated, Vectors
<1>5. CASE q = 3
  BY <1>5 DEF Rotated, Vectors
<1> QED
  BY <1>1, <1>2, <1>3, <1>4, <1>5

\* Two turns are one.
LEMMA RotatedTwice ==
  ASSUME NEW v \in Vectors, NEW q \in 0..3, NEW r \in 0..3, NEW s \in 0..3,
         s = (q + r) % 4
  PROVE  Rotated(Rotated(v, q), r) = Rotated(v, s)
<1>0. /\ Rotated(v, 0) = v
      /\ Rotated(v, 1) = [x |-> -v.y, y |-> v.x]
      /\ Rotated(v, 2) = [x |-> -v.x, y |-> -v.y]
      /\ Rotated(v, 3) = [x |-> v.y, y |-> -v.x]
  BY DEF Rotated
<1>1. \A w \in Vectors :
        /\ Rotated(w, 0) = w
        /\ Rotated(w, 1) = [x |-> -w.y, y |-> w.x]
        /\ Rotated(w, 2) = [x |-> -w.x, y |-> -w.y]
        /\ Rotated(w, 3) = [x |-> w.y, y |-> -w.x]
  BY DEF Rotated
<1>2. /\ v.x \in Int /\ v.y \in Int /\ v = [x |-> v.x, y |-> v.y]
      /\ -(-v.x) = v.x /\ -(-v.y) = v.y
  BY DEF Vectors
<1>3. q \in {0, 1, 2, 3} /\ r \in {0, 1, 2, 3}
  OBVIOUS
<1>4. CASE q = 0
  <2>1. s = r
    BY <1>4
  <2> QED
    BY <1>0, <1>4, <2>1
<1>5. CASE q = 1
  <2>1. Rotated(v, q) = [x |-> -v.y, y |-> v.x] /\ Rotated(v, q) \in Vectors
    BY <1>0, <1>5, RotatedOf
  <2>2. s = IF r = 3 THEN 0 ELSE r + 1
    BY <1>3, <1>5
  <2> QED
    BY <1>0, <1>1, <1>2, <1>3, <2>1, <2>2
<1>6. CASE q = 2
  <2>1. Rotated(v, q) = [x |-> -v.x, y |-> -v.y] /\ Rotated(v, q) \in Vectors
    BY <1>0, <1>6, RotatedOf
  <2>2. s = IF r = 2 THEN 0 ELSE IF r = 3 THEN 1 ELSE r + 2
    BY <1>3, <1>6
  <2> QED
    BY <1>0, <1>1, <1>2, <1>3, <2>1, <2>2
<1>7. CASE q = 3
  <2>1. Rotated(v, q) = [x |-> v.y, y |-> -v.x] /\ Rotated(v, q) \in Vectors
    BY <1>0, <1>7, RotatedOf
  <2>2. s = IF r = 0 THEN 3 ELSE r - 1
    BY <1>3, <1>7
  <2> QED
    BY <1>0, <1>1, <1>2, <1>3, <2>1, <2>2
<1> QED
  BY <1>3, <1>4, <1>5, <1>6, <1>7

\* A turn of a difference is the difference of the turned.
LEMMA RotatedApart ==
  ASSUME NEW v \in Vectors, NEW w \in Vectors, NEW q \in 0..3
  PROVE  Rotated([x |-> w.x - v.x, y |-> w.y - v.y], q)
           = [x |-> Rotated(w, q).x - Rotated(v, q).x,
              y |-> Rotated(w, q).y - Rotated(v, q).y]
<1>1. q = 0 \/ q = 1 \/ q = 2 \/ q = 3
  OBVIOUS
<1>0. v.x \in Int /\ v.y \in Int /\ w.x \in Int /\ w.y \in Int
  BY DEF Vectors
<1>2. CASE q = 0
  BY <1>0, <1>2 DEF Rotated
<1>3. CASE q = 1
  BY <1>0, <1>3 DEF Rotated
<1>4. CASE q = 2
  BY <1>0, <1>4 DEF Rotated
<1>5. CASE q = 3
  BY <1>0, <1>5 DEF Rotated
<1> QED
  BY <1>1, <1>2, <1>3, <1>4, <1>5

\* Fixes that one rigid motion takes odometry to describe the same relative
\* motion as odometry, whatever the rigid motion.
LEMMA SameOffsetSameMotion ==
  ASSUME NEW f1 \in SE2, NEW f2 \in SE2, NEW o1 \in SE2, NEW o2 \in SE2,
         Motion(o1, f1) = Motion(o2, f2)
  PROVE  SameMotion(f1, f2, o1, o2)
<1> DEFINE m == Motion(o1, f1)
           yaw1 == (f1.yaw - o1.yaw) % 4
           yaw2 == (f2.yaw - o2.yaw) % 4
           xy(p) == [x |-> p.x, y |-> p.y]
           apart(p, q) == [x |-> q.x - p.x, y |-> q.y - p.y]
           turn == (4 - f1.yaw) % 4
           back == (4 - o1.yaw) % 4
<1>0. /\ f1.x \in Int /\ f1.y \in Int /\ f1.yaw \in 0..3
      /\ f2.x \in Int /\ f2.y \in Int /\ f2.yaw \in 0..3
      /\ o1.x \in Int /\ o1.y \in Int /\ o1.yaw \in 0..3
      /\ o2.x \in Int /\ o2.y \in Int /\ o2.yaw \in 0..3
  BY DEF SE2
<1>1. /\ yaw1 = yaw2 /\ yaw1 \in 0..3
      /\ f1.x - Rotated(xy(o1), yaw1).x = f2.x - Rotated(xy(o2), yaw2).x
      /\ f1.y - Rotated(xy(o1), yaw1).y = f2.y - Rotated(xy(o2), yaw2).y
  <2>1. /\ Motion(o1, f1) = [x |-> f1.x - Rotated(xy(o1), yaw1).x,
                             y |-> f1.y - Rotated(xy(o1), yaw1).y, yaw |-> yaw1]
        /\ Motion(o2, f2) = [x |-> f2.x - Rotated(xy(o2), yaw2).x,
                             y |-> f2.y - Rotated(xy(o2), yaw2).y, yaw |-> yaw2]
    BY DEF Motion
  <2>2. yaw1 \in 0..3
    BY <1>0
  <2> DEFINE r1 == Rotated(xy(o1), yaw1)
             r2 == Rotated(xy(o2), yaw2)
  <2>3. [x |-> f1.x - r1.x, y |-> f1.y - r1.y, yaw |-> yaw1]
          = [x |-> f2.x - r2.x, y |-> f2.y - r2.y, yaw |-> yaw2]
    BY <2>1
  <2> HIDE DEF yaw1, yaw2, r1, r2
  <2>4. yaw1 = yaw2 /\ f1.x - r1.x = f2.x - r2.x /\ f1.y - r1.y = f2.y - r2.y
    BY <2>3
  <2> QED
    BY <2>2, <2>4 DEF r1, r2
<1>2. turn \in 0..3 /\ back \in 0..3 /\ back = (yaw1 + turn) % 4
  BY <1>0
<1>3. (f2.yaw - f1.yaw) % 4 = (o2.yaw - o1.yaw) % 4
  BY <1>0, <1>1
<1>4. /\ xy(o1) \in Vectors /\ xy(o2) \in Vectors /\ apart(o1, o2) \in Vectors
      /\ apart(o1, o2) = [x |-> xy(o2).x - xy(o1).x, y |-> xy(o2).y - xy(o1).y]
  BY <1>0 DEF Vectors
<1> HIDE DEF yaw1, yaw2, turn, back, xy, apart
<1>5. Rotated(apart(o1, o2), yaw1) = apart(f1, f2)
  <2>1. Rotated(apart(o1, o2), yaw1)
          = [x |-> Rotated(xy(o2), yaw1).x - Rotated(xy(o1), yaw1).x,
             y |-> Rotated(xy(o2), yaw1).y - Rotated(xy(o1), yaw1).y]
    <3> DEFINE v == xy(o1)
               w == xy(o2)
    <3>1. v \in Vectors /\ w \in Vectors /\ yaw1 \in 0..3
      BY <1>1, <1>4
    <3>2. apart(o1, o2) = [x |-> w.x - v.x, y |-> w.y - v.y]
      BY <1>4
    <3> HIDE DEF v, w
    <3>3. Rotated([x |-> w.x - v.x, y |-> w.y - v.y], yaw1)
            = [x |-> Rotated(w, yaw1).x - Rotated(v, yaw1).x,
               y |-> Rotated(w, yaw1).y - Rotated(v, yaw1).y]
      BY <3>1, RotatedApart
    <3> QED
      BY <3>2, <3>3 DEF v, w
  <2>2. /\ Rotated(xy(o1), yaw1).x \in Int /\ Rotated(xy(o1), yaw1).y \in Int
        /\ Rotated(xy(o2), yaw1).x \in Int /\ Rotated(xy(o2), yaw1).y \in Int
    <3>1. Rotated(xy(o1), yaw1) \in Vectors /\ Rotated(xy(o2), yaw1) \in Vectors
      BY <1>1, <1>4, RotatedOf
    <3> QED
      BY <3>1 DEF Vectors
  <2>3. /\ Rotated(xy(o2), yaw1).x - Rotated(xy(o1), yaw1).x = f2.x - f1.x
        /\ Rotated(xy(o2), yaw1).y - Rotated(xy(o1), yaw1).y = f2.y - f1.y
    BY <1>0, <1>1, <2>2
  <2> QED
    BY <2>1, <2>3 DEF apart
<1>6. Rotated(apart(f1, f2), turn) = Rotated(apart(o1, o2), back)
  BY <1>1, <1>2, <1>4, <1>5, RotatedTwice
<1> DEFINE u == Rotated(apart(o1, o2), back)
           turned == (o2.yaw - o1.yaw) % 4
<1>7. u \in Vectors /\ turned \in 0..3
  BY <1>0, <1>2, <1>4, RotatedOf
<1>8. /\ Relative(f1, f2) = [x |-> u.x, y |-> u.y, yaw |-> turned]
      /\ Relative(o1, o2) = [x |-> u.x, y |-> u.y, yaw |-> turned]
  BY <1>3, <1>6 DEF Relative, apart, turn, back
<1> HIDE DEF u, turned
<1>9. /\ u.x - u.x = 0 /\ u.y - u.y = 0 /\ (turned - turned) % 4 = 0
      /\ MaxTranslation >= 0 /\ MaxYaw >= 0
  BY <1>7, GateAssumption DEF Vectors
<1> QED
  BY <1>8, <1>9 DEF SameMotion, Square, QuarterTurns

LEMMA PlacedOf ==
  ASSUME NEW m \in SE2, NEW p \in SE2
  PROVE  Placed(m, p) \in SE2
<1> DEFINE v == Rotated([x |-> p.x, y |-> p.y], m.yaw)
           yaw == (m.yaw + p.yaw) % 4
<1>1. v \in Vectors
  BY RotatedOf DEF SE2, Vectors
<1>2. yaw \in 0..3
  BY DEF SE2
<1>3. Placed(m, p) = [x |-> m.x + v.x, y |-> m.y + v.y, yaw |-> yaw]
  BY DEF Placed
<1> HIDE DEF v, yaw
<1> QED
  BY <1>1, <1>2, <1>3 DEF SE2, Vectors

Samples == [offset: {Motion(p, q) : p, q \in SE2}, exact: BOOLEAN]

\* The last k samples are exact and put the vehicle at one place.
LastAgree(k, samples) ==
  \A i \in (Len(samples) - k + 1)..Len(samples) :
    samples[i].exact /\ samples[i].offset = samples[Len(samples)].offset

\* What the gate holds is the last sample, and it counts every sample of a run
\* that agrees.
GateInv ==
  /\ time \in 1..Len(Path) /\ anchor \in SE2
  /\ \A e \in history : /\ e.stamp \in 1..Len(Path) /\ e.anchor \in SE2
                        /\ e.pose = Placed(e.anchor, Path[e.stamp])
  /\ observed \in Seq(Samples)
  /\ gate.consistent \in Nat
  /\ observed # <<>> =>
       \E fix, odom \in SE2 :
         /\ gate.sample = <<fix, odom>>
         /\ observed[Len(observed)].exact =>
              observed[Len(observed)].offset = Motion(odom, fix)
  /\ \A k \in 1..Len(observed) : LastAgree(k, observed) => gate.consistent >= k

LEMMA PathOf ==
  /\ Len(Path) \in Nat /\ Len(Path) >= 1 /\ DOMAIN Path = 1..Len(Path)
  /\ \A i \in 1..Len(Path) : Path[i] \in SE2
  /\ Anchors \subseteq SE2 /\ Aliases \subseteq SE2
<1>1. Path \in Seq(SE2) /\ Path # <<>>
  BY GateAssumption
<1>2. DOMAIN Path = 1..Len(Path) /\ \A i \in 1..Len(Path) : Path[i] \in SE2
  <2>1. \A S : Path \in Seq(S) => \A i \in 1..Len(Path) : Path[i] \in S
    OBVIOUS
  <2> QED
    BY <1>1, <2>1
<1> QED
  BY <1>1, <1>2, GateAssumption

LEMMA GateStart == GateInit => GateInv
<1> SUFFICES ASSUME GateInit PROVE GateInv
  OBVIOUS
<1>1. observed = <<>> /\ Len(<<>>) = 0 /\ observed \in Seq(Samples)
  BY EmptySeq DEF GateInit
<1>2. time \in 1..Len(Path) /\ anchor \in SE2 /\ history = {} /\ gate.consistent \in Nat
  BY PathOf DEF GateInit, Fresh
<1> QED
  BY <1>1, <1>2 DEF GateInv

\* A fix the gate takes as a sample lengthens the run if it agrees.
LEMMA SampleStep ==
  ASSUME GateInv, NEW stamp \in DOMAIN Path, StrongFix(stamp)
  PROVE  /\ observed' \in Seq(Samples) /\ gate'.consistent \in Nat
         /\ observed' # <<>> =>
              \E fix, odom \in SE2 :
                /\ gate'.sample = <<fix, odom>>
                /\ observed'[Len(observed')].exact =>
                     observed'[Len(observed')].offset = Motion(odom, fix)
         /\ \A k \in 1..Len(observed') : LastAgree(k, observed') => gate'.consistent >= k
<1>1. PICK alias \in Aliases, e \in NearestEntry(stamp) :
        LET fix == Placed(alias, Path[stamp]) IN
        /\ gate' = ObserveSample(fix, e.pose)
        /\ observed' = Append(observed,
             [offset |-> Motion(Placed(e.anchor, Path[stamp]), fix), exact |-> e.stamp = stamp])
  BY DEF StrongFix
<1> DEFINE fix == Placed(alias, Path[stamp])
           odom == e.pose
           true == Placed(e.anchor, Path[stamp])
           new == [offset |-> Motion(true, fix), exact |-> e.stamp = stamp]
           n == Len(observed)
<1>2. /\ e \in history /\ fix \in SE2 /\ odom \in SE2 /\ true \in SE2
      /\ e.stamp = stamp => odom = true
  <2>1. e \in history
    BY DEF NearestEntry
  <2>2. e.anchor \in SE2 /\ e.pose = Placed(e.anchor, Path[e.stamp])
        /\ e.stamp \in 1..Len(Path)
    BY <2>1 DEF GateInv
  <2>3. Path[stamp] \in SE2 /\ Path[e.stamp] \in SE2 /\ alias \in SE2
    BY <2>2, PathOf
  <2> QED
    BY <2>1, <2>2, <2>3, PlacedOf
<1>3. /\ gate' = ObserveSample(fix, odom) /\ observed' = Append(observed, new)
  BY <1>1
<1>4. new.offset = Motion(true, fix) /\ new \in Samples
      /\ (new.exact => new.offset = Motion(odom, fix))
  <2>1. new.offset = Motion(true, fix) /\ new.exact = (e.stamp = stamp)
    OBVIOUS
  <2>2. new \in [offset: {Motion(true, fix)}, exact: BOOLEAN]
    OBVIOUS
  <2> HIDE DEF new, fix, odom, true
  <2>3. Motion(true, fix) \in {Motion(p, q) : p, q \in SE2}
    BY <1>2
  <2> QED
    BY <1>2, <2>1, <2>2, <2>3 DEF Samples
<1> HIDE DEF new, fix, odom, true
<1>5. /\ observed \in Seq(Samples) /\ n \in Nat /\ observed' \in Seq(Samples)
      /\ Len(observed') = n + 1 /\ observed'[n + 1] = new
      /\ \A i \in 1..n : observed'[i] = observed[i]
  <2>1. observed \in Seq(Samples)
    BY DEF GateInv
  <2>2. n \in Nat /\ observed' = Append(observed, new) /\ new \in Samples
    BY <1>3, <1>4, <2>1
  <2>3. observed' \in Seq(Samples)
    BY <2>1, <2>2
  <2>4. Len(observed') = n + 1 /\ observed'[n + 1] = new
    BY <2>1, <2>2
  <2>5. \A i \in 1..n : observed'[i] = observed[i]
    BY <2>1, <2>2
  <2> QED
    BY <2>1, <2>2, <2>3, <2>4, <2>5
<1> DEFINE same == gate.sample # <<>> /\ SameMotion(gate.sample[1], fix, gate.sample[2], odom)
<1>6. /\ gate'.sample = <<fix, odom>>
      /\ gate'.consistent = IF same THEN gate.consistent + 1 ELSE 1
  BY <1>3 DEF ObserveSample
<1> HIDE DEF same
<1>7. gate'.consistent \in Nat /\ gate'.consistent >= 1
  BY <1>6 DEF GateInv
<1>8. ASSUME NEW k \in 1..Len(observed'), LastAgree(k, observed')
      PROVE  gate'.consistent >= k
  <2>1. CASE k = 1
    BY <1>7, <2>1
  <2>2. CASE k # 1
    <3>1. k - 1 \in 1..n /\ k \in 2..(n + 1) /\ n \in 1..n /\ n + 1 \in (n + 1 - k + 1)..(n + 1)
      BY <1>5, <2>2
    <3>2. \A i \in (n + 1 - k + 1)..(n + 1) :
            observed'[i].exact /\ observed'[i].offset = new.offset
      BY <1>5, <1>8 DEF LastAgree
    <3>3. \A i \in (n - (k - 1) + 1)..n :
            observed[i].exact /\ observed[i].offset = new.offset
      <4> TAKE i \in (n - (k - 1) + 1)..n
      <4>1. i \in (n + 1 - k + 1)..(n + 1) /\ i \in 1..n
        BY <1>5, <3>1
      <4> QED
        BY <1>5, <3>2, <4>1
    <3>4. n \in (n - (k - 1) + 1)..n
      BY <1>5, <3>1
    <3>5. LastAgree(k - 1, observed)
      BY <3>3, <3>4 DEF LastAgree
    <3>6. gate.consistent >= k - 1 /\ gate.consistent \in Nat
      BY <3>1, <3>5 DEF GateInv
    <3>7. same
      <4>1. observed # <<>>
        BY <1>5, <3>1, EmptySeq
      <4>2. PICK f, o \in SE2 :
              /\ gate.sample = <<f, o>>
              /\ observed[n].exact => observed[n].offset = Motion(o, f)
        BY <4>1 DEF GateInv
      <4>3. observed[n].exact /\ observed[n].offset = new.offset
        BY <3>3, <3>4
      <4>4. new.exact
        BY <1>5, <3>1, <3>2
      <4>5. Motion(o, f) = Motion(odom, fix)
        BY <1>4, <4>2, <4>3, <4>4
      <4>6. SameMotion(f, fix, o, odom)
        BY <1>2, <4>5, SameOffsetSameMotion
      <4>7. gate.sample # <<>> /\ gate.sample[1] = f /\ gate.sample[2] = o
        BY <4>2
      <4> QED
        BY <4>6, <4>7 DEF same
    <3> QED
      BY <1>6, <3>1, <3>6, <3>7
  <2> QED
    BY <2>1, <2>2
<1>9. observed'[Len(observed')].exact => observed'[Len(observed')].offset = Motion(odom, fix)
  BY <1>4, <1>5
<1> QED
  BY <1>2, <1>5, <1>6, <1>7, <1>8, <1>9

LEMMA GateStep == GateInv /\ [GateNext]_gateVars => GateInv'
<1> SUFFICES ASSUME GateInv, [GateNext]_gateVars PROVE GateInv'
  OBVIOUS
<1>1. CASE GateWait
  <2>1. time' \in 1..Len(Path)
    BY <1>1, PathOf DEF GateWait, GateInv
  <2> QED
    BY <1>1, <2>1 DEF GateWait, GateInv
<1>2. CASE MatchAccepted
  BY <1>2, PathOf DEF MatchAccepted, GateInv
<1>3. CASE OnOdomBridgePose
  <2> DEFINE entry == [stamp |-> time, pose |-> Placed(anchor, Path[time]), anchor |-> anchor]
  <2>1. /\ history' \subseteq history \cup {entry}
        /\ UNCHANGED <<time, anchor, gate, observed>>
    BY <1>3 DEF OnOdomBridgePose
  <2>2. /\ entry.stamp \in 1..Len(Path) /\ entry.anchor \in SE2
        /\ entry.pose = Placed(entry.anchor, Path[entry.stamp])
    BY DEF GateInv
  <2> HIDE DEF entry
  <2>3. \A e \in history' : /\ e.stamp \in 1..Len(Path) /\ e.anchor \in SE2
                            /\ e.pose = Placed(e.anchor, Path[e.stamp])
    BY <2>1, <2>2 DEF GateInv
  <2> QED
    BY <2>1, <2>3 DEF GateInv
<1>4. CASE OnReinitEdge
  <2>1. UNCHANGED <<time, anchor, history>>
    BY <1>4 DEF OnReinitEdge
  <2>2. CASE UNCHANGED <<gate, observed>>
    BY <2>1, <2>2 DEF GateInv
  <2>3. CASE gate' = Fresh /\ observed' = <<>>
    <3>1. Len(<<>>) = 0 /\ <<>> \in Seq(Samples) /\ Fresh.consistent \in Nat
      BY EmptySeq DEF Fresh
    <3> QED
      BY <2>1, <2>3, <3>1 DEF GateInv
  <2> QED
    BY <1>4, <2>2, <2>3 DEF OnReinitEdge
<1>5. CASE OnReply
  <2>1. UNCHANGED <<time, anchor, history>>
    BY <1>5 DEF OnReply
  <2>2. PICK stamp \in {time, time - 1} \cap DOMAIN Path :
          StrongFix(stamp) \/ NotASample(stamp)
    BY <1>5 DEF OnReply
  <2>3. CASE StrongFix(stamp)
    BY <2>1, <2>2, <2>3, SampleStep DEF GateInv
  <2>4. CASE NotASample(stamp)
    BY <2>1, <2>4 DEF NotASample, GateInv
  <2> QED
    BY <2>2, <2>3, <2>4
<1>6. CASE UNCHANGED gateVars
  BY <1>6 DEF gateVars, GateInv
<1> QED
  BY <1>1, <1>2, <1>3, <1>4, <1>5, <1>6 DEF GateNext

\* A vehicle whose fixes agree with odometry is never withheld for ever: for
\* every path, anchor, alias and tolerance.
THEOREM ConsistentFixesOpenTheGate == GateSpec => []ConsistentFixesPass
<1>1. GateInv => ConsistentFixesPass
  <2> SUFFICES ASSUME GateInv, Agreed, OwnOdometry
               PROVE  gate.consistent >= Required
    BY DEF ConsistentFixesPass
  <2>1. Required \in Nat /\ Required >= 2 /\ Len(observed) \in Nat
    BY GateAssumption DEF GateInv
  <2>2. Required \in 1..Len(observed)
    BY <2>1 DEF Agreed
  <2>3. LastAgree(Required, observed)
    BY DEF Agreed, OwnOdometry, LastAgree, Last
  <2> QED
    BY <2>2, <2>3 DEF GateInv
<1> QED
  BY <1>1, GateStart, GateStep, PTL DEF GateSpec

-----------------------------------------------------------------------------
(* The shadow gate: what it publishes.                                     *)

LEMMA SquareOf == ASSUME NEW n \in Int PROVE Square(-n) = Square(n) /\ Square(n) \in Int
BY DEF Square

\* A turn keeps lengths.
LEMMA RotatedLength ==
  ASSUME NEW v \in Vectors, NEW q \in 0..3
  PROVE  Square(Rotated(v, q).x) + Square(Rotated(v, q).y) = Square(v.x) + Square(v.y)
<1>0. v.x \in Int /\ v.y \in Int /\ q \in {0, 1, 2, 3}
  BY DEF Vectors
<1>1. /\ Square(-v.x) = Square(v.x) /\ Square(-v.y) = Square(v.y)
      /\ Square(v.x) \in Int /\ Square(v.y) \in Int
  BY <1>0, SquareOf
<1>2. CASE q = 0
  BY <1>2 DEF Rotated
<1>3. CASE q = 1
  <2>1. Rotated(v, q).x = -v.y /\ Rotated(v, q).y = v.x
    BY <1>3 DEF Rotated
  <2> QED
    BY <1>1, <2>1
<1>4. CASE q = 2
  <2>1. Rotated(v, q).x = -v.x /\ Rotated(v, q).y = -v.y
    BY <1>4 DEF Rotated
  <2> QED
    BY <1>1, <2>1
<1>5. CASE q = 3
  <2>1. Rotated(v, q).x = v.y /\ Rotated(v, q).y = -v.x
    BY <1>5 DEF Rotated
  <2> QED
    BY <1>1, <2>1
<1> QED
  BY <1>0, <1>2, <1>3, <1>4, <1>5

LEMMA RotatedSum ==
  ASSUME NEW v \in Vectors, NEW w \in Vectors, NEW q \in 0..3
  PROVE  Rotated([x |-> v.x + w.x, y |-> v.y + w.y], q)
           = [x |-> Rotated(v, q).x + Rotated(w, q).x,
              y |-> Rotated(v, q).y + Rotated(w, q).y]
<1>0. v.x \in Int /\ v.y \in Int /\ w.x \in Int /\ w.y \in Int /\ q \in {0, 1, 2, 3}
  BY DEF Vectors
<1>2. CASE q = 0
  BY <1>0, <1>2 DEF Rotated
<1>3. CASE q = 1
  BY <1>0, <1>3 DEF Rotated
<1>4. CASE q = 2
  BY <1>0, <1>4 DEF Rotated
<1>5. CASE q = 3
  BY <1>0, <1>5 DEF Rotated
<1> QED
  BY <1>0, <1>2, <1>3, <1>4, <1>5

LEMMA MotionOf ==
  ASSUME NEW p \in SE2, NEW q \in SE2
  PROVE  Motion(p, q) \in SE2 /\ Placed(Motion(p, q), p) = q
<1> DEFINE yaw == (q.yaw - p.yaw) % 4
           v == Rotated([x |-> p.x, y |-> p.y], yaw)
<1>1. /\ p.x \in Int /\ p.y \in Int /\ p.yaw \in 0..3
      /\ q.x \in Int /\ q.y \in Int /\ q.yaw \in 0..3
      /\ q = [x |-> q.x, y |-> q.y, yaw |-> q.yaw]
  BY DEF SE2
<1>2. yaw \in 0..3 /\ (yaw + p.yaw) % 4 = q.yaw
  BY <1>1
<1>3. v.x \in Int /\ v.y \in Int
  <2>1. [x |-> p.x, y |-> p.y] \in Vectors
    BY <1>1 DEF Vectors
  <2> QED
    BY <1>2, <2>1, RotatedOf DEF Vectors
<1>4. Motion(p, q) = [x |-> q.x - v.x, y |-> q.y - v.y, yaw |-> yaw]
  BY DEF Motion
<1>5. Placed(Motion(p, q), p)
        = [x |-> (q.x - v.x) + v.x, y |-> (q.y - v.y) + v.y, yaw |-> (yaw + p.yaw) % 4]
  BY <1>4 DEF Placed
<1> HIDE DEF yaw, v
<1>6. (q.x - v.x) + v.x = q.x /\ (q.y - v.y) + v.y = q.y
  BY <1>1, <1>3
<1> QED
  BY <1>1, <1>2, <1>3, <1>4, <1>5, <1>6 DEF SE2

\* What takes odometry to a fix depends on the anchor and the alias only, not on
\* where the vehicle is.
LEMMA OneDisplacement ==
  ASSUME NEW a \in SE2, NEW b \in SE2, NEW p \in SE2
  PROVE  Motion(Placed(a, p), Placed(b, p)) = Motion(a, b)
<1> DEFINE xy(m) == [x |-> m.x, y |-> m.y]
           v == Rotated(xy(p), a.yaw)
           w == Rotated(xy(p), b.yaw)
           yaw == (b.yaw - a.yaw) % 4
           r == Rotated(xy(a), yaw)
<1>1. /\ a.x \in Int /\ a.y \in Int /\ a.yaw \in 0..3
      /\ b.x \in Int /\ b.y \in Int /\ b.yaw \in 0..3
      /\ p.x \in Int /\ p.y \in Int /\ p.yaw \in 0..3
  BY DEF SE2
<1>2. xy(a) \in Vectors /\ xy(p) \in Vectors
  BY <1>1 DEF Vectors
<1>3. yaw \in 0..3 /\ b.yaw = (a.yaw + yaw) % 4
  BY <1>1
<1>4. (((b.yaw + p.yaw) % 4) - ((a.yaw + p.yaw) % 4)) % 4 = yaw
  BY <1>1
<1>5. /\ v \in Vectors /\ w \in Vectors /\ r \in Vectors
  BY <1>1, <1>2, <1>3, RotatedOf
<1>6. Placed(a, p) = [x |-> a.x + v.x, y |-> a.y + v.y, yaw |-> (a.yaw + p.yaw) % 4]
      /\ Placed(b, p) = [x |-> b.x + w.x, y |-> b.y + w.y, yaw |-> (b.yaw + p.yaw) % 4]
  BY DEF Placed
<1>7. Motion(a, b) = [x |-> b.x - r.x, y |-> b.y - r.y, yaw |-> yaw]
  BY DEF Motion
<1>8. Rotated(v, yaw) = w
  <2> DEFINE u == xy(p)
             qa == a.yaw
             qb == b.yaw
  <2>1. u \in Vectors /\ qa \in 0..3 /\ yaw \in 0..3 /\ qb \in 0..3
    BY <1>1, <1>2, <1>3
  <2>2. qb = (qa + yaw) % 4
    BY <1>3
  <2> HIDE DEF yaw, u, qa, qb
  <2>3. Rotated(Rotated(u, qa), yaw) = Rotated(u, qb)
    BY <2>1, <2>2, RotatedTwice
  <2> QED
    BY <2>3 DEF u, qa, qb
<1>9. Rotated([x |-> a.x + v.x, y |-> a.y + v.y], yaw) = [x |-> r.x + w.x, y |-> r.y + w.y]
  <2> DEFINE u == xy(a)
  <2> HIDE DEF u, v, w, yaw
  <2>1. Rotated([x |-> u.x + v.x, y |-> u.y + v.y], yaw)
          = [x |-> Rotated(u, yaw).x + Rotated(v, yaw).x,
             y |-> Rotated(u, yaw).y + Rotated(v, yaw).y]
    BY <1>2, <1>3, <1>5, RotatedSum DEF u
  <2> QED
    BY <1>8, <2>1 DEF u
<1> HIDE DEF v, w, r, yaw, xy
<1>10. Motion(Placed(a, p), Placed(b, p))
         = [x |-> (b.x + w.x) - (r.x + w.x), y |-> (b.y + w.y) - (r.y + w.y), yaw |-> yaw]
  <2> DEFINE pa == Placed(a, p)
             pb == Placed(b, p)
  <2>1. /\ pa.x = a.x + v.x /\ pa.y = a.y + v.y /\ pb.x = b.x + w.x /\ pb.y = b.y + w.y
        /\ (pb.yaw - pa.yaw) % 4 = yaw
    BY <1>4, <1>6
  <2> HIDE DEF pa, pb
  <2>2. Rotated([x |-> pa.x, y |-> pa.y], yaw) = [x |-> r.x + w.x, y |-> r.y + w.y]
    BY <1>9, <2>1
  <2>3. Motion(pa, pb) = [x |-> pb.x - (r.x + w.x), y |-> pb.y - (r.y + w.y), yaw |-> yaw]
    BY <2>1, <2>2 DEF Motion
  <2> QED
    BY <2>1, <2>3 DEF pa, pb
<1>11. (b.x + w.x) - (r.x + w.x) = b.x - r.x /\ (b.y + w.y) - (r.y + w.y) = b.y - r.y
  BY <1>1, <1>5 DEF Vectors
<1> QED
  BY <1>7, <1>10, <1>11

\* Comparing relative motions, each seen from its own first pose, is comparing
\* the second fix with where the displacement of the first would put it.
LEMMA SameMotionIsNear ==
  ASSUME NEW f1 \in SE2, NEW f2 \in SE2, NEW o1 \in SE2, NEW o2 \in SE2,
         SameMotion(f1, f2, o1, o2)
  PROVE  ~Separate(f2, Placed(Motion(o1, f1), o2))
<1> DEFINE d == Motion(o1, f1)
           xy(p) == [x |-> p.x, y |-> p.y]
           apart(p, q) == [x |-> q.x - p.x, y |-> q.y - p.y]
           g == Placed(d, o2)
           turn == (4 - f1.yaw) % 4
           back == (4 - o1.yaw) % 4
<1>0. /\ f1.x \in Int /\ f1.y \in Int /\ f1.yaw \in 0..3
      /\ f2.x \in Int /\ f2.y \in Int /\ f2.yaw \in 0..3
      /\ o1.x \in Int /\ o1.y \in Int /\ o1.yaw \in 0..3
      /\ o2.x \in Int /\ o2.y \in Int /\ o2.yaw \in 0..3
  BY DEF SE2
<1>1. /\ d \in SE2 /\ Placed(d, o1) = f1 /\ g \in SE2
      /\ d.yaw = (f1.yaw - o1.yaw) % 4 /\ d.yaw \in 0..3
  <2>1. d \in SE2 /\ Placed(d, o1) = f1
    BY MotionOf
  <2>2. d.yaw = (f1.yaw - o1.yaw) % 4
    BY DEF Motion
  <2> HIDE DEF d
  <2> QED
    BY <2>1, <2>2, PlacedOf DEF SE2
<1> HIDE DEF d
<1>2. /\ f1 = [x |-> d.x + Rotated(xy(o1), d.yaw).x, y |-> d.y + Rotated(xy(o1), d.yaw).y,
               yaw |-> (d.yaw + o1.yaw) % 4]
      /\ g = [x |-> d.x + Rotated(xy(o2), d.yaw).x, y |-> d.y + Rotated(xy(o2), d.yaw).y,
              yaw |-> (d.yaw + o2.yaw) % 4]
  BY <1>1 DEF Placed
<1>3. /\ xy(o1) \in Vectors /\ xy(o2) \in Vectors /\ apart(o1, o2) \in Vectors
      /\ apart(f1, g) \in Vectors /\ apart(f1, f2) \in Vectors
      /\ apart(o1, o2) = [x |-> xy(o2).x - xy(o1).x, y |-> xy(o2).y - xy(o1).y]
  BY <1>0, <1>1 DEF Vectors, SE2
<1>4. turn \in 0..3 /\ back \in 0..3 /\ back = (d.yaw + turn) % 4
  BY <1>0, <1>1
<1> HIDE DEF g, turn, back
<1>5. Rotated(apart(o1, o2), d.yaw) = apart(f1, g)
  <2> DEFINE u1 == Rotated(xy(o1), d.yaw)
             u2 == Rotated(xy(o2), d.yaw)
  <2>1. u1.x \in Int /\ u1.y \in Int /\ u2.x \in Int /\ u2.y \in Int
    BY <1>1, <1>3, RotatedOf DEF Vectors
  <2>2. Rotated(apart(o1, o2), d.yaw) = [x |-> u2.x - u1.x, y |-> u2.y - u1.y]
    <3> DEFINE v == xy(o1)
               w == xy(o2)
    <3>1. v \in Vectors /\ w \in Vectors /\ d.yaw \in 0..3
      BY <1>1, <1>3
    <3>2. apart(o1, o2) = [x |-> w.x - v.x, y |-> w.y - v.y]
      BY <1>3
    <3> HIDE DEF v, w
    <3>3. Rotated([x |-> w.x - v.x, y |-> w.y - v.y], d.yaw)
            = [x |-> Rotated(w, d.yaw).x - Rotated(v, d.yaw).x,
               y |-> Rotated(w, d.yaw).y - Rotated(v, d.yaw).y]
      BY <3>1, RotatedApart
    <3> QED
      BY <3>2, <3>3 DEF v, w
  <2>3. d.x \in Int /\ d.y \in Int
    BY <1>1 DEF SE2
  <2>4. /\ f1.x = d.x + u1.x /\ f1.y = d.y + u1.y
        /\ g.x = d.x + u2.x /\ g.y = d.y + u2.y
    BY <1>2
  <2> HIDE DEF u1, u2
  <2>5. g.x - f1.x = u2.x - u1.x /\ g.y - f1.y = u2.y - u1.y
    BY <2>1, <2>3, <2>4
  <2> QED
    BY <2>2, <2>5
<1>6. Rotated(apart(o1, o2), back) = Rotated(apart(f1, g), turn)
  <2> DEFINE u == apart(o1, o2)
             q == d.yaw
  <2>1. u \in Vectors /\ q \in 0..3 /\ turn \in 0..3 /\ back \in 0..3
        /\ back = (q + turn) % 4 /\ Rotated(u, q) = apart(f1, g)
    BY <1>1, <1>3, <1>4, <1>5
  <2> HIDE DEF u, q, apart
  <2>2. Rotated(Rotated(u, q), turn) = Rotated(u, back)
    BY <2>1, RotatedTwice
  <2> QED
    BY <2>1, <2>2 DEF u
<1> DEFINE v == apart(f1, g)
           w == apart(f1, f2)
           rv == Rotated(v, turn)
           rw == Rotated(w, turn)
           e == [x |-> w.x - v.x, y |-> w.y - v.y]
<1>7. /\ v \in Vectors /\ w \in Vectors /\ e \in Vectors
      /\ e.x = f2.x - g.x /\ e.y = f2.y - g.y
  BY <1>0, <1>1, <1>3 DEF Vectors, SE2
<1>8. /\ Relative(f1, f2).x = rw.x /\ Relative(f1, f2).y = rw.y
      /\ Relative(f1, f2).yaw = (f2.yaw - f1.yaw) % 4
      /\ Relative(o1, o2).x = rv.x /\ Relative(o1, o2).y = rv.y
      /\ Relative(o1, o2).yaw = (o2.yaw - o1.yaw) % 4
  BY <1>6 DEF Relative, turn, back
<1>9. Rotated(e, turn).x = rw.x - rv.x /\ Rotated(e, turn).y = rw.y - rv.y
  <2> HIDE DEF v, w
  <2>1. Rotated([x |-> w.x - v.x, y |-> w.y - v.y], turn)
          = [x |-> Rotated(w, turn).x - Rotated(v, turn).x,
             y |-> Rotated(w, turn).y - Rotated(v, turn).y]
    BY <1>4, <1>7, RotatedApart
  <2> QED
    BY <2>1
<1> HIDE DEF v, w, rv, rw, e
<1>10. Square(rw.x - rv.x) + Square(rw.y - rv.y) = Square(f2.x - g.x) + Square(f2.y - g.y)
  BY <1>4, <1>7, <1>9, RotatedLength
<1>11. (((f2.yaw - f1.yaw) % 4) - ((o2.yaw - o1.yaw) % 4)) % 4 = (f2.yaw - g.yaw) % 4
  <2>1. g.yaw = (d.yaw + o2.yaw) % 4
    BY <1>2
  <2> QED
    BY <1>0, <1>1, <2>1
<1>12. /\ Square(rw.x - rv.x) + Square(rw.y - rv.y) =< MaxTranslation
       /\ QuarterTurns((f2.yaw - g.yaw) % 4) =< MaxYaw
  <2> DEFINE rf == Relative(f1, f2)
             ro == Relative(o1, o2)
  <2>1. /\ Square(rf.x - ro.x) + Square(rf.y - ro.y) =< MaxTranslation
        /\ QuarterTurns((rf.yaw - ro.yaw) % 4) =< MaxYaw
    BY DEF SameMotion
  <2> HIDE DEF rf, ro
  <2>2. /\ rf.x = rw.x /\ rf.y = rw.y /\ ro.x = rv.x /\ ro.y = rv.y
        /\ rf.yaw = (f2.yaw - f1.yaw) % 4 /\ ro.yaw = (o2.yaw - o1.yaw) % 4
    BY <1>8 DEF rf, ro
  <2> QED
    BY <1>11, <2>1, <2>2
<1>13. /\ Square(f2.x - g.x) \in Int /\ Square(f2.y - g.y) \in Int
       /\ QuarterTurns((f2.yaw - g.yaw) % 4) \in Int
       /\ MaxTranslation \in Int /\ MaxYaw \in Int
  <2>1. f2.x - g.x \in Int /\ f2.y - g.y \in Int
    BY <1>0, <1>1 DEF SE2
  <2>2. (f2.yaw - g.yaw) % 4 \in 0..3
    BY <1>0, <1>1 DEF SE2
  <2>3. QuarterTurns((f2.yaw - g.yaw) % 4) \in Int
    BY <2>2 DEF QuarterTurns
  <2>4. Square(f2.x - g.x) \in Int /\ Square(f2.y - g.y) \in Int
    BY <2>1, SquareOf
  <2> QED
    BY <2>3, <2>4, GateAssumption
<1>14. ~Separate(f2, g)
  BY <1>10, <1>12, <1>13 DEF Separate
<1> QED
  BY <1>14 DEF g, d

\* A displacement an anchor and an alias make, of a place odometry can put the
\* vehicle at.
Displaced(offset, fix, odom) ==
  /\ offset \in Displacements /\ odom \in PlacedPath /\ odom \in SE2 /\ fix \in SE2
  /\ offset = Motion(odom, fix)

LEMMA TellsApart ==
  ASSUME LimitsTellApart, NEW d1, NEW d2, NEW f1, NEW f2, NEW o1, NEW o2,
         Displaced(d1, f1, o1), Displaced(d2, f2, o2), SameMotion(f1, f2, o1, o2)
  PROVE  d1 = d2
<1>1. f2 = Placed(d2, o2)
  BY MotionOf DEF Displaced
<1>2. ~Separate(f2, Placed(d1, o2))
  BY SameMotionIsNear DEF Displaced
<1> QED
  BY <1>1, <1>2 DEF LimitsTellApart, Displaced

\* The last k samples were paired with odometry of their own stamp, and put the
\* vehicle at one place.
LastExact(k, samples) ==
  \A i \in (Len(samples) - k + 1)..Len(samples) : samples[i].exact
LastAtOnePlace(k, samples) ==
  \A i \in (Len(samples) - k + 1)..Len(samples) :
    samples[i].offset = samples[Len(samples)].offset

\* As long as its samples are exact, the run the gate counts is at one place,
\* and the last sample of it is the one the gate holds; what was published is
\* such a run of the required length.
AgreementInv ==
  /\ GateInv /\ anchor \in Anchors
  /\ \A e \in history : e.anchor \in Anchors
  /\ gate.consistent =< Len(observed)
  /\ \A k \in 0..gate.consistent :
       LastExact(k, observed) => LastAtOnePlace(k, observed)
  /\ observed = <<>> => gate.sample = <<>>
  /\ observed # <<>> /\ observed[Len(observed)].exact =>
       \E fix, odom : /\ gate.sample = <<fix, odom>>
                      /\ Displaced(observed[Len(observed)].offset, fix, odom)
  /\ reply = "published" => gate.consistent >= Required

LEMMA AgreementStart == GateInit => AgreementInv
<1> SUFFICES ASSUME GateInit PROVE AgreementInv
  OBVIOUS
<1>1. observed = <<>> /\ Len(observed) = 0 /\ gate.sample = <<>> /\ gate.consistent = 0
  BY DEF GateInit, Fresh
<1>2. \A k \in 0..0 : LastAtOnePlace(k, observed)
  BY <1>1 DEF LastAtOnePlace
<1> QED
  BY <1>1, <1>2, GateStart DEF GateInit, AgreementInv

\* A sample is counted on top of a run only if it lies at the place of the run.
LEMMA CountedAtOnePlace ==
  ASSUME LimitsTellApart, AgreementInv, NEW stamp \in DOMAIN Path, StrongFix(stamp), GateInv'
  PROVE  /\ gate'.consistent =< Len(observed')
         /\ \A k \in 0..gate'.consistent :
              LastExact(k, observed') => LastAtOnePlace(k, observed')
         /\ observed' # <<>>
         /\ observed'[Len(observed')].exact =>
              \E fix, odom : /\ gate'.sample = <<fix, odom>>
                             /\ Displaced(observed'[Len(observed')].offset, fix, odom)
         /\ reply' = "published" => gate'.consistent >= Required
<1>1. PICK alias \in Aliases, e \in NearestEntry(stamp) :
        LET fix == Placed(alias, Path[stamp]) IN
        /\ gate' = ObserveSample(fix, e.pose)
        /\ reply' = IF gate'.consistent >= Required THEN "published" ELSE "withheld"
        /\ observed' = Append(observed,
             [offset |-> Motion(Placed(e.anchor, Path[stamp]), fix), exact |-> e.stamp = stamp])
  BY DEF StrongFix
<1> DEFINE fix == Placed(alias, Path[stamp])
           odom == e.pose
           new == [offset |-> Motion(Placed(e.anchor, Path[stamp]), fix),
                   exact |-> e.stamp = stamp]
           n == Len(observed)
<1>2. /\ e \in history /\ e.stamp \in DOMAIN Path /\ e.anchor \in Anchors
      /\ e.pose = Placed(e.anchor, Path[e.stamp])
  BY PathOf DEF NearestEntry, AgreementInv, GateInv
<1>3. new.exact => Displaced(new.offset, fix, odom)
  <2> SUFFICES ASSUME e.stamp = stamp PROVE Displaced(new.offset, fix, odom)
    OBVIOUS
  <2>1. odom = Placed(e.anchor, Path[stamp]) /\ new.offset = Motion(odom, fix)
    BY <1>2
  <2>2. Path[stamp] \in SE2 /\ e.anchor \in SE2 /\ alias \in SE2
    BY <1>2, PathOf
  <2>3. new.offset = Motion(e.anchor, alias)
    BY <2>1, <2>2, OneDisplacement
  <2>4. odom \in PlacedPath /\ new.offset \in Displacements
    BY <1>2, <2>1, <2>3 DEF PlacedPath, Displacements
  <2>5. odom \in SE2 /\ fix \in SE2
    BY <2>1, <2>2, PlacedOf
  <2> HIDE DEF new, fix, odom
  <2> QED
    BY <2>1, <2>4, <2>5 DEF Displaced
<1>4. /\ gate' = ObserveSample(fix, odom) /\ observed' = Append(observed, new)
      /\ reply' = "published" => gate'.consistent >= Required
  BY <1>1
<1> HIDE DEF fix, odom, new
<1>6. /\ observed \in Seq(Samples) /\ n \in Nat /\ observed' \in Seq(Samples)
      /\ gate.consistent \in Nat
  BY DEF AgreementInv, GateInv
<1>7. /\ Len(observed') = n + 1 /\ observed'[n + 1] = new
      /\ \A i \in 1..n : observed'[i] = observed[i]
  BY <1>4, <1>6
<1> DEFINE same == /\ gate.sample # <<>>
                   /\ SameMotion(gate.sample[1], fix, gate.sample[2], odom)
<1>8. /\ gate'.sample = <<fix, odom>>
      /\ gate'.consistent = IF same THEN gate.consistent + 1 ELSE 1
  BY <1>4 DEF ObserveSample
<1>9. ASSUME same, n >= 1, new.exact, observed[n].exact
      PROVE  observed[n].offset = new.offset
  <2>1. observed # <<>>
    BY <1>9, EmptySeq
  <2>2. PICK f, o : gate.sample = <<f, o>> /\ Displaced(observed[n].offset, f, o)
    BY <1>9, <2>1 DEF AgreementInv
  <2>3. SameMotion(f, fix, o, odom)
    BY <1>9, <2>2
  <2> QED
    BY <1>3, <1>9, <2>2, <2>3, TellsApart
<1> HIDE DEF same
<1>10. gate'.consistent =< n + 1
  BY <1>6, <1>8 DEF AgreementInv
<1>11. ASSUME NEW k \in 0..gate'.consistent, LastExact(k, observed')
       PROVE  LastAtOnePlace(k, observed')
  <2> SUFFICES ASSUME NEW i \in (n + 1 - k + 1)..(n + 1)
               PROVE  observed'[i].offset = observed'[n + 1].offset
    BY <1>7 DEF LastAtOnePlace
  <2>1. gate'.consistent \in Nat /\ k \in Nat /\ i \in Int /\ i =< n + 1
    BY <1>6, <1>8
  <2>2. CASE i = n + 1
    BY <2>2
  <2>3. CASE i # n + 1
    <3>1. k >= 2 /\ i =< n /\ same /\ k - 1 \in 0..gate.consistent
      BY <1>6, <1>8, <2>1, <2>3
    <3>2. \A j \in (n + 1 - k + 1)..(n + 1) : observed'[j].exact
      BY <1>7, <1>11 DEF LastExact
    <3>3. gate.consistent =< n /\ n - (k - 1) >= 0
      BY <1>6, <3>1 DEF AgreementInv
    <3>4. LastExact(k - 1, observed)
      <4> SUFFICES ASSUME NEW j \in (n - (k - 1) + 1)..n PROVE observed[j].exact
        BY DEF LastExact
      <4>1. j \in (n + 1 - k + 1)..(n + 1) /\ j \in 1..n
        BY <1>6, <2>1, <3>3
      <4> QED
        BY <1>7, <3>2, <4>1
    <3>5. LastAtOnePlace(k - 1, observed)
      BY <3>1, <3>4 DEF AgreementInv
    <3>6. i \in (n - (k - 1) + 1)..n /\ i \in 1..n /\ n \in (n - (k - 1) + 1)..n /\ n >= 1
      BY <1>6, <2>1, <3>1, <3>3
    <3>7. observed[i].offset = observed[n].offset
      BY <3>5, <3>6 DEF LastAtOnePlace
    <3>8. n + 1 \in (n + 1 - k + 1)..(n + 1)
      BY <1>6, <2>1, <3>1
    <3>9. new.exact /\ observed[n].exact
      BY <1>7, <3>2, <3>4, <3>6, <3>8 DEF LastExact
    <3> QED
      BY <1>7, <1>9, <3>1, <3>6, <3>7, <3>9
  <2> QED
    BY <2>2, <2>3
<1>12. observed' # <<>>
  BY <1>6, <1>7
<1> QED
  BY <1>3, <1>4, <1>7, <1>8, <1>10, <1>11, <1>12

LEMMA AgreementStep ==
  LimitsTellApart /\ AgreementInv /\ [GateNext]_gateVars => AgreementInv'
<1> SUFFICES ASSUME LimitsTellApart, AgreementInv, [GateNext]_gateVars PROVE AgreementInv'
  OBVIOUS
<1>1. GateInv'
  BY GateStep DEF AgreementInv
<1>2. CASE GateWait
  BY <1>1, <1>2 DEF GateWait, AgreementInv
<1>3. CASE MatchAccepted
  BY <1>1, <1>3 DEF MatchAccepted, AgreementInv
<1>4. CASE OnOdomBridgePose
  <2> DEFINE entry == [stamp |-> time, pose |-> Placed(anchor, Path[time]), anchor |-> anchor]
  <2>1. /\ history' \subseteq history \cup {entry} /\ entry.anchor = anchor
        /\ UNCHANGED <<anchor, gate, observed>> /\ reply' = "none"
    BY <1>4 DEF OnOdomBridgePose
  <2> HIDE DEF entry
  <2>2. \A e \in history' : e.anchor \in Anchors
    BY <2>1 DEF AgreementInv
  <2> QED
    BY <1>1, <2>1, <2>2 DEF AgreementInv
<1>5. CASE OnReinitEdge
  <2>1. CASE UNCHANGED <<gate, observed>>
    BY <1>1, <1>5, <2>1 DEF OnReinitEdge, AgreementInv
  <2>2. CASE gate' = Fresh /\ observed' = <<>>
    <3>1. /\ Len(observed') = 0 /\ gate'.consistent = 0 /\ gate'.sample = <<>>
          /\ UNCHANGED <<anchor, history>> /\ reply' = "none"
      BY <1>5, <2>2 DEF OnReinitEdge, Fresh
    <3>2. \A k \in 0..0 : LastAtOnePlace(k, observed')
      BY <3>1 DEF LastAtOnePlace
    <3> QED
      BY <1>1, <2>2, <3>1, <3>2 DEF AgreementInv
  <2> QED
    BY <1>5, <2>1, <2>2 DEF OnReinitEdge
<1>6. CASE OnReply
  <2>1. UNCHANGED <<anchor, history>>
    BY <1>6 DEF OnReply
  <2>2. PICK stamp \in {time, time - 1} \cap DOMAIN Path :
          StrongFix(stamp) \/ NotASample(stamp)
    BY <1>6 DEF OnReply
  <2>3. CASE StrongFix(stamp)
    BY <1>1, <2>1, <2>2, <2>3, CountedAtOnePlace DEF AgreementInv
  <2>4. CASE NotASample(stamp)
    BY <1>1, <2>1, <2>4 DEF NotASample, AgreementInv
  <2> QED
    BY <2>2, <2>3, <2>4
<1>7. CASE UNCHANGED gateVars
  BY <1>1, <1>7 DEF gateVars, AgreementInv
<1> QED
  BY <1>2, <1>3, <1>4, <1>5, <1>6, <1>7 DEF GateNext

\* For every path, every set of aliases and anchors, every required number of
\* samples and across resets of the gate: as long as two displacements never put
\* the vehicle within the limits of one another, no fix is published whose run,
\* each sample paired with odometry of its own stamp, does not lie at one place
\* relative to odometry (_apply_bbs_shadow_motion_gate).
THEOREM PublishedFixesAgree ==
  ASSUME LimitsTellApart
  PROVE  GateSpec => [](OwnOdometry => PublishedAgreesWithOdometry)
<1>1. AgreementInv => (OwnOdometry => PublishedAgreesWithOdometry)
  <2> SUFFICES ASSUME AgreementInv, OwnOdometry, reply = "published" PROVE Agreed
    BY DEF PublishedAgreesWithOdometry
  <2>1. /\ Required \in Nat /\ Len(observed) \in Nat /\ gate.consistent \in Nat
        /\ gate.consistent >= Required /\ gate.consistent =< Len(observed)
    BY GateAssumption DEF AgreementInv, GateInv
  <2>2. LastExact(Required, observed)
    BY DEF OwnOdometry, LastExact
  <2>3. LastAtOnePlace(Required, observed)
    BY <2>1, <2>2 DEF AgreementInv
  <2> QED
    BY <2>1, <2>3 DEF LastAtOnePlace, Agreed, Last
<1>2. AgreementInv /\ [GateNext]_gateVars => AgreementInv'
  BY AgreementStep
<1> QED
  BY <1>1, <1>2, AgreementStart, PTL DEF GateSpec
=============================================================================
