---------------------------- MODULE RobotProofs ----------------------------
(***************************************************************************)
(* The four programs around the robot, in the order of the sections below: *)
(* the command path, the odometry chain, the goal clients of Nav2 and the  *)
(* pose republisher.  They share no state; each section proves about one   *)
(* of the four specifications.                                             *)
(***************************************************************************)
EXTENDS MotionCommands, OdometryChain, NavGoals, Republisher, TLAPS

-----------------------------------------------------------------------------
(***************************************************************************)
(* The command path for every limit, timeout, blend and joint range: no    *)
(* joint target leaves the safe range, the simulated odometry stays finite *)
(* behind the limiter, and the robot stops when commands stop.             *)
(***************************************************************************)

LEMMA MotionConstants ==
  /\ Speeds \subseteq Int /\ Actions \subseteq Int
  /\ NotFinite \notin Int /\ NoCommand \notin Int /\ Silent \notin Int
  /\ NoCommand # NotFinite
  /\ Limit \in Nat /\ MaxX \in Nat /\ Deadband \in Nat
  /\ CommandTimeout \in Nat /\ StateTimeout \in Nat /\ StandTime \in Nat
  /\ ScaleOverride \in Nat /\ ContractScale \in Nat
  /\ SafeLow \in Int /\ SafeHigh \in Int /\ Stand \in Int
  /\ SafeLow <= Stand /\ Stand <= SafeHigh
  /\ BlendDen \in Nat /\ BlendDen > 0 /\ BlendNum \in Nat /\ BlendNum <= BlendDen
  /\ StepLimit \in Nat
  /\ MaxAge \in Nat /\ MaxAge > CommandTimeout /\ MaxAge > StateTimeout
BY MotionAssumption

-----------------------------------------------------------------------------
(* Arithmetic of the controllers.                                          *)

LEMMA ClampedBetween ==
  ASSUME NEW v \in Int, NEW low \in Int, NEW high \in Int, low <= high
  PROVE  Clamped(v, low, high) \in low..high
BY DEF Clamped

\* A quotient is at least every number whose multiple fits, and less than every
\* number whose multiple does not.
LEMMA Quotient ==
  ASSUME NEW e \in Int, NEW d \in Nat, d > 0
  PROVE  /\ e \div d \in Int
         /\ d * (e \div d) <= e /\ e < d * (e \div d) + d
OBVIOUS

LEMMA ProductOrder ==
  ASSUME NEW a \in Int, NEW b \in Int, NEW d \in Nat, d > 0, d * a < d * b + d
  PROVE  a <= b
<1> SUFFICES ASSUME a >= b + 1 PROVE FALSE
  OBVIOUS
<1>1. (a - b - 1) \in Nat
  OBVIOUS
<1>2. d * (a - b - 1) \in Nat
  BY <1>1
<1>3. d * (a - b - 1) = d * a - d * b - d
  OBVIOUS
<1> QED
  BY <1>2, <1>3

\* A weighted mean of two numbers of a range, rounded either way, is in the range.
LEMMA BlendedBetween ==
  ASSUME NEW low \in Int, NEW high \in Int,
         NEW target \in low..high, NEW last \in low..high,
         NEW x \in Blended(target, last)
  PROVE  x \in low..high
<1> DEFINE m == BlendDen - BlendNum
           exact == BlendNum * target + m * last
<1>1. /\ BlendNum \in Nat /\ m \in Nat /\ BlendDen \in Nat /\ BlendDen > 0
      /\ BlendDen = BlendNum + m
  BY MotionConstants
<1>2. x = exact \div BlendDen \/ x = -((-exact) \div BlendDen)
  BY DEF Blended
<1> HIDE DEF m
<1>3. /\ BlendNum * low <= BlendNum * target /\ BlendNum * target <= BlendNum * high
      /\ m * low <= m * last /\ m * last <= m * high
  <2>1. \A n \in Nat, a, b \in Int : a <= b => n * a <= n * b
    <3> TAKE n \in Nat, a, b \in Int
    <3> HAVE a <= b
    <3>1. n * (b - a) \in Nat
      OBVIOUS
    <3>2. n * (b - a) = n * b - n * a
      OBVIOUS
    <3> QED
      BY <3>1, <3>2
  <2> QED
    BY <1>1, <2>1
<1>4. /\ BlendDen * low = BlendNum * low + m * low
      /\ BlendDen * high = BlendNum * high + m * high
  BY <1>1
<1>5. exact \in Int /\ BlendDen * low <= exact /\ exact <= BlendDen * high
  BY <1>1, <1>3, <1>4
<1> HIDE DEF exact
<1>6. CASE x = exact \div BlendDen
  <2>1. x \in Int /\ BlendDen * x <= exact /\ exact < BlendDen * x + BlendDen
    BY <1>1, <1>5, <1>6, Quotient
  <2>2. BlendDen * low < BlendDen * x + BlendDen
    BY <1>1, <1>5, <2>1
  <2>3. BlendDen * x < BlendDen * high + BlendDen
    BY <1>1, <1>5, <2>1
  <2> QED
    BY <1>1, <2>1, <2>2, <2>3, ProductOrder
<1>7. CASE x = -((-exact) \div BlendDen)
  <2> DEFINE q == (-exact) \div BlendDen
  <2>1. q \in Int /\ BlendDen * q <= -exact /\ -exact < BlendDen * q + BlendDen
    BY <1>1, <1>5, Quotient
  <2>2. x = -q
    BY <1>7
  <2> HIDE DEF q
  <2>3. x \in Int /\ BlendDen * x = -(BlendDen * q)
    BY <1>1, <2>1, <2>2
  <2>4. BlendDen * low < BlendDen * x + BlendDen
    BY <1>1, <1>5, <2>1, <2>3
  <2>5. BlendDen * x < BlendDen * high + BlendDen
    BY <1>1, <1>5, <2>1, <2>3
  <2> QED
    BY <1>1, <2>3, <2>4, <2>5, ProductOrder
<1> QED
  BY <1>2, <1>6, <1>7

\* With a blend of one the mean is the target.
LEMMA UnblendedTarget ==
  ASSUME BlendNum = BlendDen, NEW target \in Int, NEW last \in Int,
         NEW x \in Blended(target, last)
  PROVE  x = target
<1> DEFINE exact == BlendNum * target + (BlendDen - BlendNum) * last
<1>1. BlendDen \in Nat /\ BlendDen > 0
  BY MotionConstants
<1>2. exact = BlendDen * target
  BY <1>1
<1>3. x = exact \div BlendDen \/ x = -((-exact) \div BlendDen)
  BY DEF Blended
<1> HIDE DEF exact
<1>4. (BlendDen * target) \div BlendDen = target
  <2> DEFINE q == (BlendDen * target) \div BlendDen
  <2>1. /\ q \in Int /\ BlendDen * q <= BlendDen * target
        /\ BlendDen * target < BlendDen * q + BlendDen
    BY <1>1, Quotient
  <2> HIDE DEF q
  <2>2. target <= q /\ q <= target
    BY <1>1, <2>1, ProductOrder
  <2> QED
    BY <2>1, <2>2 DEF q
<1>5. (-(BlendDen * target)) \div BlendDen = -target
  <2> DEFINE q == (-(BlendDen * target)) \div BlendDen
  <2>0. -(BlendDen * target) = BlendDen * (-target) /\ -target \in Int
    BY <1>1
  <2>1. /\ q \in Int /\ BlendDen * q <= BlendDen * (-target)
        /\ BlendDen * (-target) < BlendDen * q + BlendDen
    BY <1>1, <2>0, Quotient
  <2> HIDE DEF q
  <2>2. -target <= q /\ q <= -target
    BY <1>1, <2>0, <2>1, ProductOrder
  <2> QED
    BY <2>0, <2>1, <2>2 DEF q
<1> QED
  BY <1>2, <1>3, <1>4, <1>5

\* The step limit moves from one number of a range to another, within it.
LEMMA SteppedBetween ==
  ASSUME NEW low \in Int, NEW high \in Int,
         NEW target \in low..high, NEW last \in low..high
  PROVE  Stepped(target, last) \in low..high
BY MotionConstants DEF Stepped, Clamped

LEMMA PolicyTargetSafe ==
  ASSUME clip, NEW action \in Actions \cup {NotFinite}
  PROVE  PolicyTarget(action) \in SafeLow..SafeHigh
<1> DEFINE finite == IF action = NotFinite THEN 0 ELSE action
<1>1. finite \in Int /\ ActionScale \in Int
  BY MotionConstants DEF ActionScale
<1>2. PolicyTarget(action) = Clamped(Stand + ActionScale * finite, SafeLow, SafeHigh)
  BY DEF PolicyTarget
<1> HIDE DEF finite
<1>3. Stand + ActionScale * finite \in Int
  BY <1>1, MotionConstants
<1>4. SafeLow \in Int /\ SafeHigh \in Int /\ SafeLow <= SafeHigh
  BY MotionConstants
<1> QED
  BY <1>2, <1>3, <1>4, ClampedBetween

-----------------------------------------------------------------------------
(* Types, the safe range and what the limiter keeps out.                   *)

\* What arrives behind the limiter is finite, and so is what is stored of it.
FiniteInv ==
  limited => inFlight # NotFinite /\ lastCmd # NotFinite /\ ~poisoned

\* Only the policy controller can be started without the clip.
ClipInv == /\ backend = "rl_sar" => clip
           /\ backend \in {"isaac", "rl_sar"} => out \in Int

SafetyInv == MotionTypeOK /\ TargetStaysSafe /\ FiniteInv /\ ClipInv

Values == Commands \cup Int

LEMMA MotionFields ==
  ASSUME MotionTypeOK
  PROVE  /\ cmdAge \in 0..MaxAge /\ odomAge \in 0..MaxAge /\ jointAge \in 0..MaxAge
         /\ upTime \in 0..MaxAge /\ cmdAge \in Nat /\ seen \in [Joints -> 0..MaxAge]
         /\ sentStop \in BOOLEAN /\ poisoned \in BOOLEAN /\ due \in BOOLEAN
         /\ backend \in Backends /\ limited \in BOOLEAN /\ clip \in BOOLEAN
         /\ inFlight \in Values \cup {NoCommand} /\ lastCmd \in Values
         /\ out \in Values \cup {Silent}
BY MotionConstants DEF MotionTypeOK, Published, Values

LEMMA FieldsTyped ==
  ASSUME /\ cmdAge \in 0..MaxAge /\ odomAge \in 0..MaxAge /\ jointAge \in 0..MaxAge
         /\ upTime \in 0..MaxAge /\ seen \in [Joints -> 0..MaxAge]
         /\ sentStop \in BOOLEAN /\ poisoned \in BOOLEAN /\ due \in BOOLEAN
         /\ backend \in Backends /\ limited \in BOOLEAN /\ clip \in BOOLEAN
         /\ inFlight \in Values \cup {NoCommand} /\ lastCmd \in Values
         /\ out \in Values \cup {Silent}
  PROVE  MotionTypeOK
BY DEF MotionTypeOK, Published, Values

\* A target of the policy, clipped or not, is a number, and so is what is made
\* of it.
LEMMA BlendedType ==
  ASSUME NEW target \in Int, NEW last \in Int, NEW x \in Blended(target, last)
  PROVE  x \in Int
<1> DEFINE exact == BlendNum * target + (BlendDen - BlendNum) * last
<1>1. BlendDen \in Nat /\ BlendDen > 0 /\ exact \in Int /\ -exact \in Int
  BY MotionConstants
<1>2. x = exact \div BlendDen \/ x = -((-exact) \div BlendDen)
  BY DEF Blended
<1> HIDE DEF exact
<1>3. exact \div BlendDen \in Int /\ (-exact) \div BlendDen \in Int
  BY <1>1, Quotient
<1> QED
  BY <1>2, <1>3

LEMMA ControllerType ==
  ASSUME NEW action \in Actions \cup {NotFinite}, NEW last \in Int
  PROVE  /\ PolicyTarget(action) \in Int
         /\ \A target \in Int : \A x \in Blended(target, last) : Stepped(x, last) \in Int
<1> DEFINE finite == IF action = NotFinite THEN 0 ELSE action
<1>1. finite \in Int /\ ActionScale \in Int
  BY MotionConstants DEF ActionScale
<1>2. PolicyTarget(action) = IF clip THEN Clamped(Stand + ActionScale * finite, SafeLow, SafeHigh)
                             ELSE Stand + ActionScale * finite
  BY DEF PolicyTarget
<1> HIDE DEF finite
<1>3. Stand + ActionScale * finite \in Int
  BY <1>1, MotionConstants
<1>4. PolicyTarget(action) \in Int
  BY <1>2, <1>3, MotionConstants DEF Clamped
<1>5. ASSUME NEW target \in Int, NEW x \in Blended(target, last)
      PROVE  Stepped(x, last) \in Int
  <2>1. x \in Int
    BY <1>5, BlendedType
  <2> QED
    BY <2>1, MotionConstants DEF Stepped, Clamped
<1> QED
  BY <1>4, <1>5

LEMMA LimitedFinite ==
  ASSUME NEW v \in Commands
  PROVE  Limited(v) \in Values /\ Limited(v) # NotFinite
<1>1. CASE v = NotFinite
  BY <1>1, MotionConstants DEF Limited, Values
<1>2. CASE v # NotFinite
  <2>1. v \in Int /\ -Limit \in Int /\ Limit \in Int /\ -Limit <= Limit
    BY <1>2, MotionConstants DEF Commands
  <2>2. Clamped(v, -Limit, Limit) \in Int
    BY <2>1, ClampedBetween
  <2> QED
    BY <1>2, <2>2, MotionConstants DEF Limited, Values
<1> QED
  BY <1>1, <1>2

LEMMA BridgeFinite ==
  ASSUME NEW v \in Values
  PROVE  BridgeCommand(v) \in Int
<1> DEFINE finite == IF v = NotFinite THEN 0 ELSE v
           low == IF AllowReverse THEN -MaxX ELSE 0
<1>1. finite \in Int
  BY MotionConstants DEF Values, Commands
<1>2. low \in Int /\ MaxX \in Int /\ low <= MaxX
  BY MotionConstants
<1>3. BridgeCommand(v) = IF MagnitudeOf(Clamped(finite, low, MaxX)) < Deadband
                         THEN 0 ELSE Clamped(finite, low, MaxX)
  BY DEF BridgeCommand
<1> HIDE DEF finite, low
<1>4. Clamped(finite, low, MaxX) \in Int
  BY <1>1, <1>2, ClampedBetween
<1> QED
  BY <1>3, <1>4

LEMMA AgeType ==
  ASSUME NEW age \in 0..MaxAge
  PROVE  /\ Aged(age) \in 0..MaxAge
         /\ age < MaxAge => Aged(age) = age + 1
         /\ age >= MaxAge => Aged(age) = age
BY MotionConstants DEF Aged

\* A controller that moves from a safe target publishes a safe target.
LEMMA ControllerSafe ==
  ASSUME NEW target \in SafeLow..SafeHigh, out \in SafeLow..SafeHigh,
         NEW blended \in Blended(target, out)
  PROVE  Stepped(blended, out) \in SafeLow..SafeHigh
<1>1. SafeLow \in Int /\ SafeHigh \in Int
  BY MotionConstants
<1>2. blended \in SafeLow..SafeHigh
  BY <1>1, BlendedBetween
<1> QED
  BY <1>1, <1>2, SteppedBetween

LEMMA SafetyInit == MotionInit => SafetyInv
<1> SUFFICES ASSUME MotionInit PROVE SafetyInv
  OBVIOUS
<1>1. /\ 0 \in 0..MaxAge /\ MaxAge \in 0..MaxAge /\ 0 \in Values
      /\ Stand \in Values /\ Stand \in SafeLow..SafeHigh /\ 0 # NotFinite
      /\ Stand \in Int
  BY MotionConstants DEF Values
<1>2. MotionTypeOK
  <2>1. /\ sentStop \in BOOLEAN /\ poisoned \in BOOLEAN /\ due \in BOOLEAN
        /\ limited \in BOOLEAN /\ clip \in BOOLEAN
    BY DEF MotionInit
  <2>2. seen \in [Joints -> 0..MaxAge]
    BY <1>1 DEF MotionInit
  <2> QED
    BY <1>1, <2>1, <2>2, FieldsTyped DEF MotionInit
<1>3. TargetStaysSafe
  BY <1>1 DEF MotionInit, TargetStaysSafe
<1>4. FiniteInv
  BY <1>1, MotionConstants DEF MotionInit, FiniteInv
<1>5. ClipInv
  BY <1>1 DEF MotionInit, ClipInv
<1> QED
  BY <1>2, <1>3, <1>4, <1>5 DEF SafetyInv

\* The steps that leave the outputs alone.
LEMMA InputSafety ==
  ASSUME SafetyInv,
         \/ \E v \in Commands : NavCommands(v)
         \/ OnCmd \/ CommandLost \/ OnOdometry \/ OnImu
         \/ \E carried \in SUBSET Joints : OnJointState(carried)
         \/ Period
  PROVE  SafetyInv'
<1>0. MotionTypeOK /\ 0 \in 0..MaxAge /\ TargetStaysSafe /\ FiniteInv /\ ClipInv
  BY MotionConstants DEF SafetyInv
<1>a. ASSUME UNCHANGED <<backend, clip, out>>
      PROVE  TargetStaysSafe' /\ ClipInv'
  BY <1>0, <1>a DEF TargetStaysSafe, ClipInv
<1>1. CASE \E v \in Commands : NavCommands(v)
  <2>1. PICK v \in Commands : NavCommands(v)
    BY <1>1
  <2>2. inFlight' \in Values \cup {NoCommand} /\ (limited => inFlight' # NotFinite)
    BY <2>1, LimitedFinite DEF NavCommands, Values
  <2>3. UNCHANGED <<backend, limited, clip, lastCmd, cmdAge, odomAge, jointAge, seen,
                    upTime, out, sentStop, poisoned, due>>
    BY <2>1 DEF NavCommands
  <2>4. MotionTypeOK'
    BY <1>0, <2>2, <2>3, MotionFields, FieldsTyped DEF MotionTypeOK, Published, Values
  <2> QED
    BY <1>0, <1>a, <2>2, <2>3, <2>4 DEF SafetyInv, FiniteInv
<1>2. CASE OnCmd
  <2>1. inFlight \in Values
    BY <1>0, <1>2, MotionFields DEF OnCmd
  <2>2. lastCmd' \in Values /\ (limited => lastCmd' # NotFinite)
    BY <1>0, <1>2, <2>1, BridgeFinite, MotionConstants DEF OnCmd, FiniteInv, Values
  <2>3. /\ cmdAge' = 0 /\ inFlight' = NoCommand /\ sentStop' = FALSE
        /\ UNCHANGED <<backend, limited, clip, odomAge, jointAge, seen, upTime, out,
                       poisoned, due>>
    BY <1>2 DEF OnCmd
  <2>4. MotionTypeOK'
    BY <1>0, <2>2, <2>3 DEF MotionTypeOK, Values
  <2>5. FiniteInv'
    BY <1>0, <2>2, <2>3, MotionConstants DEF FiniteInv
  <2> QED
    BY <1>a, <2>3, <2>4, <2>5 DEF SafetyInv
<1>3. CASE CommandLost
  <2>1. /\ inFlight' = NoCommand
        /\ UNCHANGED <<backend, limited, clip, lastCmd, cmdAge, odomAge, jointAge, seen,
                       upTime, out, sentStop, poisoned, due>>
    BY <1>3 DEF CommandLost
  <2>2. MotionTypeOK' /\ FiniteInv'
    BY <1>0, <2>1, MotionConstants DEF MotionTypeOK, FiniteInv
  <2> QED
    BY <1>a, <2>1, <2>2 DEF SafetyInv
<1>4. CASE OnOdometry \/ OnImu
  <2>1. /\ odomAge' = 0
        /\ UNCHANGED <<backend, limited, clip, inFlight, lastCmd, cmdAge, jointAge, seen,
                       upTime, out, sentStop, poisoned, due>>
    BY <1>4 DEF OnOdometry, OnImu
  <2>2. MotionTypeOK' /\ FiniteInv'
    BY <1>0, <2>1 DEF MotionTypeOK, FiniteInv
  <2> QED
    BY <1>a, <2>1, <2>2 DEF SafetyInv
<1>5. CASE \E carried \in SUBSET Joints : OnJointState(carried)
  <2>1. PICK carried \in SUBSET Joints : OnJointState(carried)
    BY <1>5
  <2>2. /\ jointAge' \in {0, jointAge} /\ seen' = JointsSeen(carried)
        /\ UNCHANGED <<backend, limited, clip, inFlight, lastCmd, cmdAge, odomAge, upTime,
                       out, sentStop, poisoned, due>>
    BY <2>1 DEF OnJointState
  <2>3. seen' \in [Joints -> 0..MaxAge]
    BY <1>0, <2>2 DEF MotionTypeOK, JointsSeen
  <2>4. MotionTypeOK' /\ FiniteInv'
    BY <1>0, <2>2, <2>3 DEF MotionTypeOK, FiniteInv
  <2> QED
    BY <1>a, <2>2, <2>4 DEF SafetyInv
<1>6. CASE Period
  <2>1. /\ cmdAge' \in 0..MaxAge /\ odomAge' \in 0..MaxAge
        /\ jointAge' \in 0..MaxAge /\ upTime' \in 0..MaxAge /\ due' = TRUE
        /\ seen' = [j \in Joints |-> Aged(seen[j])]
        /\ UNCHANGED <<backend, limited, clip, inFlight, lastCmd, out, sentStop, poisoned>>
    BY <1>0, <1>6, MotionFields, AgeType DEF Period
  <2>2. seen' \in [Joints -> 0..MaxAge]
    <3>1. \A j \in Joints : Aged(seen[j]) \in 0..MaxAge
      BY <1>0, AgeType DEF MotionTypeOK
    <3> QED
      BY <2>1, <3>1
  <2>3. MotionTypeOK' /\ FiniteInv'
    BY <1>0, <2>1, <2>2 DEF MotionTypeOK, FiniteInv
  <2> QED
    BY <1>a, <2>1, <2>3 DEF SafetyInv
<1> QED
  BY <1>1, <1>2, <1>3, <1>4, <1>5, <1>6

LEMMA TimerSafety ==
  ASSUME SafetyInv, BridgeTimer \/ PolicyTimer \/ RlSarTimer \/ SimulatorTimer
  PROVE  SafetyInv'
<1>0. /\ MotionTypeOK /\ TargetStaysSafe /\ FiniteInv /\ ClipInv
      /\ Stand \in SafeLow..SafeHigh /\ Stand \in Int
  BY MotionConstants DEF SafetyInv
<1>1. /\ due' = FALSE
      /\ UNCHANGED <<backend, limited, clip, inFlight, lastCmd, cmdAge, odomAge,
                     jointAge, seen, upTime>>
  BY DEF BridgeTimer, PolicyTimer, RlSarTimer, SimulatorTimer, TimerFires, KeepsInputs
<1>2. ASSUME out' \in Published, sentStop' \in BOOLEAN, poisoned' \in BOOLEAN
      PROVE  MotionTypeOK'
  BY <1>0, <1>1, <1>2 DEF MotionTypeOK
<1>3. CASE BridgeTimer
  <2>0. /\ backend = "go2w" /\ poisoned' = poisoned
        /\ out' \in {out, 0, lastCmd}
        /\ sentStop' = TRUE \/ sentStop' = sentStop
    BY <1>3 DEF BridgeTimer, TimerFires
  <2>a. sentStop \in BOOLEAN
    BY <1>0, MotionFields
  <2>b. sentStop' \in BOOLEAN
    BY <2>0, <2>a
  <2>c. out' \in Published
    BY <1>0, <2>0, MotionFields DEF Published, Values
  <2>1. backend = "go2w" /\ sentStop' \in BOOLEAN /\ poisoned' = poisoned
        /\ out' \in Published
    BY <2>0, <2>b, <2>c
  <2>2. poisoned' \in BOOLEAN
    BY <1>0, <2>1, MotionFields
  <2>3. TargetStaysSafe' /\ ClipInv'
    BY <1>1, <2>1 DEF TargetStaysSafe, ClipInv
  <2> QED
    BY <1>0, <1>1, <1>2, <2>1, <2>2, <2>3 DEF SafetyInv, FiniteInv
<1>4. CASE PolicyTimer \/ RlSarTimer
  <2>1. /\ backend \in {"isaac", "rl_sar"} /\ UNCHANGED <<sentStop, poisoned>>
        /\ out \in Int /\ (clip => out \in SafeLow..SafeHigh)
    BY <1>0, <1>4 DEF PolicyTimer, RlSarTimer, TimerFires, TargetStaysSafe, ClipInv
  <2>2. \/ out' \in {Stand, out}
        \/ \E target \in Int : /\ clip => target \in SafeLow..SafeHigh
                               /\ \E blended \in Blended(target, out) :
                                    out' = Stepped(blended, out)
    <3>1. \A action \in Actions \cup {NotFinite} :
            /\ PolicyTarget(action) \in Int
            /\ clip => PolicyTarget(action) \in SafeLow..SafeHigh
      BY <2>1, ControllerType, PolicyTargetSafe
    <3>2. CASE PolicyTimer
      <4>1. PICK action \in Actions \cup {NotFinite} :
              \E blended \in Blended(IF Standing THEN Stand ELSE PolicyTarget(action), out) :
                out' = Stepped(blended, out)
        BY <3>2 DEF PolicyTimer
      <4> QED
        BY <1>0, <3>1, <4>1
    <3>3. CASE RlSarTimer
      BY <3>1, <3>3 DEF RlSarTimer
    <3> QED
      BY <1>4, <3>2, <3>3
  <2>3. out' \in Int
    BY <1>0, <2>1, <2>2, ControllerType, MotionConstants
  <2>4. clip => out' \in SafeLow..SafeHigh
    BY <1>0, <2>1, <2>2, ControllerSafe
  <2>5. out' \in Published /\ sentStop' \in BOOLEAN /\ poisoned' \in BOOLEAN
    BY <1>0, <2>1, <2>3, MotionFields DEF Published
  <2>6. TargetStaysSafe' /\ ClipInv'
    BY <1>0, <1>1, <2>3, <2>4 DEF TargetStaysSafe, ClipInv
  <2> QED
    BY <1>0, <1>1, <1>2, <2>1, <2>5, <2>6 DEF SafetyInv, FiniteInv
<1>5. CASE SimulatorTimer
  <2>1. backend = "simulated" /\ sentStop' = sentStop
    BY <1>5 DEF SimulatorTimer, TimerFires
  <2>2. SimulatedTwist \in Commands \cup Int
        /\ (limited => SimulatedTwist # NotFinite)
    BY <1>0, MotionConstants, MotionFields DEF SimulatedTwist, FiniteInv, Values
  <2>3. /\ out' \in Published /\ poisoned' \in BOOLEAN
        /\ limited => ~poisoned'
    <3>1. CASE UNCHANGED <<out, poisoned>>
      BY <1>0, <3>1, MotionFields DEF FiniteInv, Published, Values
    <3>2. CASE out' = SimulatedTwist /\ poisoned' = (poisoned \/ SimulatedTwist = NotFinite)
      <4>1. out' \in Published
        BY <2>2, <3>2 DEF Published
      <4>2. poisoned' \in BOOLEAN /\ (limited => ~poisoned')
        BY <1>0, <2>2, <3>2 DEF FiniteInv
      <4> QED
        BY <4>1, <4>2
    <3> QED
      BY <1>5, <3>1, <3>2 DEF SimulatorTimer
  <2>4. sentStop' \in BOOLEAN
    BY <1>0, <2>1, MotionFields
  <2>5. TargetStaysSafe' /\ ClipInv'
    BY <1>1, <2>1 DEF TargetStaysSafe, ClipInv
  <2> QED
    BY <1>0, <1>1, <1>2, <2>1, <2>3, <2>4, <2>5 DEF SafetyInv, FiniteInv
<1> QED
  BY <1>3, <1>4, <1>5

LEMMA SafetyStep == SafetyInv /\ [MotionNext]_motionVars => SafetyInv'
<1> SUFFICES ASSUME SafetyInv, [MotionNext]_motionVars PROVE SafetyInv'
  OBVIOUS
<1>1. CASE UNCHANGED motionVars
  BY <1>1 DEF motionVars, SafetyInv, MotionTypeOK, TargetStaysSafe, FiniteInv, ClipInv
<1> QED
  BY <1>1, InputSafety, TimerSafety DEF MotionNext

\* The commands, ages and outputs on the path are well typed, whatever numbers
\* arrive on it.
THEOREM MotionTypeCorrect == MotionSpec => []MotionTypeOK
<1>1. SafetyInv => MotionTypeOK
  BY DEF SafetyInv
<1> QED
  BY <1>1, SafetyInit, SafetyStep, PTL DEF MotionSpec

\* For every blend, step limit and joint range the controllers' targets stay in
\* that range, and behind the limiter the simulated odometry stays finite.
THEOREM RobotIsSafe == MotionSpec => []RobotStaysSafe
<1>1. SafetyInv => RobotStaysSafe
  BY DEF SafetyInv, FiniteInv, RobotStaysSafe, OdometryStaysFinite
<1> QED
  BY <1>1, SafetyInit, SafetyStep, PTL DEF MotionSpec

-----------------------------------------------------------------------------
(* Stopping and standing.  A controller stands for one of three causes, and *)
(* the argument is the same for each: how late its message is bounds how    *)
(* far the target is from the stand pose.                                   *)

Causes == {"command", "joints", "odometry"}

\* How long after its timeout a message is still missing.
Lateness(cause) ==
  CASE cause = "command" -> cmdAge - CommandTimeout
    [] cause = "joints" -> jointAge - StateTimeout
    [] cause = "odometry" -> odomAge - StateTimeout

\* The causes the options of the policy controller let it stand for.
StandsFor(cause) ==
  CASE cause = "command" -> ~RunIdle
    [] cause = "joints" -> StandIfStale
    [] cause = "odometry" -> StandIfStale /\ RequireOdom

PlainPolicy == clip /\ BlendNum = BlendDen /\ StepLimit > 0

BridgeInv ==
  backend = "go2w" =>
    /\ sentStop => out = 0 /\ cmdAge > CommandTimeout
    /\ EnableOutput /\ ~due /\ cmdAge > CommandTimeout => sentStop

RlSarInv ==
  backend = "rl_sar" /\ ~due =>
    \A cause \in Causes : Lateness(cause) > 0 => out = Stand

\* A timer that has not fired yet in this period leaves the robot one step
\* further away.
PolicyInv ==
  backend = "isaac" /\ PlainPolicy =>
    \A cause \in Causes : StandsFor(cause) /\ Lateness(cause) > 0 =>
      /\ ~due => MagnitudeOf(out - Stand) <= Bound(Lateness(cause))
      /\ due => MagnitudeOf(out - Stand) <= Bound(Lateness(cause) - 1)

\* The age of the joint states is that of a joint's state, or less than all.
JointsInv == \E j \in Joints : seen[j] <= jointAge

StopInv == BridgeInv /\ RlSarInv /\ PolicyInv /\ JointsInv

LEMMA LatenessIs ==
  /\ Lateness("command") = cmdAge - CommandTimeout
  /\ Lateness("joints") = jointAge - StateTimeout
  /\ Lateness("odometry") = odomAge - StateTimeout
BY DEF Lateness

LEMMA LatenessType ==
  ASSUME MotionTypeOK
  PROVE  \A cause \in Causes : Lateness(cause) \in Int
<1>1. cmdAge \in Int /\ jointAge \in Int /\ odomAge \in Int
  BY MotionFields, MotionConstants
<1> QED
  BY <1>1, LatenessIs, MotionConstants DEF Causes

\* One step towards the stand pose is a whole step, or arrives.
LEMMA Approach ==
  ASSUME NEW last \in SafeLow..SafeHigh, NEW k \in Nat, k > 0,
         MagnitudeOf(last - Stand) <= Bound(k - 1)
  PROVE  MagnitudeOf(Stepped(Stand, last) - Stand) <= Bound(k)
         \/ StepLimit = 0
<1>1. /\ StandRange \in Nat /\ Stand \in Int /\ last \in Int /\ StepLimit \in Nat
  BY MotionConstants DEF StandRange
<1>2. (k - 1) * StepLimit = k * StepLimit - StepLimit
  BY <1>1
<1>3. k * StepLimit \in Nat
  BY <1>1
<1> DEFINE p == k * StepLimit
<1>4. MagnitudeOf(last - Stand) <= IF StandRange > p - StepLimit
                                   THEN StandRange - (p - StepLimit) ELSE 0
  BY <1>2 DEF Bound
<1>5. p \in Nat /\ Bound(k) = IF StandRange > p THEN StandRange - p ELSE 0
  BY <1>3 DEF Bound
<1> HIDE DEF p
<1>6. CASE last > Stand + StepLimit /\ StepLimit > 0
  <2>1. Stepped(Stand, last) = last - StepLimit
    BY <1>1, <1>6 DEF Stepped, Clamped
  <2> QED
    BY <1>1, <1>4, <1>5, <1>6, <2>1 DEF MagnitudeOf
<1>7. CASE last < Stand - StepLimit /\ StepLimit > 0
  <2>1. Stepped(Stand, last) = last + StepLimit
    BY <1>1, <1>7 DEF Stepped, Clamped
  <2> QED
    BY <1>1, <1>4, <1>5, <1>7, <2>1 DEF MagnitudeOf
<1>8. CASE last <= Stand + StepLimit /\ last >= Stand - StepLimit /\ StepLimit > 0
  <2>1. Stepped(Stand, last) = Stand
    BY <1>1, <1>8 DEF Stepped, Clamped
  <2> QED
    BY <1>1, <1>5, <2>1 DEF MagnitudeOf
<1> QED
  BY <1>1, <1>6, <1>7, <1>8

\* The longer the way back has lasted, the nearer is the bound.
LEMMA BoundFallsBetween ==
  ASSUME NEW k \in Nat, NEW l \in Nat, k <= l
  PROVE  Bound(k) \in Int /\ Bound(l) \in Int /\ Bound(l) <= Bound(k)
<1>1. StandRange \in Nat /\ StepLimit \in Nat
  BY MotionConstants DEF StandRange
<1>2. (l - k) * StepLimit \in Nat
  BY <1>1
<1>3. (l - k) * StepLimit = l * StepLimit - k * StepLimit
  BY <1>1
<1> DEFINE p == k * StepLimit
           q == l * StepLimit
<1>4. p \in Nat /\ q \in Nat /\ p <= q
  BY <1>1, <1>2, <1>3
<1>5. /\ Bound(k) = IF StandRange > p THEN StandRange - p ELSE 0
      /\ Bound(l) = IF StandRange > q THEN StandRange - q ELSE 0
  BY DEF Bound
<1> HIDE DEF p, q
<1> QED
  BY <1>1, <1>4, <1>5

LEMMA StandsWithin ==
  ASSUME NEW last \in SafeLow..SafeHigh
  PROVE  MagnitudeOf(last - Stand) <= Bound(0)
<1>1. 0 * StepLimit = 0 /\ StandRange \in Nat
  BY MotionConstants DEF StandRange
<1>2. Bound(0) = StandRange
  BY <1>1 DEF Bound
<1> QED
  BY <1>2, MotionConstants DEF StandRange, MagnitudeOf

LEMMA StopInit == MotionInit => StopInv
<1> SUFFICES ASSUME MotionInit PROVE StopInv
  OBVIOUS
<1>0. MotionTypeOK
  BY SafetyInit DEF SafetyInv
<1>1. BridgeInv /\ RlSarInv
  BY DEF MotionInit, BridgeInv, RlSarInv
<1>2. PolicyInv
  <2> SUFFICES ASSUME backend = "isaac", NEW cause \in Causes, Lateness(cause) > 0
               PROVE  MagnitudeOf(out - Stand) <= Bound(Lateness(cause) - 1)
    BY DEF MotionInit, PolicyInv
  <2>1. out = Stand
    BY DEF MotionInit
  <2>2. MagnitudeOf(out - Stand) = 0
    BY <2>1, MotionConstants DEF MagnitudeOf
  <2> DEFINE k == Lateness(cause) - 1
  <2>3. k \in Int
    BY <1>0, LatenessType
  <2> HIDE DEF k
  <2>4. Bound(k) >= 0
    <3>1. StandRange \in Int /\ k * StepLimit \in Int
      BY <2>3, MotionConstants DEF StandRange
    <3> QED
      BY <3>1 DEF Bound
  <2> QED
    BY <2>2, <2>4 DEF k
<1>3. JointsInv
  <2>1. PICK j \in Joints : TRUE
    BY MotionAssumption
  <2>2. seen[j] = MaxAge /\ jointAge = MaxAge
    BY DEF MotionInit
  <2> QED
    BY <2>2, MotionConstants DEF JointsInv
<1> QED
  BY <1>1, <1>2, <1>3 DEF StopInv

\* An input makes one of the ages zero or leaves all of them.
LEMMA InputStops ==
  ASSUME SafetyInv, StopInv,
         \/ \E v \in Commands : NavCommands(v)
         \/ OnCmd \/ CommandLost \/ OnOdometry \/ OnImu
         \/ \E carried \in SUBSET Joints : OnJointState(carried)
  PROVE  StopInv'
<1>0. MotionTypeOK
  BY DEF SafetyInv
<1>1. ASSUME UNCHANGED <<backend, clip, out, due>>,
             cmdAge' \in {cmdAge, 0}, jointAge' \in {jointAge, 0},
             odomAge' \in {odomAge, 0}
      PROVE  RlSarInv' /\ PolicyInv'
  <2>1. \A cause \in Causes : Lateness(cause)' > 0 => Lateness(cause)' = Lateness(cause)
    <3>1. /\ Lateness("command")' = cmdAge' - CommandTimeout
          /\ Lateness("joints")' = jointAge' - StateTimeout
          /\ Lateness("odometry")' = odomAge' - StateTimeout
      BY DEF Lateness
    <3>2. ~(0 - CommandTimeout > 0) /\ ~(0 - StateTimeout > 0)
      BY MotionConstants
    <3> QED
      BY <1>1, <3>1, <3>2, LatenessIs DEF Causes
  <2>2. \A cause \in Causes : StandsFor(cause)' = StandsFor(cause)
    BY DEF Causes, StandsFor
  <2>3. RlSarInv'
    BY <1>1, <2>1 DEF StopInv, RlSarInv
  <2>4. PolicyInv'
    BY <1>1, <2>1, <2>2 DEF StopInv, PolicyInv, PlainPolicy
  <2> QED
    BY <2>3, <2>4
<1>2. CASE OnCmd
  <2>1. /\ cmdAge' = 0 /\ sentStop' = FALSE
        /\ UNCHANGED <<backend, clip, out, due, jointAge, odomAge, seen>>
    BY <1>2 DEF OnCmd
  <2>2. ~(cmdAge' > CommandTimeout)
    BY <2>1, MotionConstants
  <2>3. BridgeInv' /\ JointsInv'
    BY <2>1, <2>2 DEF StopInv, BridgeInv, JointsInv
  <2> QED
    BY <1>1, <2>1, <2>3 DEF StopInv
<1>3. CASE (\E v \in Commands : NavCommands(v)) \/ CommandLost \/ OnOdometry \/ OnImu
  <2>1. /\ UNCHANGED <<backend, clip, out, due, cmdAge, sentStop, jointAge, seen>>
        /\ odomAge' \in {odomAge, 0}
    BY <1>3 DEF NavCommands, CommandLost, OnOdometry, OnImu
  <2>2. BridgeInv' /\ JointsInv'
    BY <2>1 DEF StopInv, BridgeInv, JointsInv
  <2> QED
    BY <1>1, <2>1, <2>2 DEF StopInv
<1>4. CASE \E carried \in SUBSET Joints : OnJointState(carried)
  <2>1. PICK carried \in SUBSET Joints : OnJointState(carried)
    BY <1>4
  <2>2. /\ jointAge' = IF carried # {} THEN 0 ELSE jointAge
        /\ seen' = JointsSeen(carried)
        /\ UNCHANGED <<backend, clip, out, due, cmdAge, sentStop, odomAge>>
    BY <2>1 DEF OnJointState
  <2>3. JointsInv'
    <3>1. CASE carried = {}
      <4>1. PICK j \in Joints : seen[j] <= jointAge
        BY DEF StopInv, JointsInv
      <4>2. seen'[j] = seen[j] /\ jointAge' = jointAge
        BY <2>2, <3>1 DEF JointsSeen
      <4> QED
        BY <4>1, <4>2 DEF JointsInv
    <3>2. CASE carried # {}
      <4>1. PICK j \in carried : TRUE
        BY <3>2
      <4>2. j \in Joints /\ seen'[j] = 0 /\ jointAge' = 0
        BY <2>2, <3>2, <4>1 DEF JointsSeen
      <4> QED
        BY <4>2 DEF JointsInv
    <3> QED
      BY <3>1, <3>2
  <2>4. BridgeInv'
    BY <2>2 DEF StopInv, BridgeInv
  <2> QED
    BY <1>1, <2>2, <2>3, <2>4 DEF StopInv
<1> QED
  BY <1>2, <1>3, <1>4

LEMMA PeriodStops ==
  ASSUME SafetyInv, StopInv, Period
  PROVE  StopInv'
<1>1. /\ cmdAge \in 0..MaxAge /\ jointAge \in 0..MaxAge /\ odomAge \in 0..MaxAge
      /\ MotionTypeOK
  BY MotionFields DEF SafetyInv
<1>2. /\ ~due /\ due' = TRUE /\ cmdAge' = Aged(cmdAge)
      /\ jointAge' = Aged(jointAge) /\ odomAge' = Aged(odomAge)
      /\ seen' = [j \in Joints |-> Aged(seen[j])]
      /\ UNCHANGED <<backend, limited, clip, inFlight, lastCmd, out, sentStop, poisoned>>
  BY DEF Period
<1>3. \A age \in 0..MaxAge : Aged(age) = age + 1 \/ Aged(age) = age
  BY MotionConstants DEF Aged
<1>4. BridgeInv' /\ RlSarInv'
  <2>1. cmdAge > CommandTimeout => cmdAge' > CommandTimeout
    BY <1>1, <1>2, <1>3, MotionConstants
  <2> QED
    BY <1>2, <2>1 DEF StopInv, BridgeInv, RlSarInv
<1>5. ASSUME backend = "isaac", PlainPolicy, NEW cause \in Causes, StandsFor(cause),
             Lateness(cause)' > 0
      PROVE  MagnitudeOf(out - Stand) <= Bound(Lateness(cause)' - 1)
  <2> DEFINE k == Lateness(cause)
             l == Lateness(cause)'
  <2>1. out \in SafeLow..SafeHigh
    BY <1>5 DEF SafetyInv, TargetStaysSafe, PlainPolicy
  <2>2. k \in Int
    BY <1>1, LatenessType
  <2>3. l = k + 1 \/ l = k
    <3>1. /\ Lateness("command")' = cmdAge' - CommandTimeout
          /\ Lateness("joints")' = jointAge' - StateTimeout
          /\ Lateness("odometry")' = odomAge' - StateTimeout
      BY DEF Lateness
    <3>2. /\ Lateness("command")' = Lateness("command") + 1
             \/ Lateness("command")' = Lateness("command")
          /\ Lateness("joints")' = Lateness("joints") + 1
             \/ Lateness("joints")' = Lateness("joints")
          /\ Lateness("odometry")' = Lateness("odometry") + 1
             \/ Lateness("odometry")' = Lateness("odometry")
      <4>1. /\ cmdAge' = cmdAge + 1 \/ cmdAge' = cmdAge
            /\ jointAge' = jointAge + 1 \/ jointAge' = jointAge
            /\ odomAge' = odomAge + 1 \/ odomAge' = odomAge
        BY <1>1, <1>2, <1>3
      <4> QED
        BY <1>1, <3>1, <4>1, LatenessIs, MotionConstants
    <3> QED
      BY <1>5, <3>2 DEF Causes
  <2>4. l > 0
    BY <1>5
  <2>5. k > 0 => MagnitudeOf(out - Stand) <= Bound(k)
    BY <1>2, <1>5 DEF StopInv, PolicyInv
  <2> HIDE DEF k, l
  <2>6. ASSUME l = k + 1, k = 0
        PROVE  MagnitudeOf(out - Stand) <= Bound(l - 1)
    <3>1. l - 1 = 0
      BY <2>6
    <3> QED
      BY <2>1, <3>1, StandsWithin
  <2>7. ASSUME l = k + 1, k > 0
        PROVE  MagnitudeOf(out - Stand) <= Bound(l - 1)
    <3>1. l - 1 = k
      BY <2>2, <2>7
    <3> QED
      BY <2>5, <2>7, <3>1
  <2>8. ASSUME l = k
        PROVE  MagnitudeOf(out - Stand) <= Bound(l - 1)
    <3>1. k \in Nat /\ k - 1 \in Nat /\ k - 1 <= k
      BY <2>2, <2>4, <2>8
    <3>2. /\ Bound(k) <= Bound(k - 1)
          /\ Bound(k) \in Int /\ Bound(k - 1) \in Int
      BY <3>1, BoundFallsBetween
    <3>3. MagnitudeOf(out - Stand) \in Int
      BY <2>1, MotionConstants DEF MagnitudeOf
    <3> QED
      BY <2>4, <2>5, <2>8, <3>1, <3>2, <3>3
  <2>9. MagnitudeOf(out - Stand) <= Bound(l - 1)
    BY <2>2, <2>3, <2>4, <2>6, <2>7, <2>8
  <2> QED
    BY <2>9 DEF l
<1>6. PolicyInv'
  <2>1. PlainPolicy' = PlainPolicy /\ \A cause \in Causes : StandsFor(cause)' = StandsFor(cause)
    BY <1>2 DEF PlainPolicy, Causes, StandsFor
  <2> QED
    BY <1>2, <1>5, <2>1 DEF PolicyInv
<1>7. JointsInv'
  <2>1. PICK j \in Joints : seen[j] <= jointAge
    BY DEF StopInv, JointsInv
  <2>2. seen[j] \in 0..MaxAge /\ seen'[j] = Aged(seen[j]) /\ jointAge' = Aged(jointAge)
    BY <1>1, <1>2 DEF MotionTypeOK
  <2>3. Aged(seen[j]) <= Aged(jointAge)
    BY <1>1, <2>1, <2>2, MotionConstants DEF Aged
  <2> QED
    BY <2>2, <2>3 DEF JointsInv
<1> QED
  BY <1>4, <1>6, <1>7 DEF StopInv

LEMMA TimerStops ==
  ASSUME SafetyInv, StopInv, BridgeTimer \/ PolicyTimer \/ RlSarTimer \/ SimulatorTimer
  PROVE  StopInv'
<1>1. /\ cmdAge \in 0..MaxAge /\ jointAge \in 0..MaxAge /\ odomAge \in 0..MaxAge
      /\ MotionTypeOK
  BY MotionFields DEF SafetyInv
<1>2. /\ due /\ due' = FALSE
      /\ UNCHANGED <<backend, clip, cmdAge, lastCmd, jointAge, odomAge, seen>>
  BY DEF BridgeTimer, PolicyTimer, RlSarTimer, SimulatorTimer, TimerFires, KeepsInputs
<1>3. /\ PlainPolicy' = PlainPolicy /\ JointsInv'
      /\ \A cause \in Causes : /\ StandsFor(cause)' = StandsFor(cause)
                               /\ Lateness(cause)' = Lateness(cause)
  BY <1>2 DEF PlainPolicy, Causes, StandsFor, Lateness, StopInv, JointsInv
\* A message that is late makes the stored state stale, or the command inactive.
<1>4. ASSUME NEW cause \in Causes, Lateness(cause) > 0
      PROVE  /\ cause = "command" => ~CommandActive /\ ~Recent(cmdAge, CommandTimeout)
             /\ cause = "joints" => StateStale
             /\ cause = "odometry" /\ (backend = "isaac" => RequireOdom) => StateStale
  <2>1. /\ cause = "command" => ~Recent(cmdAge, CommandTimeout)
        /\ cause = "joints" => ~Recent(jointAge, StateTimeout)
        /\ cause = "odometry" => ~Recent(odomAge, StateTimeout)
    BY <1>1, <1>4, LatenessIs, MotionConstants DEF Recent
  <2> QED
    BY <2>1 DEF CommandActive, StateStale
<1>5. CASE BridgeTimer
  <2>1. /\ backend = "go2w"
        /\ ~EnableOutput => out' = out /\ sentStop' = sentStop
        /\ EnableOutput /\ cmdAge > CommandTimeout => sentStop'
        /\ EnableOutput /\ cmdAge > CommandTimeout =>
             out' = IF sentStop THEN out ELSE 0
        /\ EnableOutput /\ ~(cmdAge > CommandTimeout) => sentStop' = sentStop
    BY <1>5 DEF BridgeTimer, TimerFires, BridgeStopped
  <2>2. BridgeInv'
    BY <1>2, <2>1 DEF StopInv, BridgeInv
  <2> QED
    BY <1>2, <1>3, <2>1, <2>2 DEF StopInv, RlSarInv, PolicyInv
<1>6. CASE RlSarTimer
  <2>1. backend = "rl_sar" /\ (RlSarHolds => out' = Stand)
    BY <1>6 DEF RlSarTimer, TimerFires
  <2>2. \A cause \in Causes : Lateness(cause) > 0 => RlSarHolds
    BY <1>4, <2>1 DEF RlSarHolds, Causes
  <2>3. RlSarInv'
    BY <1>3, <2>1, <2>2 DEF RlSarInv
  <2> QED
    BY <1>2, <1>3, <2>1, <2>3 DEF StopInv, BridgeInv, PolicyInv
<1>7. CASE PolicyTimer
  <2>1. backend = "isaac"
    BY <1>7 DEF PolicyTimer, TimerFires
  <2>2. ASSUME PlainPolicy, NEW cause \in Causes, StandsFor(cause), Lateness(cause) > 0
        PROVE  MagnitudeOf(out' - Stand) <= Bound(Lateness(cause))
    <3>1. Standing
      <4>1. /\ cause = "command" => ~RunIdle
            /\ cause = "joints" => StandIfStale
            /\ cause = "odometry" => StandIfStale /\ RequireOdom
        BY <2>2 DEF StandsFor
      <4> QED
        BY <1>4, <2>2, <4>1 DEF Standing, Causes
    <3>2. PICK blended \in Blended(Stand, out) : out' = Stepped(blended, out)
      BY <1>7, <3>1 DEF PolicyTimer
    <3>3. out \in SafeLow..SafeHigh /\ out \in Int /\ Stand \in Int
      BY <2>1, <2>2, MotionConstants DEF SafetyInv, TargetStaysSafe, PlainPolicy
    <3>4. blended = Stand
      BY <2>2, <3>2, <3>3, UnblendedTarget DEF PlainPolicy
    <3> DEFINE k == Lateness(cause)
    <3>5. k \in Int /\ k > 0 /\ MagnitudeOf(out - Stand) <= Bound(k - 1)
      BY <1>1, <1>2, <2>1, <2>2, LatenessType DEF StopInv, PolicyInv
    <3> HIDE DEF k
    <3>6. StepLimit # 0 /\ k \in Nat
      BY <2>2, <3>5, MotionConstants DEF PlainPolicy
    <3>7. MagnitudeOf(Stepped(Stand, out) - Stand) <= Bound(k)
      BY <3>3, <3>5, <3>6, Approach
    <3> QED
      BY <3>2, <3>4, <3>7 DEF k
  <2>3. PolicyInv'
    BY <1>2, <1>3, <2>2 DEF PolicyInv
  <2> QED
    BY <1>2, <1>3, <2>1, <2>3 DEF StopInv, BridgeInv, RlSarInv
<1>8. CASE SimulatorTimer
  <2>1. backend = "simulated"
    BY <1>8 DEF SimulatorTimer, TimerFires
  <2> QED
    BY <1>2, <1>3, <2>1 DEF StopInv, BridgeInv, RlSarInv, PolicyInv
<1> QED
  BY <1>5, <1>6, <1>7, <1>8

LEMMA StopStep == SafetyInv /\ StopInv /\ [MotionNext]_motionVars => StopInv'
<1> SUFFICES ASSUME SafetyInv, StopInv, [MotionNext]_motionVars PROVE StopInv'
  OBVIOUS
<1>1. CASE UNCHANGED motionVars
  BY <1>1 DEF motionVars, StopInv, BridgeInv, RlSarInv, PolicyInv, JointsInv,
              PlainPolicy, Causes, StandsFor, Lateness
<1> QED
  BY <1>1, InputStops, PeriodStops, TimerStops DEF MotionNext

\* A controller that has had a cause to stand for k periods is that far back.
LEMMA HasReturned ==
  ASSUME SafetyInv, StopInv, ~due, NEW cause \in Causes, Lateness(cause) > 0,
         backend = "isaac" => StandsFor(cause)
  PROVE  Returned(Lateness(cause))
BY DEF StopInv, RlSarInv, PolicyInv, PlainPolicy, Returned

\* The robot stops when commands stop: the bridge and the rl_sar controller with
\* the first timer after the timeout, the policy controller by a step limit a
\* period, for every timeout, step limit and joint range.
THEOREM RobotStops == MotionSpec => []StopsWhenSilent
<1>1. SafetyInv /\ StopInv => StopsWhenSilent
  <2> SUFFICES ASSUME SafetyInv, StopInv, ~due, Silence > 0
               PROVE  /\ backend = "go2w" /\ EnableOutput => out = 0
                      /\ (backend = "isaac" => ~RunIdle) => Returned(Silence)
    BY DEF StopsWhenSilent
  <2>1. cmdAge > CommandTimeout
    BY MotionFields, MotionConstants DEF SafetyInv, Silence
  <2>2. backend = "go2w" /\ EnableOutput => out = 0
    BY <2>1 DEF StopInv, BridgeInv
  <2>3. Lateness("command") = Silence /\ "command" \in Causes
        /\ StandsFor("command") = ~RunIdle
    BY DEF Lateness, Silence, Causes, StandsFor
  <2> QED
    BY <2>2, <2>3, HasReturned
<1> QED
  BY <1>1, SafetyInit, SafetyStep, StopInit, StopStep, PTL DEF MotionSpec

\* A controller that no joint has reported to, or no odometry, goes back to the
\* stand pose, whatever the messages that do arrive carry, for every set of
\* joints, timeout and step limit.
THEOREM RobotStands == MotionSpec => []StopsWhenBlind
<1>1. SafetyInv /\ StopInv => StopsWhenBlind
  <2> SUFFICES ASSUME SafetyInv, StopInv, ~due, backend = "isaac" => StandIfStale
               PROVE  /\ \A k \in 1..MaxAge :
                           (\A j \in Joints : seen[j] >= StateTimeout + k) => Returned(k)
                      /\ odomAge > StateTimeout /\ (backend = "isaac" => RequireOdom) =>
                           Returned(odomAge - StateTimeout)
    BY DEF StopsWhenBlind
  <2>0. /\ jointAge \in 0..MaxAge /\ odomAge \in 0..MaxAge /\ MotionTypeOK
        /\ "joints" \in Causes /\ "odometry" \in Causes
        /\ StandsFor("joints") = StandIfStale
        /\ StandsFor("odometry") = (StandIfStale /\ RequireOdom)
    BY MotionFields DEF SafetyInv, Causes, StandsFor
  <2>1. ASSUME NEW k \in 1..MaxAge, \A j \in Joints : seen[j] >= StateTimeout + k
        PROVE  Returned(k)
    <3> DEFINE l == Lateness("joints")
    <3>1. PICK j \in Joints : seen[j] <= jointAge
      BY DEF StopInv, JointsInv
    <3>2. seen[j] \in Int /\ seen[j] >= StateTimeout + k
      BY <2>0, <2>1 DEF MotionTypeOK
    <3>3. l \in Nat /\ k \in Nat /\ k <= l /\ l > 0
      BY <2>0, <3>1, <3>2, LatenessIs, MotionConstants
    <3>4. Returned(l)
      BY <2>0, <3>3, HasReturned
    <3> HIDE DEF l
    <3>5. Bound(l) <= Bound(k) /\ Bound(l) \in Int /\ Bound(k) \in Int
      BY <3>3, BoundFallsBetween
    <3>6. CASE backend = "isaac" /\ clip
      <4>1. MagnitudeOf(out - Stand) \in Int
        BY <3>6, MotionConstants DEF SafetyInv, TargetStaysSafe, MagnitudeOf
      <4> QED
        BY <3>4, <3>5, <3>6, <4>1 DEF Returned
    <3>7. CASE ~(backend = "isaac" /\ clip)
      BY <3>4, <3>7 DEF Returned
    <3> QED
      BY <3>6, <3>7
  <2>2. ASSUME odomAge > StateTimeout, backend = "isaac" => RequireOdom
        PROVE  Returned(odomAge - StateTimeout)
    <3>1. Lateness("odometry") = odomAge - StateTimeout /\ Lateness("odometry") > 0
      BY <2>0, <2>2, LatenessIs, MotionConstants
    <3> QED
      BY <2>0, <2>2, <3>1, HasReturned
  <2> QED
    BY <2>1, <2>2
<1> QED
  BY <1>1, SafetyInit, SafetyStep, StopInit, StopStep, PTL DEF MotionSpec

-----------------------------------------------------------------------------
(***************************************************************************)
(* The odometry chain: the types, and that the pose Nav2 plans from is     *)
(* corrected gradually, for every limit, blend and grid.                   *)
(***************************************************************************)

(* The checks that a zero would switch off are on.                         *)
LimitsOn == MaxJump > 0 /\ MaxLinearSpeed > 0

(* Dividing by the denominator of alpha rounds down by less than one.      *)
LEMMA Rounding ==
  ASSUME NEW n \in Int, NEW d \in Nat \ {0}
  PROVE  /\ n \div d \in Int
         /\ d * (n \div d) <= n /\ n < d * (n \div d) + d
OBVIOUS

(* A product with a positive factor keeps the order.                       *)
LEMMA Scaling ==
  ASSUME NEW a \in Int, NEW b \in Int, NEW d \in Nat \ {0}, d * a < d * b + d
  PROVE  a <= b
<1> SUFFICES ASSUME a >= b + 1 PROVE FALSE
  OBVIOUS
<1>1. d * a >= d * (b + 1)
  OBVIOUS
<1>2. d * (b + 1) = d * b + d
  OBVIOUS
<1> QED
  BY <1>1, <1>2

----------------------------------------------------------------------------
(* The weighted mean of two cells in units of 1 / AlphaDen, and a cell it    *)
(* rounds to, either way.                                                    *)
Mean(c, t) == AlphaNum * t + (AlphaDen - AlphaNum) * c
RoundsTo(n, q) == AlphaDen * q < n + AlphaDen /\ n < AlphaDen * q + AlphaDen

(* From c towards t, not past it, and by at most BlendStep.                  *)
Moves(c, t, q) ==
  /\ c <= t => c <= q /\ q <= t /\ q - c <= BlendStep
  /\ t <= c => t <= q /\ q <= c /\ c - q <= BlendStep

LEMMA Parameters ==
  /\ AlphaDen \in Nat \ {0} /\ AlphaNum \in 0..AlphaDen /\ MaxStep \in Nat
  /\ BlendStep \in Int /\ AlphaNum * MaxStep <= AlphaDen * BlendStep
<1>1. AlphaDen \in Nat \ {0} /\ AlphaNum \in 0..AlphaDen /\ MaxStep \in Nat
  BY OdometryAssumption DEF OdometryAssumption
<1> DEFINE w == AlphaNum * MaxStep + AlphaDen - 1
<1>2. w \in Int /\ AlphaNum * MaxStep \in Int
  BY <1>1
<1>3. w \div AlphaDen \in Int /\ w < AlphaDen * (w \div AlphaDen) + AlphaDen
  BY <1>1, <1>2, Rounding
<1>4. BlendStep \in Int /\ w < AlphaDen * BlendStep + AlphaDen
  BY <1>3 DEF BlendStep
<1> QED
  BY <1>1, <1>2, <1>4

(* A rounded mean moves from the first cell towards the second.              *)
LEMMA MeanMoves ==
  ASSUME NEW c \in Int, NEW t \in Int, DistanceOf(t, c) <= MaxStep,
         NEW q \in Int, RoundsTo(Mean(c, t), q)
  PROVE  Moves(c, t, q)
<1> DEFINE d == AlphaDen
           a == AlphaNum
           m == MaxStep
           k == BlendStep
           e == a * t + (d - a) * c
<1>0. /\ a \in Int /\ d \in Nat \ {0} /\ a >= 0 /\ a <= d /\ m \in Nat /\ k \in Int
      /\ e \in Int /\ a * m \in Int
  BY Parameters
<1>1. d * q < e + d /\ e < d * q + d
  BY DEF RoundsTo, Mean
<1>2. a * m <= d * k
  BY Parameters
<1>3. e = d * c + a * (t - c)
  BY <1>0
<1>4. ASSUME c <= t PROVE c <= q /\ q <= t /\ q - c <= k
  <2>1. t - c \in Nat /\ t - c <= m
    BY <1>4 DEF DistanceOf
  <2>2. a * (t - c) >= 0 /\ a * (t - c) <= d * (t - c) /\ a * (t - c) <= a * m
    BY <1>0, <2>1
  <2>3. d * c <= e /\ e <= d * t
    BY <1>0, <1>3, <2>2
  <2>4. e <= d * (c + k)
    <3>1. d * (c + k) = d * c + d * k
      BY <1>0
    <3> QED
      BY <1>0, <1>2, <1>3, <2>2, <3>1
  <2>5. c <= q
    BY <1>0, <1>1, <2>3, Scaling
  <2>6. q <= t
    <3>1. d * q < d * t + d
      BY <1>0, <1>1, <2>3
    <3> QED
      BY <1>0, <3>1, Scaling
  <2>7. q <= c + k
    <3>1. d * q < d * (c + k) + d
      BY <1>0, <1>1, <2>4
    <3> QED
      BY <1>0, <3>1, Scaling
  <2> QED
    BY <1>0, <2>5, <2>6, <2>7
<1>5. ASSUME t <= c PROVE t <= q /\ q <= c /\ c - q <= k
  <2>1. c - t \in Nat /\ c - t <= m
    BY <1>5 DEF DistanceOf
  <2>2. a * (c - t) >= 0 /\ a * (c - t) <= d * (c - t) /\ a * (c - t) <= a * m
    BY <1>0, <2>1
  <2>3. e = d * c - a * (c - t)
    BY <1>0
  <2>4. d * t <= e /\ e <= d * c
    BY <1>0, <2>2, <2>3
  <2>5. d * (c - k) <= e
    <3>1. d * (c - k) = d * c - d * k
      BY <1>0
    <3> QED
      BY <1>0, <1>2, <2>2, <2>3, <3>1
  <2>6. t <= q
    BY <1>0, <1>1, <2>4, Scaling
  <2>7. q <= c
    <3>1. d * q < d * c + d
      BY <1>0, <1>1, <2>4
    <3> QED
      BY <1>0, <3>1, Scaling
  <2>8. c - k <= q
    <3>1. d * (c - k) < d * q + d
      BY <1>0, <1>1, <2>5
    <3> QED
      BY <1>0, <3>1, Scaling
  <2> QED
    BY <1>0, <2>6, <2>7, <2>8
<1> QED
  BY <1>4, <1>5 DEF Moves

----------------------------------------------------------------------------
(* The corrector's blend moves the correction towards its target and not    *)
(* past it, by at most BlendStep (on_timer, filter_correction).             *)
LEMMA BlendedCorrection ==
  ASSUME Known(correction), correction.x \in Int,
         NEW target \in Int, StepIsValid(target), NEW x \in FilteredTarget(target)
  PROVE  x \in Int /\ Moves(correction.x, target, x)
<1> DEFINE e == Mean(correction.x, target)
<1>1. e \in Int
  BY Parameters DEF Mean
<1>2. \/ AlphaNum = AlphaDen /\ x = target
      \/ x = e \div AlphaDen \/ x = -((-e) \div AlphaDen)
  BY DEF FilteredTarget, Mean
<1>3. CASE AlphaNum = AlphaDen /\ x = target
  <2>1. e = AlphaDen * target
    BY <1>3, Parameters DEF Mean
  <2>2. RoundsTo(e, x)
    BY <1>3, <2>1, Parameters DEF RoundsTo
  <2> QED
    BY <1>3, <2>2, MeanMoves DEF StepIsValid
<1>4. CASE x = e \div AlphaDen
  <2>1. /\ e \div AlphaDen \in Int
        /\ AlphaDen * (e \div AlphaDen) <= e
        /\ e < AlphaDen * (e \div AlphaDen) + AlphaDen
    BY <1>1, Parameters, Rounding
  <2>2. x \in Int /\ AlphaDen * x <= e /\ e < AlphaDen * x + AlphaDen
    BY <1>4, <2>1
  <2>3. RoundsTo(e, x)
    BY <1>1, <2>2, Parameters DEF RoundsTo
  <2> QED
    BY <2>2, <2>3, MeanMoves DEF StepIsValid
<1>5. CASE x = -((-e) \div AlphaDen)
  <2>1. -e \in Int
    BY <1>1
  <2>2. /\ (-e) \div AlphaDen \in Int
        /\ AlphaDen * ((-e) \div AlphaDen) <= -e
        /\ -e < AlphaDen * ((-e) \div AlphaDen) + AlphaDen
    BY <2>1, Parameters, Rounding
  <2>3. x \in Int /\ (-e) \div AlphaDen = -x
    BY <1>5, <2>2
  <2>4. AlphaDen * (-x) = -(AlphaDen * x)
    BY <2>3, Parameters
  <2>5. RoundsTo(e, x)
    BY <1>1, <2>2, <2>3, <2>4, Parameters DEF RoundsTo
  <2> QED
    BY <2>3, <2>5, MeanMoves DEF StepIsValid
<1> QED
  BY <1>2, <1>3, <1>4, <1>5

----------------------------------------------------------------------------
(* The inductive invariant: what Nav2 was sent last is where the filter     *)
(* stands, with a twist below the speed limit.                              *)
SpeedIsBounded == Known(nav) => DistanceOf(nav.twist.dx, 0) <= MaxLinearSpeed * nav.twist.dt
NavIsAccepted == Known(nav) => Known(lastValid) /\ nav.x = lastValid.x
OdometryInv == OdometryTypeOK /\ NavIsAccepted /\ SpeedIsBounded

(* A known pose has its fields, and a record of two fields is a known one.  *)
LEMMA KnownFields ==
  ASSUME OdometryTypeOK
  PROVE  /\ Known(lastValid) => lastValid \in [x : MapCells, stamp : Stamps]
         /\ Known(nav) => nav \in [x : MapCells, twist : [dx : Int, dt : Nat \ {0}]]
         /\ Known(localPose) => localPose.x \in Int
         /\ Known(externalPose) => externalPose.x \in Int
         /\ Known(correction) => correction.x \in Int
BY DEF OdometryTypeOK, Known, Poses

LEMMA OdometryInvInit == OdometryInit => OdometryInv
BY DEF OdometryInit, OdometryInv, OdometryTypeOK, NavIsAccepted, SpeedIsBounded, Known, Poses

(* An accepted estimate keeps the speed limit.                              *)
LEMMA AcceptedIsSlow ==
  ASSUME OdometryInv, LimitsOn, NEW x \in Cells, NEW stamp \in Stamps, NEW sane \in BOOLEAN,
         Plausible(x, stamp, sane)
  PROVE  /\ DerivedTwist(x, stamp) \in [dx : Int, dt : Nat \ {0}]
         /\ DistanceOf(DerivedTwist(x, stamp).dx, 0) <= MaxLinearSpeed * DerivedTwist(x, stamp).dt
         /\ Known(lastValid) => DistanceOf(x, lastValid.x) <= MaxJump
<1>1. x \in Int /\ stamp \in Nat /\ MaxLinearSpeed \in Nat /\ MaxJump \in Nat
  BY OdometryAssumption DEF OdometryAssumption
<1>2. CASE Known(lastValid) /\ stamp > lastValid.stamp
  <2>1. lastValid.x \in Int /\ lastValid.stamp \in Nat
    BY <1>2, KnownFields, OdometryAssumption DEF OdometryInv, OdometryAssumption
  <2>2. DerivedTwist(x, stamp) = [dx |-> x - lastValid.x, dt |-> stamp - lastValid.stamp]
    BY <1>2 DEF DerivedTwist
  <2>3. DistanceOf(x, lastValid.x) <= MaxLinearSpeed * (stamp - lastValid.stamp)
    <3>1. ~(stamp - lastValid.stamp > 0 /\ MaxLinearSpeed > 0
            /\ DistanceOf(x, lastValid.x) > MaxLinearSpeed * (stamp - lastValid.stamp))
      BY <1>2 DEF Plausible, Follows
    <3>2. DistanceOf(x, lastValid.x) \in Int /\ MaxLinearSpeed * (stamp - lastValid.stamp) \in Int
      BY <1>1, <2>1 DEF DistanceOf
    <3> QED
      BY <1>1, <1>2, <2>1, <3>1, <3>2 DEF LimitsOn
  <2>4. DistanceOf(x - lastValid.x, 0) = DistanceOf(x, lastValid.x)
    BY <1>1, <2>1 DEF DistanceOf
  <2>5. DistanceOf(x, lastValid.x) <= MaxJump
    BY <1>1, <1>2, <2>1 DEF Plausible, Follows, Exceeds, LimitsOn, DistanceOf
  <2> QED
    BY <1>1, <1>2, <2>1, <2>2, <2>3, <2>4, <2>5
<1>3. CASE ~(Known(lastValid) /\ stamp > lastValid.stamp)
  <2>1. DerivedTwist(x, stamp) = [dx |-> 0, dt |-> 1]
    BY <1>3 DEF DerivedTwist
  <2>2. Known(lastValid) => lastValid.x \in Int
    BY KnownFields, OdometryAssumption DEF OdometryInv, OdometryAssumption
  <2>3. Known(lastValid) => DistanceOf(x, lastValid.x) <= MaxJump
    BY <1>1, <2>2 DEF Plausible, Follows, Exceeds, LimitsOn, DistanceOf
  <2> QED
    BY <1>1, <2>1, <2>3 DEF DistanceOf
<1> QED
  BY <1>2, <1>3

LEMMA OdometryInvStep ==
  ASSUME OdometryInv, LimitsOn, [OdometryNext]_odometryVars
  PROVE  OdometryInv'
<1> USE DEF OdometryInv
<1>1. ASSUME NEW x \in Cells, NEW stamp \in Stamps, NEW sane \in BOOLEAN, OnOdom(x, stamp, sane)
      PROVE  OdometryInv'
  <2>1. UNCHANGED correctorVars
    BY <1>1 DEF OnOdom
  <2>2. CASE Plausible(x, stamp, sane)
    <3>1. /\ nav' = [x |-> x, twist |-> DerivedTwist(x, stamp)]
          /\ lastValid' = [x |-> x, stamp |-> stamp]
      BY <1>1, <2>2 DEF OnOdom, Accept
    <3>2. x \in MapCells
      BY <2>2 DEF Plausible
    <3>3. OdometryTypeOK'
      BY <2>1, <2>2, <3>1, <3>2, AcceptedIsSlow DEF OdometryTypeOK, correctorVars
    <3>4. NavIsAccepted'
      BY <3>1 DEF NavIsAccepted, Known, NoPose
    <3>5. SpeedIsBounded'
      BY <2>2, <3>1, AcceptedIsSlow DEF SpeedIsBounded
    <3> QED
      BY <3>3, <3>4, <3>5
  <2>3. CASE ~Plausible(x, stamp, sane)
    <3>1. lastValid' = lastValid
      BY <1>1, <2>3 DEF OnOdom, RepeatLast
    <3>2. CASE nav' = nav
      BY <2>1, <3>1, <3>2 DEF OdometryTypeOK, NavIsAccepted, SpeedIsBounded, Known, correctorVars
    <3>3. CASE Known(nav) /\ nav' = [nav EXCEPT !.twist = [dx |-> 0, dt |-> 1]]
      <4>1. nav \in [x : MapCells, twist : [dx : Int, dt : Nat \ {0}]]
        BY <3>3, KnownFields
      <4>2. /\ nav' \in [x : MapCells, twist : [dx : Int, dt : Nat \ {0}]]
            /\ nav'.x = nav.x /\ nav'.twist = [dx |-> 0, dt |-> 1]
        BY <3>3, <4>1
      <4>3. OdometryTypeOK'
        BY <2>1, <3>1, <4>2 DEF OdometryTypeOK, correctorVars
      <4>4. NavIsAccepted'
        BY <3>1, <3>3, <4>2 DEF NavIsAccepted, Known
      <4>5. SpeedIsBounded'
        BY <4>2, OdometryAssumption DEF SpeedIsBounded, DistanceOf, OdometryAssumption
      <4> QED
        BY <4>3, <4>4, <4>5
    <3> QED
      BY <1>1, <2>3, <3>2, <3>3 DEF OnOdom, RepeatLast
  <2> QED
    BY <2>2, <2>3
<1>2. CASE OnLocalOdom
  <2>1. nav.x \in Int
    BY <1>2, KnownFields, OdometryAssumption DEF OnLocalOdom, OdometryAssumption
  <2> QED
    BY <1>2, <2>1
       DEF OnLocalOdom, OdometryTypeOK, NavIsAccepted, SpeedIsBounded, Known, Poses, CellAt, filterVars
<1>3. ASSUME NEW x \in MapCells, NEW sane \in BOOLEAN, OnExternalPose(x, sane)
      PROVE  OdometryInv'
  <2>1. x \in Int
    BY OdometryAssumption DEF OdometryAssumption
  <2> QED
    BY <1>3, <2>1
       DEF OnExternalPose, OdometryTypeOK, NavIsAccepted, SpeedIsBounded, Known, Poses, CellAt, filterVars
<1>4. CASE CorrectorTimer
  <2>1. TargetCorrection \in Int
    BY <1>4, KnownFields DEF CorrectorTimer, TargetCorrection
  <2>2. PICK x \in FilteredTarget(TargetCorrection) : correction' = CellAt(x)
    BY <1>4 DEF CorrectorTimer
  <2>3. x \in Int
    <3>1. CASE Known(correction)
      BY <1>4, <2>1, <3>1, KnownFields, BlendedCorrection DEF CorrectorTimer
    <3>2. CASE ~Known(correction)
      BY <2>1, <3>2 DEF FilteredTarget
    <3> QED
      BY <3>1, <3>2
  <2> QED
    BY <1>4, <2>2, <2>3
       DEF CorrectorTimer, OdometryTypeOK, NavIsAccepted, SpeedIsBounded, Known, Poses, CellAt, filterVars
<1>5. CASE UNCHANGED odometryVars
  BY <1>5 DEF odometryVars, OdometryTypeOK, NavIsAccepted, SpeedIsBounded, Known
<1> QED
  BY <1>1, <1>2, <1>3, <1>4, <1>5 DEF OdometryNext

THEOREM OdometryInvariant ==
  ASSUME LimitsOn PROVE OdometrySpec => []OdometryInv
<1>1. OdometryInv /\ [OdometryNext]_odometryVars => OdometryInv'
  BY OdometryInvStep
<1> QED
  BY <1>1, OdometryInvInit, PTL DEF OdometrySpec

----------------------------------------------------------------------------
(* One step moves the place Nav2 sees by no more than the odometry jump or  *)
(* the blended correction.                                                  *)
LEMMA StepIsGradual ==
  ASSUME OdometryInv, OdometryInv', LimitsOn, [OdometryNext]_odometryVars
  PROVE  [/\ BothKnown => \/ DistanceOf(MapPose', MapPose) <= MaxJump
                        \/ DistanceOf(MapPose', MapPose) <= BlendStep
          /\ Known(nav)' => DistanceOf(nav'.twist.dx, 0) <= MaxLinearSpeed * nav'.twist.dt]_odometryVars
<1>1. Known(nav)' => DistanceOf(nav'.twist.dx, 0) <= MaxLinearSpeed * nav'.twist.dt
  BY DEF OdometryInv, SpeedIsBounded, Known
<1>2. ASSUME BothKnown
      PROVE  /\ nav.x \in Int /\ correction.x \in Int /\ MaxJump \in Nat
             /\ Known(lastValid) /\ nav.x = lastValid.x
  BY <1>2, KnownFields, OdometryAssumption
     DEF OdometryInv, BothKnown, OdometryAssumption, NavIsAccepted
<1>3. ASSUME NEW x \in Cells, NEW stamp \in Stamps, NEW sane \in BOOLEAN,
             OnOdom(x, stamp, sane), BothKnown
      PROVE  DistanceOf(MapPose', MapPose) <= MaxJump
  <2>1. correction' = correction
    BY <1>3 DEF OnOdom, correctorVars
  <2>2. x \in Int
    BY OdometryAssumption DEF OdometryAssumption
  <2>3. CASE Plausible(x, stamp, sane)
    <3>1. nav'.x = x
      BY <1>3, <2>3 DEF OnOdom, Accept
    <3>2. DistanceOf(x, nav.x) <= MaxJump
      BY <1>2, <1>3, <2>3, AcceptedIsSlow
    <3> QED
      BY <1>2, <1>3, <2>1, <2>2, <3>1, <3>2 DEF MapPose, DistanceOf
  <2>4. CASE ~Plausible(x, stamp, sane)
    <3>1. nav \in [x : MapCells, twist : [dx : Int, dt : Nat \ {0}]]
      BY <1>3, KnownFields DEF OdometryInv, BothKnown
    <3>2. nav'.x = nav.x
      BY <1>3, <2>4, <3>1 DEF OnOdom, RepeatLast
    <3> QED
      BY <1>2, <1>3, <2>1, <3>2 DEF MapPose, DistanceOf
  <2> QED
    BY <2>3, <2>4
<1>4. ASSUME CorrectorTimer, BothKnown PROVE DistanceOf(MapPose', MapPose) <= BlendStep
  <2>1. PICK x \in FilteredTarget(TargetCorrection) : correction' = CellAt(x)
    BY <1>4 DEF CorrectorTimer
  <2>2. TargetCorrection \in Int
    BY <1>4, KnownFields DEF OdometryInv, CorrectorTimer, TargetCorrection
  <2>3. x \in Int /\ Moves(correction.x, TargetCorrection, x)
    BY <1>2, <1>4, <2>1, <2>2, BlendedCorrection DEF CorrectorTimer, BothKnown
  <2>4. DistanceOf(x, correction.x) <= BlendStep
    BY <1>2, <1>4, <2>2, <2>3, Parameters DEF Moves, DistanceOf
  <2>5. correction'.x = x /\ nav' = nav
    BY <1>4, <2>1 DEF CorrectorTimer, CellAt, filterVars
  <2> QED
    BY <1>2, <1>4, <2>3, <2>4, <2>5 DEF MapPose, DistanceOf
<1>5. ASSUME UNCHANGED <<nav, correction>>, BothKnown PROVE DistanceOf(MapPose', MapPose) <= MaxJump
  BY <1>2, <1>5 DEF MapPose, DistanceOf
<1>6. CASE OnLocalOdom
  BY <1>1, <1>5, <1>6 DEF OnLocalOdom, filterVars
<1>7. ASSUME NEW x \in MapCells, NEW sane \in BOOLEAN, OnExternalPose(x, sane)
      PROVE  UNCHANGED <<nav, correction>>
  BY <1>7 DEF OnExternalPose, filterVars
<1> QED
  BY <1>1, <1>3, <1>4, <1>5, <1>6, <1>7 DEF OdometryNext

(* A correction of the odometry Nav2 uses never leads away from the external *)
(* pose.                                                                    *)
LEMMA StepIsTowardsExternal ==
  ASSUME OdometryInv, OdometryInv', LimitsOn, [OdometryNext]_odometryVars
  PROVE  [correction' # correction /\ BothKnown /\ localPose = CellAt(nav.x)
            => DistanceOf(MapPose', externalPose.x) <= DistanceOf(MapPose, externalPose.x)]_odometryVars
<1> SUFFICES ASSUME correction' # correction, BothKnown, localPose = CellAt(nav.x), [OdometryNext]_odometryVars
             PROVE  DistanceOf(MapPose', externalPose.x) <= DistanceOf(MapPose, externalPose.x)
  OBVIOUS
<1>1. CorrectorTimer
  BY DEF OdometryNext, odometryVars, OnOdom, OnLocalOdom, OnExternalPose, correctorVars
<1>2. /\ nav.x \in Int /\ correction.x \in Int /\ externalPose.x \in Int
      /\ TargetCorrection = externalPose.x - nav.x
  BY <1>1, KnownFields, OdometryAssumption
     DEF OdometryInv, BothKnown, OdometryAssumption, CorrectorTimer, TargetCorrection, CellAt
<1>3. PICK x \in FilteredTarget(TargetCorrection) : correction' = CellAt(x)
  BY <1>1 DEF CorrectorTimer
<1>4. x \in Int /\ Moves(correction.x, TargetCorrection, x)
  BY <1>1, <1>2, <1>3, BlendedCorrection DEF CorrectorTimer, BothKnown
<1>5. correction'.x = x /\ nav' = nav
  BY <1>1, <1>3 DEF CorrectorTimer, CellAt, filterVars
<1> QED
  BY <1>2, <1>4, <1>5 DEF Moves, MapPose, DistanceOf

(* The types hold in every behaviour (fastlio_nav2_odom_filter,             *)
(* external_pose_map_corrector).                                            *)
THEOREM OdometryTypeCorrect ==
  ASSUME LimitsOn PROVE OdometrySpec => []OdometryTypeOK
<1>1. OdometryInv => OdometryTypeOK
  BY DEF OdometryInv
<1> QED
  BY <1>1, OdometryInvariant, PTL

(* With its limits switched on, the chain moves the pose Nav2 plans from    *)
(* only in small steps, and corrects it only towards the external pose, for *)
(* every grid, limit and blend and whatever the two sources report.         *)
THEOREM CorrectionGradual ==
  ASSUME LimitsOn PROVE OdometrySpec => CorrectionIsGradual
<1>1. OdometryInv /\ OdometryInv' /\ [OdometryNext]_odometryVars =>
        [/\ BothKnown => \/ DistanceOf(MapPose', MapPose) <= MaxJump
                       \/ DistanceOf(MapPose', MapPose) <= BlendStep
         /\ Known(nav)' => DistanceOf(nav'.twist.dx, 0) <= MaxLinearSpeed * nav'.twist.dt]_odometryVars
  BY StepIsGradual
<1>2. OdometryInv /\ OdometryInv' /\ [OdometryNext]_odometryVars =>
        [correction' # correction /\ BothKnown /\ localPose = CellAt(nav.x)
           => DistanceOf(MapPose', externalPose.x) <= DistanceOf(MapPose, externalPose.x)]_odometryVars
  BY StepIsTowardsExternal
<1>3. OdometryInv => OdometryTypeOK
  BY DEF OdometryInv
<1> QED
  BY <1>1, <1>2, <1>3, OdometryInvariant, PTL
     DEF OdometrySpec, CorrectionIsGradual, MapPoseIsGradual, CorrectsTowardsExternal

-----------------------------------------------------------------------------
(***************************************************************************)
(* The exit code of send_nav2_goal for every set of places and lifecycle   *)
(* nodes, whatever the follower, the person and the stack do meanwhile.    *)
(***************************************************************************)

\* Poses that were received are places; a goal that was sent has one.
PlaceInv ==
  /\ robotAt \in Int /\ personAt \in Int \cup {NoPlace}
  /\ firstPose \in Int \cup {NoPlace} /\ latestPose \in Int \cup {NoPlace}
  /\ \A sender \in Senders : goals[sender].state # "none" => goals[sender].at \in Int

\* What the waits of main() that have ended have left behind.
StageInv ==
  /\ stage \notin {"pose"} \cup Exits => latestPose # NoPlace
  /\ stage \in {"server", "motion", "send", "result"} => seenActive = LifecycleNodes
  /\ stage \in Waiting \cup {"send"} => status = "unknown"

\* The result is of the goal that is at the server, and stays its result.
ResultInv ==
  /\ status = "succeeded" => goals["client"].state = "succeeded"
  /\ stage = "exit_0" => status = "succeeded"

GoalsInv == GoalsTypeOK /\ PlaceInv /\ StageInv /\ ResultInv

GoalStates == {"none", "sent", "rejected", "active", "succeeded", "aborted"}
Goals == [state : GoalStates, at : Int \cup {NoPlace}]

LEMMA GoalsTyped == GoalsTypeOK => goals \in [Senders -> Goals]
BY DEF GoalsTypeOK, Goals, GoalStates

LEMMA GoalsInitInv == GoalsInit => GoalsInv
<1> SUFFICES ASSUME GoalsInit PROVE GoalsInv
  OBVIOUS
<1>1. goals = [sender \in Senders |-> [state |-> "none", at |-> NoPlace]]
  BY DEF GoalsInit, NoGoal
<1>2. GoalsTypeOK
  <2>1. /\ transformUp \in BOOLEAN /\ serverUp \in BOOLEAN /\ accepted \in BOOLEAN
        /\ resultEvent \in BOOLEAN
    BY DEF GoalsInit
  <2> QED
    BY <1>1, <2>1 DEF GoalsInit, GoalsTypeOK, Waiting
<1>3. PlaceInv
  BY <1>1, GoalAssumption DEF GoalsInit, PlaceInv
<1>4. StageInv /\ ResultInv
  BY DEF GoalsInit, StageInv, ResultInv, Exits
<1> QED
  BY <1>2, <1>3, <1>4 DEF GoalsInv

\* What the server may make of one goal: its place stays, and a goal that was
\* reached stays reached.
Progress(old, new) ==
  /\ new \in Goals /\ new.at = old.at
  /\ old.state # "none" \/ new = old
  /\ old.state = "succeeded" => new = old

LEMMA ServerStep ==
  ASSUME GoalsInv, NEW sender \in Senders, ServerDecides(sender) \/ ServerEnds(sender)
  PROVE  /\ goals' \in [Senders -> Goals]
         /\ \A other \in Senders : Progress(goals[other], goals'[other])
         /\ robotAt' \in Int
         /\ UNCHANGED <<transformUp, activeNodes, serverUp, personAt, client, lastGoal>>
<1>1. goals \in [Senders -> Goals]
  BY GoalsTyped DEF GoalsInv
<1>2. \A g \in Goals, s \in GoalStates :
        /\ [g EXCEPT !.state = s] \in Goals
        /\ [g EXCEPT !.state = s].at = g.at
  BY DEF Goals
<1>3. CASE ServerDecides(sender)
  <2>1. goals[sender].state = "sent" /\ robotAt' = robotAt
        /\ UNCHANGED <<transformUp, activeNodes, serverUp, personAt, client, lastGoal>>
    BY <1>3 DEF ServerDecides, stack
  <2>2. CASE goals' = [goals EXCEPT ![sender].state = "rejected"]
    BY <1>1, <1>2, <2>1, <2>2 DEF GoalsInv, PlaceInv, Progress, GoalStates
  <2>3. CASE goals' = [other \in Senders |->
                         IF other = sender THEN [goals[sender] EXCEPT !.state = "active"]
                         ELSE IF goals[other].state = "active"
                         THEN [goals[other] EXCEPT !.state = "aborted"] ELSE goals[other]]
    <3>1. ASSUME NEW other \in Senders
          PROVE  Progress(goals[other], goals'[other])
      <4>1. goals[other] \in Goals
        BY <1>1
      <4>2. \/ goals'[other] = goals[other]
            \/ /\ goals[other].state \in {"sent", "active"}
               /\ \E s \in GoalStates : goals'[other] = [goals[other] EXCEPT !.state = s]
        BY <2>1, <2>3 DEF GoalStates
      <4> QED
        BY <1>2, <4>1, <4>2 DEF Progress
    <3>2. DOMAIN goals' = Senders /\ goals' = [other \in Senders |-> goals'[other]]
      BY <2>3
    <3>3. \A other \in Senders : goals'[other] \in Goals
      BY <3>1 DEF Progress
    <3>4. robotAt' \in Int
      BY <2>1 DEF GoalsInv, PlaceInv
    <3> QED
      BY <2>1, <3>1, <3>2, <3>3, <3>4
  <2> QED
    BY <1>3, <2>2, <2>3 DEF ServerDecides
<1>4. CASE ServerEnds(sender)
  <2>1. goals[sender].state = "active"
        /\ UNCHANGED <<transformUp, activeNodes, serverUp, personAt, client, lastGoal>>
    BY <1>4 DEF ServerEnds
  <2>2. \E s \in {"succeeded", "aborted"} : goals' = [goals EXCEPT ![sender].state = s]
    BY <1>4 DEF ServerEnds
  <2>3. robotAt' \in Int
    BY <1>4, <2>1, GoalAssumption DEF ServerEnds, GoalsInv, PlaceInv
  <2>4. /\ goals' \in [Senders -> Goals]
        /\ \A other \in Senders : Progress(goals[other], goals'[other])
    <3>1. PICK s \in {"succeeded", "aborted"} : goals' = [goals EXCEPT ![sender].state = s]
      BY <2>2
    <3>2. /\ goals'[sender] = [goals[sender] EXCEPT !.state = s]
          /\ \A other \in Senders \ {sender} : goals'[other] = goals[other]
          /\ DOMAIN goals' = Senders /\ goals' = [other \in Senders |-> goals'[other]]
      BY <1>1, <3>1
    <3>3. s \in GoalStates /\ \A other \in Senders : goals[other] \in Goals
      BY <1>1 DEF GoalStates
    <3>4. \A other \in Senders : Progress(goals[other], goals'[other])
      <4>1. Progress(goals[sender], goals'[sender])
        BY <1>2, <2>1, <3>2, <3>3 DEF Progress
      <4>2. \A other \in Senders \ {sender} : Progress(goals[other], goals'[other])
        BY <3>2, <3>3 DEF Progress
      <4> QED
        BY <4>1, <4>2
    <3>5. \A other \in Senders : goals'[other] \in Goals
      BY <3>4 DEF Progress
    <3> QED
      BY <3>2, <3>4, <3>5
  <2> QED
    BY <2>1, <2>3, <2>4
<1> QED
  BY <1>3, <1>4

LEMMA ServerKeeps ==
  ASSUME GoalsInv, NEW sender \in Senders, ServerDecides(sender) \/ ServerEnds(sender)
  PROVE  GoalsInv'
<1>1. /\ goals' \in [Senders -> Goals]
      /\ \A other \in Senders : Progress(goals[other], goals'[other])
      /\ robotAt' \in Int
      /\ UNCHANGED <<transformUp, activeNodes, serverUp, personAt, client, lastGoal>>
  BY ServerStep
<1>2. GoalsTypeOK'
  BY <1>1 DEF GoalsInv, GoalsTypeOK, client, Goals, GoalStates
<1>3. PlaceInv'
  BY <1>1 DEF GoalsInv, PlaceInv, client, Progress
<1>4. StageInv'
  BY <1>1 DEF GoalsInv, StageInv, client
<1>5. ResultInv'
  BY <1>1 DEF GoalsInv, ResultInv, client, Progress, Senders
<1> QED
  BY <1>2, <1>3, <1>4, <1>5 DEF GoalsInv

\* One program sends a goal to a place.
LEMMA SentGoal ==
  ASSUME GoalsInv, NEW sender \in Senders, NEW place \in Int,
         goals' = [goals EXCEPT ![sender] = Sent(place)]
  PROVE  /\ goals' \in [Senders -> Goals]
         /\ \A other \in Senders : goals'[other].state # "none" => goals'[other].at \in Int
         /\ \A other \in Senders \ {sender} : goals'[other] = goals[other]
<1>1. goals \in [Senders -> Goals]
  BY GoalsTyped DEF GoalsInv
<1>2. Sent(place) \in Goals /\ Sent(place).at = place
  BY DEF Sent, Goals, GoalStates
<1> QED
  BY <1>1, <1>2 DEF GoalsInv, PlaceInv

LEMMA SendStep == GoalsInv /\ SendGoal => GoalsInv'
<1> SUFFICES ASSUME GoalsInv, SendGoal PROVE GoalsInv'
  OBVIOUS
<1>1. /\ stage = "send" /\ stage' = "result"
      /\ goals' = [goals EXCEPT !["client"] = Sent(ResolvedGoal)]
      /\ UNCHANGED <<stack, firstPose, latestPose, seenActive, accepted, status,
                     resultEvent, lastGoal>>
  BY DEF SendGoal
<1>2. latestPose \in Int /\ seenActive = LifecycleNodes /\ status = "unknown"
  BY <1>1 DEF GoalsInv, PlaceInv, StageInv, Exits
<1>3. ResolvedGoal \in Int
  BY <1>2, GoalAssumption DEF ResolvedGoal
<1>4. /\ goals' \in [Senders -> Goals]
      /\ \A other \in Senders : goals'[other].state # "none" => goals'[other].at \in Int
  BY <1>1, <1>3, SentGoal DEF Senders
<1>5. GoalsTypeOK'
  BY <1>1, <1>4 DEF GoalsInv, GoalsTypeOK, stack, Goals, GoalStates
<1>6. PlaceInv'
  BY <1>1, <1>4 DEF GoalsInv, PlaceInv, stack
<1>7. StageInv' /\ ResultInv'
  BY <1>1, <1>2, GoalAssumption DEF StageInv, ResultInv, Exits, Waiting
<1> QED
  BY <1>5, <1>6, <1>7 DEF GoalsInv

LEMMA FollowStep ==
  ASSUME GoalsInv, NEW resendDue \in BOOLEAN, FollowerTimer(resendDue)
  PROVE  GoalsInv'
<1>1. /\ personAt # NoPlace
      /\ goals' = [goals EXCEPT !["follower"] = Sent(FollowGoal)]
      /\ UNCHANGED <<stack, client>>
  BY DEF FollowerTimer
<1>2. FollowGoal \in Int
  BY <1>1, GoalAssumption DEF FollowGoal, GoalsInv, PlaceInv
<1>3. /\ goals' \in [Senders -> Goals]
      /\ \A other \in Senders : goals'[other].state # "none" => goals'[other].at \in Int
      /\ goals'["client"] = goals["client"]
  BY <1>1, <1>2, SentGoal DEF Senders
<1>4. GoalsTypeOK'
  BY <1>1, <1>3 DEF GoalsInv, GoalsTypeOK, stack, client, Goals, GoalStates
<1>5. PlaceInv' /\ StageInv' /\ ResultInv'
  BY <1>1, <1>3 DEF GoalsInv, PlaceInv, StageInv, ResultInv, stack, client
<1> QED
  BY <1>4, <1>5 DEF GoalsInv

\* The steps that leave the goals alone.
LEMMA ClientStep ==
  ASSUME GoalsInv,
         \/ StackChanges \/ PersonMoves \/ PoseReceived \/ WaitEnds \/ Finish
         \/ OnGoalResponse \/ OnResult
         \/ \E node \in LifecycleNodes : ObserveLifecycle(node)
  PROVE  GoalsInv'
<1>1. CASE StackChanges
  <2>1. /\ transformUp' \in BOOLEAN /\ serverUp' \in BOOLEAN
        /\ activeNodes' \subseteq LifecycleNodes
        /\ UNCHANGED <<robotAt, personAt, goals, client, lastGoal>>
    BY <1>1 DEF StackChanges, GoalsInv, GoalsTypeOK
  <2> QED
    BY <2>1 DEF GoalsInv, GoalsTypeOK, PlaceInv, StageInv, ResultInv, client
<1>2. CASE PersonMoves
  <2>1. /\ personAt' \in Int \cup {NoPlace}
        /\ UNCHANGED <<robotAt, transformUp, activeNodes, serverUp, goals, client>>
    BY <1>2, GoalAssumption DEF PersonMoves
  <2> QED
    BY <2>1 DEF GoalsInv, GoalsTypeOK, PlaceInv, StageInv, ResultInv, client
<1>3. CASE PoseReceived
  <2>1. /\ latestPose' = robotAt /\ firstPose' \in Int \cup {NoPlace}
        /\ latestPose' \in Int /\ latestPose' # NoPlace
        /\ UNCHANGED <<stack, goals, stage, seenActive, accepted, status, resultEvent>>
    BY <1>3, GoalAssumption DEF PoseReceived, GoalsInv, PlaceInv
  <2>2. GoalsTypeOK'
    BY <2>1 DEF GoalsInv, GoalsTypeOK, stack
  <2>3. PlaceInv' /\ StageInv' /\ ResultInv'
    BY <2>1 DEF GoalsInv, PlaceInv, StageInv, ResultInv, stack
  <2> QED
    BY <2>2, <2>3 DEF GoalsInv
<1>4. CASE WaitEnds
  <2>1. /\ stage \in Waiting
        /\ UNCHANGED <<stack, goals, firstPose, latestPose, seenActive, accepted, status,
                       resultEvent>>
        /\ \/ stage' = "exit_1"
           \/ stage = "pose" /\ stage' = "transform" /\ latestPose # NoPlace
           \/ stage = "transform" /\ stage' = "lifecycle"
           \/ stage = "lifecycle" /\ stage' = "server" /\ seenActive = LifecycleNodes
           \/ stage = "server" /\ stage' = "motion"
           \/ stage = "motion" /\ stage' = "send"
    BY <1>4 DEF WaitEnds, Observed, Waiting, NextStage
  <2>2. GoalsTypeOK'
    BY <2>1 DEF GoalsInv, GoalsTypeOK, stack, Waiting, Exits
  <2>3. PlaceInv' /\ ResultInv'
    BY <2>1 DEF GoalsInv, PlaceInv, ResultInv, stack
  <2>4. StageInv'
    BY <2>1 DEF GoalsInv, StageInv, Waiting, Exits
  <2> QED
    BY <2>2, <2>3, <2>4 DEF GoalsInv
<1>5. CASE Finish
  <2>1. /\ stage' = ExitCode
        /\ UNCHANGED <<stack, goals, firstPose, latestPose, seenActive, accepted, status,
                       resultEvent>>
    BY <1>5 DEF Finish
  <2>2. stage' = "exit_1" \/ (stage' = "exit_0" /\ status = "succeeded")
    BY <2>1 DEF ExitCode
  <2>3. GoalsTypeOK'
    BY <2>1, <2>2 DEF GoalsInv, GoalsTypeOK, stack, Exits
  <2>4. PlaceInv' /\ StageInv' /\ ResultInv'
    BY <2>1, <2>2 DEF GoalsInv, PlaceInv, StageInv, ResultInv, stack, Exits, Waiting
  <2> QED
    BY <2>3, <2>4 DEF GoalsInv
<1>6. CASE OnGoalResponse
  <2>1. /\ accepted' \in BOOLEAN /\ resultEvent' \in BOOLEAN
        /\ UNCHANGED <<stack, goals, stage, firstPose, latestPose, seenActive, status>>
    BY <1>6 DEF OnGoalResponse
  <2> QED
    BY <2>1 DEF GoalsInv, GoalsTypeOK, PlaceInv, StageInv, ResultInv, stack
<1>7. CASE OnResult
  <2>1. /\ stage = "result" /\ goals["client"].state \in {"succeeded", "aborted"}
        /\ status' = goals["client"].state /\ resultEvent' \in BOOLEAN
        /\ UNCHANGED <<stack, goals, stage, firstPose, latestPose, seenActive, accepted>>
    BY <1>7 DEF OnResult
  <2>2. GoalsTypeOK'
    BY <2>1 DEF GoalsInv, GoalsTypeOK, stack
  <2>3. PlaceInv' /\ ResultInv'
    BY <2>1 DEF GoalsInv, PlaceInv, ResultInv, stack
  <2>4. StageInv'
    BY <2>1 DEF GoalsInv, StageInv, Waiting
  <2> QED
    BY <2>2, <2>3, <2>4 DEF GoalsInv
<1>8. CASE \E node \in LifecycleNodes : ObserveLifecycle(node)
  <2>1. /\ stage = "lifecycle" /\ seenActive' \subseteq LifecycleNodes
        /\ UNCHANGED <<stack, goals, stage, firstPose, latestPose, accepted, status,
                       resultEvent>>
    BY <1>8 DEF ObserveLifecycle, GoalsInv, GoalsTypeOK
  <2>2. GoalsTypeOK'
    BY <2>1 DEF GoalsInv, GoalsTypeOK, stack
  <2>3. PlaceInv' /\ ResultInv'
    BY <2>1 DEF GoalsInv, PlaceInv, ResultInv, stack
  <2>4. StageInv'
    BY <2>1 DEF GoalsInv, StageInv
  <2> QED
    BY <2>2, <2>3, <2>4 DEF GoalsInv
<1> QED
  BY <1>1, <1>2, <1>3, <1>4, <1>5, <1>6, <1>7, <1>8

LEMMA GoalsStep == GoalsInv /\ [GoalsNext]_goalVars => GoalsInv'
<1> SUFFICES ASSUME GoalsInv, [GoalsNext]_goalVars PROVE GoalsInv'
  OBVIOUS
<1>1. CASE UNCHANGED goalVars
  BY <1>1 DEF goalVars, stack, client, GoalsInv, GoalsTypeOK, PlaceInv, StageInv, ResultInv
<1>2. CASE \E sender \in Senders : ServerDecides(sender) \/ ServerEnds(sender)
  BY <1>2, ServerKeeps
<1>3. CASE \E resendDue \in BOOLEAN : FollowerTimer(resendDue)
  BY <1>3, FollowStep
<1> QED
  BY <1>1, <1>2, <1>3, SendStep, ClientStep DEF GoalsNext

\* The clients and the goals at the server are well typed in every run.
THEOREM GoalsTypeCorrect == GoalsSpec => []GoalsTypeOK
<1>1. GoalsInv => GoalsTypeOK
  BY DEF GoalsInv
<1> QED
  BY <1>1, GoalsInitInv, GoalsStep, PTL DEF GoalsSpec

\* send_nav2_goal exits with 0 only when its own goal was reached, and sends
\* one only from a pose it received and a stack it saw active.
THEOREM ExitIsEarned == GoalsSpec => []ExitMeansReached
<1>1. GoalsInv => ExitMeansReached
  BY DEF GoalsInv, StageInv, ResultInv, ExitMeansReached, Exits
<1> QED
  BY <1>1, GoalsInitInv, GoalsStep, PTL DEF GoalsSpec

-----------------------------------------------------------------------------
(***************************************************************************)
(* What holds of the pose republisher for every burst length, interval and *)
(* cooldown: bursts are paced however the request flickers, and a request  *)
(* that stands is served.                                                  *)
(***************************************************************************)

LEMMA Numbers ==
  /\ PublishCount \in Nat /\ PublishCount >= 1
  /\ Interval \in Nat /\ Interval >= 1 /\ Cooldown \in Nat /\ Cooldown >= Interval
  /\ LongAgo \in Nat /\ LongAgo = Cooldown + 3
BY RepublisherAssumption DEF LongAgo

\* Without a request, or between two bursts, nothing is planned; within a burst
\* the time to the next pose and the time since the last make up the interval.
PlanInv ==
  /\ pending = 0 => untilNext = 0
  /\ ~requestActive => pending = 0 /\ standing = 0
  /\ untilNext > 0 => sincePublish + untilNext = Interval

\* The poses sent and the poses planned make up at most one burst.
PaceInv ==
  /\ burst <= PublishCount
  /\ sincePublish < Cooldown => burst + pending <= PublishCount

\* While a request stands, a pose is due or the last one is recent enough. The
\* first line is what StartBurstIfDue leaves, the last what a period leaves.
ServedInv ==
  requestActive =>
    /\ ~tickDue => pending > 0 \/ sincePublish < Cooldown
    /\ ~tickDue => \/ sincePublish <= Cooldown
                   \/ standing = 0 /\ pending > 0 /\ untilNext = 0
    /\ tickDue => sincePublish <= Cooldown \/ (pending > 0 /\ untilNext = 0)

RepublisherInv == RepublisherTypeOK /\ PlanInv /\ PaceInv /\ ServedInv

LEMMA FieldTypes ==
  ASSUME RepublisherTypeOK
  PROVE  /\ requestActive \in BOOLEAN /\ tickDue \in BOOLEAN
         /\ pending \in Nat /\ pending <= PublishCount
         /\ sincePublish \in Nat /\ sincePublish <= LongAgo
         /\ standing \in Nat /\ standing <= LongAgo
         /\ untilNext \in Nat /\ untilNext <= Interval /\ burst \in Nat
BY Numbers DEF RepublisherTypeOK

LEMMA LaterType ==
  ASSUME NEW t \in 0..LongAgo
  PROVE  /\ Later(t) \in 0..LongAgo /\ Later(t) >= t
         /\ t <= Cooldown => Later(t) = t + 1
BY Numbers DEF Later

\* A burst is started only after the cooldown, and none is started twice.
LEMMA BurstStarted ==
  ASSUME RepublisherTypeOK, StartBurstIfDue
  PROVE  /\ pending' \in 0..PublishCount /\ untilNext' \in 0..Interval
         /\ \/ pending > 0 /\ pending' = pending /\ untilNext' = untilNext
            \/ sincePublish < Cooldown /\ pending' = pending /\ untilNext' = untilNext
            \/ pending = 0 /\ sincePublish >= Cooldown
               /\ pending' = PublishCount /\ untilNext' = 0
BY Numbers, FieldTypes DEF StartBurstIfDue, RepublisherTypeOK

LEMMA RepublisherInitInv == RepublisherInit => RepublisherInv
<1> SUFFICES ASSUME RepublisherInit PROVE RepublisherInv
  OBVIOUS
<1>1. RepublisherTypeOK
  <2>1. requestActive \in BOOLEAN /\ poseHeard \in BOOLEAN /\ tickDue \in BOOLEAN
    BY DEF RepublisherInit
  <2>2. /\ pending \in 0..PublishCount /\ untilNext \in 0..Interval /\ burst \in Nat
        /\ sincePublish \in 0..LongAgo /\ standing \in 0..LongAgo
    BY Numbers DEF RepublisherInit
  <2> QED
    BY <2>1, <2>2 DEF RepublisherInit, RepublisherTypeOK
<1>2. PlanInv /\ PaceInv /\ ServedInv
  BY Numbers DEF RepublisherInit, PlanInv, PaceInv, ServedInv
<1> QED
  BY <1>1, <1>2 DEF RepublisherInv

LEMMA RequestStep == RepublisherInv /\ OnRequest => RepublisherInv'
<1> SUFFICES ASSUME RepublisherInv, OnRequest PROVE RepublisherInv'
  OBVIOUS
<1>1. /\ requestActive' = TRUE
      /\ UNCHANGED <<poseHeard, sincePublish, sentPose, tickDue, burst, standing>>
  BY DEF OnRequest
<1>2. /\ pending' \in 0..PublishCount /\ untilNext' \in 0..Interval
      /\ \/ pending > 0 /\ pending' = pending /\ untilNext' = untilNext
         \/ sincePublish < Cooldown /\ pending' = pending /\ untilNext' = untilNext
         \/ pending = 0 /\ sincePublish >= Cooldown
            /\ pending' = PublishCount /\ untilNext' = 0
  BY BurstStarted DEF OnRequest, RepublisherInv
<1>3. RepublisherTypeOK'
  BY <1>1, <1>2 DEF RepublisherInv, RepublisherTypeOK
<1>4. PlanInv'
  BY <1>1, <1>2, Numbers, FieldTypes DEF RepublisherInv, PlanInv
<1>5. PaceInv'
  BY <1>1, <1>2, Numbers, FieldTypes DEF RepublisherInv, PaceInv
<1>6. ServedInv'
  BY <1>1, <1>2, Numbers, FieldTypes DEF RepublisherInv, PlanInv, ServedInv
<1> QED
  BY <1>3, <1>4, <1>5, <1>6 DEF RepublisherInv

LEMMA ClearedStep == RepublisherInv /\ OnRequestCleared => RepublisherInv'
<1> SUFFICES ASSUME RepublisherInv, OnRequestCleared PROVE RepublisherInv'
  OBVIOUS
<1>1. /\ requestActive' = FALSE /\ pending' = 0 /\ untilNext' = 0 /\ standing' = 0
      /\ UNCHANGED <<poseHeard, sincePublish, sentPose, tickDue, burst>>
  BY DEF OnRequestCleared
<1>2. RepublisherTypeOK'
  <2>1. 0 \in 0..PublishCount /\ 0 \in 0..Interval /\ 0 \in 0..LongAgo
    BY Numbers
  <2>2. requestActive' \in BOOLEAN
    BY <1>1
  <2> QED
    BY <1>1, <2>1, <2>2 DEF RepublisherInv, RepublisherTypeOK
<1>3. PlanInv' /\ PaceInv' /\ ServedInv'
  BY <1>1, Numbers, FieldTypes DEF RepublisherInv, PlanInv, PaceInv, ServedInv
<1> QED
  BY <1>2, <1>3 DEF RepublisherInv

LEMMA PublishStep ==
  ASSUME RepublisherInv, RepublisherTick, requestActive, pending > 0, untilNext = 0
  PROVE  RepublisherInv'
<1>1. /\ sincePublish' = 0 /\ pending' = pending - 1
      /\ untilNext' = IF pending > 1 THEN Interval ELSE 0
      /\ burst' = IF sincePublish >= Cooldown THEN 1 ELSE burst + 1
      /\ sentPose' = MadePose /\ tickDue' = FALSE
      /\ UNCHANGED <<requestActive, poseHeard, standing>>
  BY DEF RepublisherTick, PublishOnce
<1>2. RepublisherTypeOK'
  <2>1. sentPose' \in {"none", "configured", "latest"}
    BY <1>1 DEF MadePose
  <2>2. /\ pending' \in 0..PublishCount /\ sincePublish' \in 0..LongAgo
        /\ untilNext' \in 0..Interval /\ burst' \in Nat
    BY <1>1, Numbers, FieldTypes DEF RepublisherInv
  <2> QED
    BY <1>1, <2>1, <2>2 DEF RepublisherInv, RepublisherTypeOK
<1>3. PlanInv'
  BY <1>1, Numbers, FieldTypes DEF RepublisherInv, PlanInv
<1>4. PaceInv'
  BY <1>1, Numbers, FieldTypes DEF RepublisherInv, PaceInv
<1>5. ServedInv'
  BY <1>1, Numbers DEF ServedInv
<1> QED
  BY <1>2, <1>3, <1>4, <1>5 DEF RepublisherInv

LEMMA TickStep == RepublisherInv /\ RepublisherTick => RepublisherInv'
<1> SUFFICES ASSUME RepublisherInv, RepublisherTick PROVE RepublisherInv'
  OBVIOUS
<1>1. CASE requestActive /\ pending > 0 /\ untilNext = 0
  BY <1>1, PublishStep
<1>2. CASE ~(requestActive /\ pending > 0 /\ untilNext = 0)
  <2>1. /\ tickDue /\ tickDue' = FALSE
        /\ UNCHANGED <<requestActive, poseHeard, standing, sentPose, sincePublish, burst>>
        /\ \/ requestActive /\ pending = 0 /\ StartBurstIfDue
           \/ ~(requestActive /\ pending = 0) /\ pending' = pending
              /\ untilNext' = untilNext
    BY <1>2 DEF RepublisherTick
  <2>2. /\ pending' \in 0..PublishCount /\ untilNext' \in 0..Interval
        /\ \/ pending' = pending /\ untilNext' = untilNext
              /\ (requestActive => pending > 0 \/ sincePublish < Cooldown)
           \/ pending = 0 /\ sincePublish >= Cooldown
              /\ requestActive /\ pending' = PublishCount /\ untilNext' = 0
    BY <2>1, BurstStarted, FieldTypes DEF RepublisherInv, RepublisherTypeOK
  <2>3. RepublisherTypeOK'
    BY <2>1, <2>2 DEF RepublisherInv, RepublisherTypeOK
  <2>4. PlanInv'
    BY <2>1, <2>2, Numbers, FieldTypes DEF RepublisherInv, PlanInv
  <2>5. PaceInv'
    BY <2>1, <2>2, Numbers, FieldTypes DEF RepublisherInv, PaceInv
  <2>6. requestActive => sincePublish <= Cooldown
    BY <1>2, <2>1 DEF RepublisherInv, ServedInv
  <2>7. ServedInv'
    BY <2>1, <2>2, <2>6, Numbers, FieldTypes DEF RepublisherInv, ServedInv
  <2> QED
    BY <2>3, <2>4, <2>5, <2>7 DEF RepublisherInv
<1> QED
  BY <1>1, <1>2

LEMMA PeriodStep == RepublisherInv /\ PeriodPasses => RepublisherInv'
<1> SUFFICES ASSUME RepublisherInv, PeriodPasses PROVE RepublisherInv'
  OBVIOUS
<1>1. /\ ~tickDue /\ tickDue' = TRUE /\ sincePublish' = Later(sincePublish)
      /\ untilNext' = IF untilNext > 0 THEN untilNext - 1 ELSE 0
      /\ standing' = IF requestActive THEN Later(standing) ELSE 0
      /\ UNCHANGED <<requestActive, poseHeard, pending, sentPose, burst>>
  BY DEF PeriodPasses
<1>2. /\ sincePublish' \in 0..LongAgo /\ sincePublish' >= sincePublish
      /\ sincePublish <= Cooldown => sincePublish' = sincePublish + 1
  BY <1>1, LaterType DEF RepublisherInv, RepublisherTypeOK
<1>3. standing' \in 0..LongAgo
  BY <1>1, LaterType, Numbers DEF RepublisherInv, RepublisherTypeOK
<1>4. RepublisherTypeOK'
  BY <1>1, <1>2, <1>3, Numbers, FieldTypes DEF RepublisherInv, RepublisherTypeOK
<1>5. untilNext > 0 => sincePublish + untilNext = Interval /\ sincePublish < Cooldown
  BY Numbers, FieldTypes DEF RepublisherInv, PlanInv
<1>6. PlanInv'
  BY <1>1, <1>2, <1>5, Numbers, FieldTypes DEF RepublisherInv, PlanInv
<1>7. PaceInv'
  BY <1>1, <1>2, Numbers, FieldTypes DEF RepublisherInv, PaceInv
<1>8. ServedInv'
  <2> SUFFICES ASSUME requestActive
               PROVE  sincePublish' <= Cooldown \/ (pending' > 0 /\ untilNext' = 0)
    BY <1>1 DEF ServedInv
  <2>1. CASE sincePublish < Cooldown
    BY <1>2, <2>1, Numbers, FieldTypes DEF RepublisherInv
  <2>2. CASE sincePublish >= Cooldown
    <3>1. pending > 0 /\ untilNext = 0
      BY <1>1, <1>5, <2>2, Numbers, FieldTypes DEF RepublisherInv, ServedInv
    <3> QED
      BY <1>1, <3>1
  <2> QED
    BY <2>1, <2>2, Numbers, FieldTypes DEF RepublisherInv
<1> QED
  BY <1>4, <1>6, <1>7, <1>8 DEF RepublisherInv

LEMMA RepublisherStep ==
  RepublisherInv /\ [RepublisherNext]_republisherVars => RepublisherInv'
<1> SUFFICES ASSUME RepublisherInv, [RepublisherNext]_republisherVars
             PROVE  RepublisherInv'
  OBVIOUS
<1>1. CASE OnLocalizationPose
  BY <1>1 DEF OnLocalizationPose, RepublisherInv, RepublisherTypeOK, PlanInv,
              PaceInv, ServedInv
<1>2. CASE UNCHANGED republisherVars
  BY <1>2 DEF republisherVars, RepublisherInv, RepublisherTypeOK, PlanInv,
              PaceInv, ServedInv
<1> QED
  BY <1>1, <1>2, RequestStep, ClearedStep, TickStep, PeriodStep DEF RepublisherNext

\* The state of the republisher is well typed, and a burst stays within its
\* length and interval, for every value of the parameters.
THEOREM RepublisherTypeCorrect == RepublisherSpec => []RepublisherTypeOK
<1>1. RepublisherInv => RepublisherTypeOK
  BY DEF RepublisherInv
<1> QED
  BY <1>1, RepublisherInitInv, RepublisherStep, PTL DEF RepublisherSpec

\* At most publish_count poses go out between two pauses of a cooldown, and a
\* request that stands is served within the cooldown, for every value of the
\* parameters and however the request flickers.
THEOREM RepublishingPaced == RepublisherSpec => []RepublishingIsPaced
<1>1. RepublisherInv => RepublishingIsPaced
  <2> SUFFICES ASSUME RepublisherInv PROVE RepublishingIsPaced
    OBVIOUS
  <2>1. standing > 0 => requestActive
    BY FieldTypes DEF RepublisherInv, PlanInv
  <2> QED
    BY <2>1, FieldTypes DEF RepublisherInv, PaceInv, ServedInv, RepublishingIsPaced
<1> QED
  BY <1>1, RepublisherInitInv, RepublisherStep, PTL DEF RepublisherSpec
=============================================================================
