---------------------------- MODULE BringupProofs ----------------------------
(***************************************************************************)
(* The deployment of the localizer, for every command line: its transforms *)
(* form a forest, the printed pose is applied, and the doctor is right     *)
(* about what was started. The argument is the same throughout: what runs  *)
(* is the table Running of the command line (RunsWhatWasAsked), so the     *)
(* three tables kept by hand are compared option by option.                *)
(***************************************************************************)
EXTENDS Bringup, TLAPS

-----------------------------------------------------------------------------
(* The tables.                                                             *)

\* The parameters a launch ends up with.
Running ==
  Over(LaunchArguments, Over(LaunchDefaults(request.profile), Params(request)))

LEMMA OverAt ==
  ASSUME NEW f, NEW g
  PROVE  /\ DOMAIN Over(f, g) = DOMAIN f \cup DOMAIN g
         /\ \A k \in DOMAIN f : Over(f, g)[k] = f[k]
         /\ \A k \in DOMAIN g : k \notin DOMAIN f => Over(f, g)[k] = g[k]
BY DEF Over

LEMMA DefaultsAt ==
  ASSUME NEW p \in Profiles
  PROVE  LET d == LaunchDefaults(p)
         IN  /\ {"imu", "baseTransform", "mapOdom", "lidarTf", "imuTf"} \subseteq DOMAIN d
             /\ "setPose" \in DOMAIN d <=> p = "mid360"
             /\ p = "mid360" => d["setPose"] = FALSE
             /\ d["imu"] = (p # "nav2") /\ d["baseTransform"] = (p = "mid360")
             /\ d["mapOdom"] = (p # "standalone")
             /\ d["lidarTf"] = TRUE /\ d["imuTf"] = (p = "nav2")
<1>1. CASE p = "standalone"
  BY <1>1 DEF LaunchDefaults, StandaloneDefaults
<1>2. CASE p = "nav2"
  BY <1>2 DEF LaunchDefaults, Nav2Defaults
<1>3. CASE p = "mid360"
  BY <1>3 DEF LaunchDefaults, Mid360Defaults
<1> QED
  BY <1>1, <1>2, <1>3 DEF Profiles

LEMMA ParamsAt ==
  ASSUME NEW r
  PROVE  LET f == Params(r)
         IN  /\ DOMAIN f = {"setPose", "imu", "baseTransform", "deskew", "mapOdom"}
             /\ f["setPose"] = r.pose
             /\ f["deskew"] = UseDeskew(r)
BY DEF Params

LEMMA CommandAt ==
  ASSUME NEW r \in RequestType
  PROVE  LET a == CommandArguments(r)
         IN  /\ {"imu", "baseTransform"} \subseteq DOMAIN a
             /\ "mapOdom" \notin DOMAIN a
             /\ a["imu"] = UseImuPreintegration(r)
             /\ a["baseTransform"] = UseBaseTransform(r)
             /\ "setPose" \in DOMAIN a <=> r.profile = "mid360" /\ r.pose
             /\ r.profile = "mid360" /\ r.pose => a["setPose"] = TRUE
             /\ "lidarTf" \in DOMAIN a <=> r.noLidarTf \/ r.baseIsLidar
             /\ r.noLidarTf \/ r.baseIsLidar => a["lidarTf"] = FALSE
             /\ "imuTf" \in DOMAIN a <=> r.noImuTf \/ r.imuTf
             /\ r.noImuTf \/ r.imuTf => a["imuTf"] = ~r.noImuTf
<1> DEFINE a == CommandArguments(r)
           P == Printed(r)
           V == PrintedValues(r)
<1>1. /\ DOMAIN P = {"setPose", "lidarTf", "imuTf", "imu", "baseTransform", "deskew"}
      /\ P["setPose"] = (r.profile = "mid360" /\ r.pose)
      /\ P["lidarTf"] = (r.noLidarTf \/ r.baseIsLidar)
      /\ P["imuTf"] = (r.noImuTf \/ r.imuTf) /\ P["imu"] = TRUE /\ P["baseTransform"] = TRUE
  BY DEF Printed
<1>2. /\ V["setPose"] = TRUE /\ V["lidarTf"] = FALSE /\ V["imuTf"] = ~r.noImuTf
      /\ V["imu"] = UseImuPreintegration(r) /\ V["baseTransform"] = UseBaseTransform(r)
  BY DEF PrintedValues
<1>3. DOMAIN a = {j \in DOMAIN P : P[j]} /\ \A k \in DOMAIN a : a[k] = V[k]
  BY DEF CommandArguments, OnlyPrinted
<1> HIDE DEF a, P, V
<1> QED
  BY <1>1, <1>2, <1>3 DEF a

LEMMA QuickstartAt ==
  ASSUME NEW r
  PROVE  LET a == QuickstartArguments(r)
         IN  /\ DOMAIN a = {"lidarTf", "imuTf"}
             /\ a["lidarTf"] = ~r.noLidarTf /\ a["imuTf"] = (r.imuTf /\ ~r.noImuTf)
BY DEF QuickstartArguments

\* The command lines a deployment is started with.
Setup ==
  /\ entry \in {"command", "quickstart"} /\ request \in RequestType
  /\ entry = "quickstart" => QuickstartOffers(request)
  /\ robot = {f \in {"lidar", "imu"} :
               IF f = "lidar" THEN request.noLidarTf /\ ~request.baseIsLidar
                              ELSE request.noImuTf}

LEMMA Fields ==
  ASSUME NEW r \in RequestType
  PROVE  /\ r.profile \in Profiles
         /\ r.pose \in BOOLEAN /\ r.noLidarTf \in BOOLEAN /\ r.noImuTf \in BOOLEAN
         /\ r.imuTf \in BOOLEAN /\ r.baseIsLidar \in BOOLEAN /\ r.lidarDeskew \in BOOLEAN
BY DEF RequestType

\* What the command line asks for is what runs, unless the launch file of the
\* profile decides (quickstart passes on nothing but the transforms).
LEMMA RunningOfCommand ==
  ASSUME Setup, entry = "command"
  PROVE  /\ DOMAIN Params(request) \subseteq DOMAIN Running
         /\ Running.imu = UseImuPreintegration(request)
         /\ Running.baseTransform = UseBaseTransform(request)
         /\ Running.mapOdom = (request.profile # "standalone")
         /\ Running.lidarTf = (~request.noLidarTf /\ ~request.baseIsLidar)
         /\ Running.imuTf => ~request.noImuTf
         /\ Running.setPose = request.pose
<1> DEFINE a == CommandArguments(request)
           d == LaunchDefaults(request.profile)
           f == Params(request)
           g == Over(d, f)
<1>0. request \in RequestType /\ request.profile \in Profiles /\ request.pose \in BOOLEAN
      /\ request.noLidarTf \in BOOLEAN /\ request.noImuTf \in BOOLEAN
      /\ request.imuTf \in BOOLEAN /\ request.baseIsLidar \in BOOLEAN
  BY Fields DEF Setup
<1>1. Running = Over(a, g)
  BY DEF Running, LaunchArguments
<1>2. /\ {"imu", "baseTransform"} \subseteq DOMAIN a
      /\ "mapOdom" \notin DOMAIN a
      /\ a["imu"] = UseImuPreintegration(request)
      /\ a["baseTransform"] = UseBaseTransform(request)
      /\ "setPose" \in DOMAIN a <=> request.profile = "mid360" /\ request.pose
      /\ request.profile = "mid360" /\ request.pose => a["setPose"] = TRUE
      /\ "lidarTf" \in DOMAIN a <=> request.noLidarTf \/ request.baseIsLidar
      /\ request.noLidarTf \/ request.baseIsLidar => a["lidarTf"] = FALSE
      /\ "imuTf" \in DOMAIN a <=> request.noImuTf \/ request.imuTf
      /\ request.noImuTf \/ request.imuTf => a["imuTf"] = ~request.noImuTf
  BY <1>0, CommandAt
<1>3. /\ {"imu", "baseTransform", "mapOdom", "lidarTf", "imuTf"} \subseteq DOMAIN d
      /\ "setPose" \in DOMAIN d <=> request.profile = "mid360"
      /\ request.profile = "mid360" => d["setPose"] = FALSE
      /\ d["mapOdom"] = (request.profile # "standalone")
      /\ d["lidarTf"] = TRUE
  BY <1>0, DefaultsAt
<1>4. /\ DOMAIN f = {"setPose", "imu", "baseTransform", "deskew", "mapOdom"}
      /\ f["setPose"] = request.pose
  BY ParamsAt
<1> HIDE DEF a, d, f
<1>5. /\ DOMAIN g = DOMAIN d \cup DOMAIN f
      /\ \A k \in DOMAIN d : g[k] = d[k]
      /\ \A k \in DOMAIN f : k \notin DOMAIN d => g[k] = f[k]
  BY OverAt
<1> HIDE DEF g
<1>6. /\ DOMAIN Running = DOMAIN a \cup DOMAIN g
      /\ \A k \in DOMAIN a : Running[k] = a[k]
      /\ \A k \in DOMAIN g : k \notin DOMAIN a => Running[k] = g[k]
  <2>1. /\ DOMAIN Over(a, g) = DOMAIN a \cup DOMAIN g
        /\ \A k \in DOMAIN a : Over(a, g)[k] = a[k]
        /\ \A k \in DOMAIN g : k \notin DOMAIN a => Over(a, g)[k] = g[k]
    BY OverAt
  <2> QED
    BY <1>1, <2>1
<1>7. DOMAIN Params(request) \subseteq DOMAIN Running
  BY <1>5, <1>6 DEF f
<1>8. /\ Running.imu = UseImuPreintegration(request)
      /\ Running.baseTransform = UseBaseTransform(request)
  BY <1>2, <1>6
<1>9. Running.mapOdom = (request.profile # "standalone")
  BY <1>2, <1>3, <1>5, <1>6
<1>10. Running.lidarTf = (~request.noLidarTf /\ ~request.baseIsLidar)
  <2>1. CASE request.noLidarTf \/ request.baseIsLidar
    BY <1>2, <1>6, <2>1
  <2>2. CASE ~(request.noLidarTf \/ request.baseIsLidar)
    BY <1>2, <1>3, <1>5, <1>6, <2>2
  <2> QED
    BY <2>1, <2>2
<1>11. Running.imuTf => ~request.noImuTf
  BY <1>2, <1>6
<1>12. Running.setPose = request.pose
  <2>1. CASE request.profile = "mid360" /\ request.pose
    BY <1>2, <1>6, <2>1
  <2>2. CASE request.profile = "mid360" /\ ~request.pose
    BY <1>0, <1>2, <1>3, <1>5, <1>6, <2>2
  <2>3. CASE request.profile # "mid360"
    BY <1>0, <1>2, <1>3, <1>4, <1>5, <1>6, <2>3
  <2> QED
    BY <2>1, <2>2, <2>3
<1> QED
  BY <1>7, <1>8, <1>9, <1>10, <1>11, <1>12

LEMMA RunningOfQuickstart ==
  ASSUME Setup, entry = "quickstart"
  PROVE  /\ DOMAIN Params(request) \subseteq DOMAIN Running
         /\ Running.imu = (request.profile # "nav2")
         /\ Running.baseTransform = (request.profile = "mid360")
         /\ Running.mapOdom = (request.profile # "standalone")
         /\ Running.lidarTf = ~request.noLidarTf
         /\ Running.imuTf => ~request.noImuTf
<1> DEFINE a == QuickstartArguments(request)
           d == LaunchDefaults(request.profile)
           f == Params(request)
           g == Over(d, f)
<1>0. request.profile \in Profiles
  BY Fields DEF Setup
<1>1. Running = Over(a, g)
  BY DEF Running, LaunchArguments
<1>2. /\ DOMAIN a = {"lidarTf", "imuTf"} /\ a["lidarTf"] = ~request.noLidarTf
      /\ a["imuTf"] = (request.imuTf /\ ~request.noImuTf)
  BY QuickstartAt
<1>3. /\ {"imu", "baseTransform", "mapOdom", "lidarTf", "imuTf"} \subseteq DOMAIN d
      /\ d["imu"] = (request.profile # "nav2")
      /\ d["baseTransform"] = (request.profile = "mid360")
      /\ d["mapOdom"] = (request.profile # "standalone")
  BY <1>0, DefaultsAt
<1> HIDE DEF a, d, f
<1>5. /\ DOMAIN g = DOMAIN d \cup DOMAIN f
      /\ \A k \in DOMAIN d : g[k] = d[k]
  BY OverAt
<1> HIDE DEF g
<1>6. /\ DOMAIN Running = DOMAIN a \cup DOMAIN g
      /\ \A k \in DOMAIN a : Running[k] = a[k]
      /\ \A k \in DOMAIN g : k \notin DOMAIN a => Running[k] = g[k]
  <2>1. /\ DOMAIN Over(a, g) = DOMAIN a \cup DOMAIN g
        /\ \A k \in DOMAIN a : Over(a, g)[k] = a[k]
        /\ \A k \in DOMAIN g : k \notin DOMAIN a => Over(a, g)[k] = g[k]
    BY OverAt
  <2> QED
    BY <1>1, <2>1
<1>7. DOMAIN Params(request) \subseteq DOMAIN Running
  BY <1>5, <1>6 DEF f
<1>8. /\ Running.imu = (request.profile # "nav2")
      /\ Running.baseTransform = (request.profile = "mid360")
      /\ Running.mapOdom = (request.profile # "standalone")
  BY <1>2, <1>3, <1>5, <1>6
<1>9. /\ Running.lidarTf = ~request.noLidarTf
      /\ Running.imuTf => ~request.noImuTf
  BY <1>2, <1>6
<1> QED
  BY <1>7, <1>8, <1>9

-----------------------------------------------------------------------------
(* The invariant.                                                          *)

\* What runs is what the command line and the profile make of it, and nothing
\* runs from a command line the generator refused.
RunsWhatWasAsked ==
  /\ written # Nothing => written = Params(request) /\ ~Refused(request)
  /\ Launched => written # Nothing /\ effective = Running

BringupInv ==
  /\ Setup /\ BringupTypeOK /\ RunsWhatWasAsked
  /\ odom => request.profile # "standalone"
  /\ doctor # "idle" => Launched
  /\ node = "active" /\ request.pose /\ entry = "command" => pose # "none"
  /\ record \in [total : Nat, active : Nat, fallback : Nat]

LEMMA BringupStarts == Init => BringupInv
<1> SUFFICES ASSUME Init PROVE BringupInv
  OBVIOUS
<1>1. Setup
  BY BringupAssumption DEF Init, Setup
<1>2. BringupTypeOK
  <2>1. request \in RequestType /\ robot \subseteq {"lidar", "imu"}
    BY <1>1 DEF Setup
  <2>2. record.active + record.fallback <= record.total /\ record.total <= MaxSamples
    BY BringupAssumption DEF Init, NoRecord
  <2> QED
    BY <2>1, <2>2 DEF Init, BringupTypeOK, Launched
<1>3. RunsWhatWasAsked
  BY DEF Init, RunsWhatWasAsked, Launched
<1>4. record \in [total : Nat, active : Nat, fallback : Nat]
  BY DEF Init, NoRecord
<1> QED
  BY <1>1, <1>2, <1>3, <1>4 DEF Init, BringupInv

LEMMA SetupStays ==
  ASSUME [Next]_vars
  PROVE  UNCHANGED setupVars
BY DEF Next, vars, setupVars, Generate, Launch, Configure, Activate, Intervene,
       InitialPose, World, ImuSample, Scan, Listen, Hear, Judge, Record, Validate

LEMMA RunningStays ==
  ASSUME UNCHANGED setupVars
  PROVE  Running' = Running /\ (Setup <=> Setup')
         /\ Params(request)' = Params(request) /\ Refused(request)' = Refused(request)
BY DEF setupVars, Running, LaunchArguments, Setup

LEMMA TablesKept ==
  ASSUME BringupInv, [Next]_vars
  PROVE  RunsWhatWasAsked'
<1>0. UNCHANGED setupVars
  BY SetupStays
<1>1. Running' = Running /\ Params(request)' = Params(request)
      /\ Refused(request)' = Refused(request)
  BY <1>0, RunningStays
<1>2. RunsWhatWasAsked
  BY DEF BringupInv
<1>3. CASE Generate
  <2>1. written = Nothing /\ ~Refused(request) /\ written' = Params(request)
        /\ UNCHANGED <<node, effective>>
    BY <1>3 DEF Generate, nodeVars
  <2>2. ~Launched /\ ~Launched'
    BY <1>2, <2>1 DEF RunsWhatWasAsked, Launched
  <2> QED
    BY <1>1, <2>1, <2>2 DEF RunsWhatWasAsked
<1>4. CASE Launch
  <2>1. /\ written # Nothing /\ UNCHANGED written
        /\ effective' = Over(LaunchArguments, Over(LaunchDefaults(request.profile), written))
    BY <1>4 DEF Launch
  <2>2. written = Params(request) /\ ~Refused(request)
    BY <1>2, <2>1 DEF RunsWhatWasAsked
  <2>3. effective' = Running
    BY <2>1, <2>2 DEF Running
  <2> QED
    BY <1>1, <2>1, <2>2, <2>3 DEF RunsWhatWasAsked
<1>5. ASSUME UNCHANGED <<written, effective>>, node' # "absent" => node # "absent"
      PROVE  RunsWhatWasAsked'
  BY <1>1, <1>2, <1>5 DEF RunsWhatWasAsked, Launched
<1>6. CASE Configure \/ Activate \/ Intervene \/ InitialPose \/ ImuSample \/ Scan
  <2>1. UNCHANGED <<written, effective>> /\ node # "absent"
    BY <1>6 DEF Configure, Activate, Intervene, InitialPose, ImuSample, Scan
  <2> QED
    BY <1>5, <2>1
<1>7. CASE World \/ Listen \/ Hear \/ Judge \/ Record \/ Validate
  <2>1. UNCHANGED <<written, effective, node>>
    BY <1>7 DEF World, Listen, Hear, Judge, Record, Validate, nodeVars
  <2> QED
    BY <1>5, <2>1
<1>8. CASE UNCHANGED vars
  BY <1>5, <1>8 DEF vars, nodeVars
<1> QED
  BY <1>3, <1>4, <1>6, <1>7, <1>8 DEF Next

LEMMA ParametersComplete ==
  ASSUME Setup, RunsWhatWasAsked
  PROVE  Launched => DOMAIN Params(request) \subseteq DOMAIN effective
<1>1. DOMAIN Params(request) \subseteq DOMAIN Running
  BY RunningOfCommand, RunningOfQuickstart DEF Setup
<1> QED
  BY <1>1 DEF RunsWhatWasAsked

\* The counts of the validator, and the verdict of a status.
LEMMA TallyType ==
  ASSUME NEW r \in [total : Nat, active : Nat, fallback : Nat], NEW s,
         r.active + r.fallback <= r.total
  PROVE  /\ Tally(r, s) \in [total : Nat, active : Nat, fallback : Nat]
         /\ Tally(r, s).total = r.total + 1
         /\ Tally(r, s).active + Tally(r, s).fallback <= Tally(r, s).total
<1> DEFINE a == IF s.imu = "prediction_active" THEN 1 ELSE 0
           f == IF s.imu = "fallback_mode" THEN 1 ELSE 0
<1>1. a \in 0..1 /\ f \in 0..1 /\ a + f <= 1
  <2>1. CASE s.imu = "prediction_active"
    BY <2>1
  <2>2. CASE s.imu # "prediction_active"
    BY <2>2
  <2> QED
    BY <2>1, <2>2
<1>2. Tally(r, s) = [total |-> r.total + 1, active |-> r.active + a, fallback |-> r.fallback + f]
  BY DEF Tally
<1> HIDE DEF a, f
<1> QED
  BY <1>1, <1>2

LEMMA VerdictType ==
  ASSUME NEW s \in ImuVerdicts
  PROVE  s \in ImuStatuses
BY BringupAssumption DEF ImuVerdicts, ImuStatuses

LEMMA CountsKept ==
  ASSUME BringupInv, [Next]_vars
  PROVE  /\ record' \in [total : Nat, active : Nat, fallback : Nat]
         /\ record'.active + record'.fallback <= record'.total
         /\ record'.total <= MaxSamples
         /\ status' # <<>> => status'.imu \in ImuStatuses
<1> USE DEF BringupInv, BringupTypeOK
<1>1. CASE Scan
  <2>1. PICK s \in ImuVerdicts, e \in BOOLEAN :
          status' = [imu |-> IF fallback' THEN "fallback_mode" ELSE s, error |-> e]
    BY <1>1 DEF Scan
  <2>2. status'.imu \in ImuStatuses
    BY <2>1, VerdictType DEF ImuStatuses
  <2>3. CASE validated = "recording" /\ record.total < MaxSamples
    <3>1. record' = Tally(record, status')
      BY <1>1, <2>3 DEF Scan
    <3> QED
      BY <2>2, <2>3, <3>1, TallyType, BringupAssumption
  <2>4. CASE ~(validated = "recording" /\ record.total < MaxSamples)
    <3>1. record' = record
      BY <1>1, <2>4 DEF Scan
    <3> QED
      BY <2>2, <3>1
  <2> QED
    BY <2>3, <2>4
<1>2. CASE Record
  <2>1. UNCHANGED status
    BY <1>2 DEF Record, nodeVars
  <2>2. /\ NoRecord \in [total : Nat, active : Nat, fallback : Nat]
        /\ NoRecord.active + NoRecord.fallback <= NoRecord.total
        /\ NoRecord.total + 1 <= MaxSamples
    BY BringupAssumption DEF NoRecord
  <2>3. CASE status = <<>>
    <3>1. record' = NoRecord
      BY <1>2, <2>3 DEF Record
    <3> QED
      BY <2>1, <2>2, <3>1, BringupAssumption DEF NoRecord
  <2>4. CASE status # <<>>
    <3>1. record' = Tally(NoRecord, status)
      BY <1>2, <2>4 DEF Record
    <3> QED
      BY <2>1, <2>2, <3>1, TallyType
  <2> QED
    BY <2>3, <2>4
<1>3. CASE Intervene
  <2>1. record' = record /\ (status' = status \/ status' = <<>>)
    BY <1>3 DEF Intervene, toolVars
  <2> QED
    BY <2>1
<1>4. CASE UNCHANGED <<record, status>>
  BY <1>4
<1>5. CASE \/ Generate \/ Launch \/ Configure \/ Activate \/ InitialPose \/ World
           \/ ImuSample \/ Listen \/ Hear \/ Judge \/ Validate
  <2>1. UNCHANGED <<record, status>>
    BY <1>5 DEF Generate, Launch, Configure, Activate, InitialPose, World, ImuSample,
                Listen, Hear, Judge, Validate, toolVars, nodeVars
  <2> QED
    BY <1>4, <2>1
<1>6. CASE UNCHANGED vars
  BY <1>4, <1>6 DEF vars, toolVars, nodeVars
<1> QED
  BY <1>1, <1>2, <1>3, <1>5, <1>6 DEF Next

LEMMA BringupKeeps ==
  ASSUME BringupInv, [Next]_vars
  PROVE  BringupInv'
<1>0. UNCHANGED setupVars
  BY SetupStays
<1>1. Setup /\ Setup'
  BY <1>0, RunningStays DEF BringupInv
<1>2. RunsWhatWasAsked'
  BY TablesKept
<1>3. (Launched => DOMAIN Params(request) \subseteq DOMAIN effective)'
  BY <1>1, <1>2, ParametersComplete, PTL
<1>4. /\ node' \in {"absent", "unconfigured", "inactive", "active"}
      /\ asked' \in {"none", "configure", "activate"}
      /\ pose' \in {"none", "explicit", "operator"}
      /\ streams' \subseteq {"cloud", "imu"}
      /\ heard' \subseteq {"cloud", "imu", "odom", "map"}
      /\ doctor' \in {"idle", "listening", "passed", "failed"}
  BY DEF BringupInv, BringupTypeOK, Next, vars, nodeVars, toolVars, worldVars, Generate,
         Launch, Configure, Activate, Intervene, InitialPose, World, ImuSample, Scan,
         Listen, Hear, Moving, Judge, Record, Validate
<1>5. (odom => request.profile # "standalone")'
  BY DEF BringupInv, Next, vars, setupVars, worldVars, Generate,
         Launch, Configure, Activate, Intervene, InitialPose, World, ImuSample, Scan,
         Listen, Hear, Judge, Record, Validate
<1>6. (doctor # "idle" => Launched)'
  BY DEF BringupInv, Launched, Next, vars, nodeVars, toolVars, Generate,
         Launch, Configure, Activate, Intervene, InitialPose, World, ImuSample, Scan,
         Listen, Hear, Judge, Record, Validate
<1>7. (node = "active" /\ request.pose /\ entry = "command" => pose # "none")'
  <2>1. request' = request /\ entry' = entry
    BY <1>0 DEF setupVars
  <2>2. CASE Activate
    <3> SUFFICES ASSUME request.pose, entry = "command"
                 PROVE  pose' # "none"
      BY <2>1
    <3>1. effective.setPose
      <4>1. Launched
        BY <2>2 DEF Activate, Launched
      <4>2. effective = Running /\ Running.setPose = request.pose
        BY <1>1, <4>1, RunningOfCommand DEF BringupInv, RunsWhatWasAsked
      <4> QED
        BY <4>2
    <3> QED
      BY <2>2, <3>1 DEF Activate
  <2>3. CASE ~Activate
    <3>1. node' = "active" => node = "active" /\ (pose' = pose \/ pose' = "operator")
      BY <2>3 DEF Next, vars, nodeVars, Generate, Launch, Configure, Intervene,
                  InitialPose, World, ImuSample, Scan, Listen, Hear, Judge, Record, Validate
    <3> QED
      BY <2>1, <3>1 DEF BringupInv
  <2> QED
    BY <2>2, <2>3
<1>8. /\ record' \in [total : Nat, active : Nat, fallback : Nat]
      /\ record'.active + record'.fallback <= record'.total
      /\ record'.total <= MaxSamples
      /\ status' # <<>> => status'.imu \in ImuStatuses
  BY CountsKept
<1>9. BringupTypeOK'
  <2>1. request' \in RequestType /\ robot' \subseteq {"lidar", "imu"}
    BY <1>1 DEF Setup
  <2> QED
    BY <2>1, <1>3, <1>4, <1>8 DEF BringupTypeOK
<1> QED
  BY <1>1, <1>2, <1>5, <1>6, <1>7, <1>8, <1>9 DEF BringupInv

LEMMA BringupAlways == Spec => []BringupInv
<1>1. Init => BringupInv
  BY BringupStarts
<1>2. BringupInv /\ [Next]_vars => BringupInv'
  BY BringupKeeps
<1> QED
  BY <1>1, <1>2, PTL DEF Spec

-----------------------------------------------------------------------------
(* Transforms and pose.                                                    *)

\* The static transforms of the launch silence what the robot publishes.
LEMMA StaticTransforms ==
  ASSUME BringupInv, Launched,
         ~(entry = "quickstart" /\ request.baseIsLidar /\ ~request.noLidarTf)
  PROVE  /\ effective.lidarTf => "lidar" \notin robot /\ ~request.baseIsLidar
         /\ effective.imuTf => "imu" \notin robot
         /\ effective.mapOdom = (request.profile # "standalone")
<1>1. Setup /\ effective = Running
  BY DEF BringupInv, RunsWhatWasAsked
<1>2. CASE entry = "command"
  BY <1>1, <1>2, RunningOfCommand DEF Setup
<1>3. CASE entry = "quickstart"
  BY <1>1, <1>3, RunningOfQuickstart DEF Setup
<1> QED
  BY <1>1, <1>2, <1>3 DEF Setup

\* Every frame has at most one parent and none is its own, whatever the command
\* line (launch_command, the launch files, the localizer's and the robot's
\* transforms), except quickstart told that its base is the LiDAR frame without
\* --no-publish-lidar-tf: that command line makes the frame its own parent.
THEOREM TransformsAreAForest == Spec => []OneParentPerFrame
<1>1. BringupInv => OneParentPerFrame
  <2> SUFFICES ASSUME BringupInv,
                      ~(entry = "quickstart" /\ request.baseIsLidar /\ ~request.noLidarTf),
                      NEW t \in Transforms, NEW u \in Transforms
               PROVE  t[1] # t[2] /\ (t[2] = u[2] => t = u)
    BY DEF OneParentPerFrame
  <2>1. Launched
    BY DEF Transforms
  <2>2. /\ effective.lidarTf => "lidar" \notin robot /\ ~request.baseIsLidar
        /\ effective.imuTf => "imu" \notin robot
        /\ effective.mapOdom = (request.profile # "standalone")
        /\ odom => request.profile # "standalone"
        /\ robot \subseteq {"lidar", "imu"}
        /\ request.baseIsLidar => "lidar" \notin robot
    BY <2>1, StaticTransforms DEF BringupInv, Setup
  \* The parent of a frame is a function of the frame.
  <2> DEFINE Parent(f) ==
               CASE f = BaseFrame /\ odom -> "odom"
                 [] f = BaseFrame /\ ~odom -> "map"
                 [] f = "odom" -> "map"
                 [] f \notin {BaseFrame, "odom"} /\ f \in robot -> "mount"
                 [] f \notin {BaseFrame, "odom"} /\ f \notin robot -> BaseFrame
  <2>3. ASSUME NEW v \in Transforms
        PROVE  /\ v = <<Parent(v[2]), v[2]>>
               /\ v[2] # Parent(v[2])
    <3>1. BaseFrame = IF request.baseIsLidar THEN "lidar" ELSE "base"
      BY DEF BaseFrame
    <3>2. CASE effective.lidarTf /\ v = <<BaseFrame, "lidar">>
      <4>1. BaseFrame = "base" /\ "lidar" \notin robot
        BY <2>2, <3>1, <3>2
      <4> QED
        BY <3>2, <4>1
    <3>3. CASE effective.imuTf /\ v = <<BaseFrame, "imu">>
      <4>1. BaseFrame \in {"base", "lidar"} /\ "imu" \notin robot
        BY <2>2, <3>1, <3>3
      <4> QED
        BY <3>3, <4>1
    <3>4. CASE \E f \in robot : v = <<"mount", f>>
      <4>1. PICK f \in robot : v = <<"mount", f>>
        BY <3>4
      <4>2. f \in {"lidar", "imu"} /\ f # BaseFrame
        BY <2>2, <3>1, <4>1
      <4> QED
        BY <4>1, <4>2
    <3>5. CASE odom /\ v = <<"odom", BaseFrame>>
      <4>1. BaseFrame \in {"base", "lidar"}
        BY <3>1
      <4> QED
        BY <3>5, <4>1
    <3>6. CASE ~effective.mapOdom /\ v = <<"map", BaseFrame>>
      <4>1. ~odom /\ BaseFrame \in {"base", "lidar"}
        BY <2>2, <3>1, <3>6
      <4> QED
        BY <3>6, <4>1
    <3>7. CASE odom /\ v = <<"map", "odom">>
      <4>1. "odom" # BaseFrame
        BY <3>1
      <4> QED
        BY <3>7, <4>1
    <3> QED
      BY <2>1, <3>2, <3>3, <3>4, <3>5, <3>6, <3>7 DEF Transforms
  <2> HIDE DEF Parent
  <2>4. /\ t = <<Parent(t[2]), t[2]>> /\ t[2] # Parent(t[2])
        /\ u = <<Parent(u[2]), u[2]>>
    BY <2>3
  <2>5. t[1] = Parent(t[2])
    BY <2>4
  <2> QED
    BY <2>4, <2>5
<1> QED
  BY <1>1, BringupAlways, PTL

\* A pose given to the generator is the localizer's by the time it is active,
\* although the mid360 launch file overrides the parameter file
\* (launch_command, on_activate).
THEOREM PrintedPosesAreApplied == Spec => []PrintedPoseIsApplied
<1>1. BringupInv => PrintedPoseIsApplied
  BY DEF BringupInv, PrintedPoseIsApplied
<1> QED
  BY <1>1, BringupAlways, PTL

-----------------------------------------------------------------------------
(* The doctor.                                                             *)

\* A doctor that passes has seen what the running parameters need, option by
\* option: the flag that asks for it, the argument that turns it on.
LEMMA NeedsAreChecked ==
  ASSUME BringupInv, Launched, Failures(Flags) = {}, ~StandaloneQuickstart
  PROVE  NeedsMet
<1> DEFINE flags == Flags
<1>0. Setup /\ effective = Running
  BY DEF BringupInv, RunsWhatWasAsked
<1>1. /\ CloudFailures(flags) = {} /\ ImuFailures(flags) = {}
      /\ TransformFailures(flags) = {} /\ StatusFailures(flags) = {}
  BY DEF Failures
<1>2. /\ effective.imu => flags.imu
      /\ effective.baseTransform => flags.imuTf
      /\ effective.mapOdom => flags.odomBase
      /\ ~DeskewUnasked => flags.cloudTime
  <2>1. CASE entry = "command"
    <3>1. /\ flags.imu = (EffectiveImuMode(request) # "off" \/ DeskewRequiresImu(request))
          /\ flags.imuTf = UseBaseTransform(request) /\ flags.cloudTime = UseDeskew(request)
          /\ flags.odomBase = (request.profile \in {"nav2", "mid360"})
      BY <2>1 DEF Flags, DoctorFlags
    <3>2. /\ effective.imu = UseImuPreintegration(request)
          /\ effective.baseTransform = UseBaseTransform(request)
          /\ effective.mapOdom = (request.profile # "standalone")
      BY <1>0, <2>1, RunningOfCommand
    <3>3. request.profile \in Profiles
      BY <1>0, Fields DEF Setup
    <3> QED
      BY <2>1, <3>1, <3>2, <3>3
         DEF UseImuPreintegration, Preintegrating, Profiles, DeskewUnasked
  <2>2. CASE entry = "quickstart"
    <3>1. /\ flags.imu = (request.profile = "mid360") /\ flags.imuTf = (request.profile = "mid360")
          /\ flags.odomBase = (request.profile \in {"nav2", "mid360"})
      BY <2>2 DEF Flags, QuickstartDoctorFlags
    <3>2. /\ effective.imu = (request.profile # "nav2")
          /\ effective.baseTransform = (request.profile = "mid360")
          /\ effective.mapOdom = (request.profile # "standalone")
      BY <1>0, <2>2, RunningOfQuickstart
    <3>3. request.profile \in Profiles
      BY <1>0, Fields DEF Setup
    <3> QED
      BY <2>2, <3>1, <3>2, <3>3 DEF Profiles, DeskewUnasked, StandaloneQuickstart
  <2> QED
    BY <1>0, <2>1, <2>2 DEF Setup
<1> HIDE DEF flags
<1>3. "cloud" \in heard /\ (flags.cloudTime => timing)
  <2>1. "no cloud" \notin CloudFailures(flags) /\ "no time field" \notin CloudFailures(flags)
    BY <1>1
  <2>2. "cloud" \in heard
    BY <2>1 DEF CloudFailures
  <2>3. ~("cloud" \in heard /\ flags.cloudTime /\ ~timing)
    BY <2>1 DEF CloudFailures
  <2> QED
    BY <2>2, <2>3
<1>4. flags.imu => /\ "imu" \in heard
                   /\ status # <<>> => status.imu \in Working \cup Waiting
  BY <1>1 DEF ImuFailures, StatusFailures, ImuStatusFails, StrictImu
<1>5. \A c \in TfChecks(flags) : HaveTf(c) \/ Optional(flags, c)
  BY <1>1 DEF TransformFailures
<1>6. flags.imuTf => Connected("imu")
  <2>1. flags.imuTf => "imu tf" \in TfChecks(flags)
    BY DEF TfChecks
  <2>2. ~Optional(flags, "imu tf") /\ HaveTf("imu tf") = Connected("imu")
    BY DEF Optional, HaveTf
  <2> QED
    BY <1>5, <2>1, <2>2
<1>7. flags.odomBase => "odom" \in heard
  <2>1. "odom tf" \in TfChecks(flags)
    BY DEF TfChecks
  <2>2. (flags.odomBase => ~Optional(flags, "odom tf")) /\ HaveTf("odom tf") = ("odom" \in heard)
    BY DEF Optional, HaveTf
  <2> QED
    BY <1>5, <2>1, <2>2
<1> QED
  BY <1>2, <1>3, <1>4, <1>6, <1>7 DEF NeedsMet

\* A check that asks for the IMU is printed only when the IMU path runs. The
\* legacy mode is the exception FailIsReal leaves out.
LEMMA ChecksAreWanted ==
  ASSUME BringupInv, Launched, request.imuMode # "legacy"
  PROVE  /\ StrictImu(Flags) => effective.imu
         /\ Flags.odomBase => request.profile # "standalone"
         /\ Flags.mapOdom => request.profile # "standalone"
<1>0. Setup /\ effective = Running /\ written = Params(request) /\ ~Refused(request)
  BY DEF BringupInv, RunsWhatWasAsked
<1>1. CASE entry = "command"
  <2>1. /\ Flags.imu = (EffectiveImuMode(request) # "off" \/ DeskewRequiresImu(request))
        /\ Flags.imuTf = UseBaseTransform(request)
        /\ Flags.odomBase = (request.profile \in {"nav2", "mid360"})
        /\ Flags.mapOdom = (request.profile = "nav2")
    BY <1>1 DEF Flags, DoctorFlags
  <2>2. effective.imu = UseImuPreintegration(request)
    BY <1>0, <1>1, RunningOfCommand
  <2>3. /\ request.imuMode \in ImuModes \cup {"profile"}
        /\ request.profile \in Profiles
    BY <1>0 DEF Setup, RequestType
  <2>4. EffectiveImuMode(request) \in {"off"} \cup Preintegrating
    <3>1. ProfileDefaults(request.profile).imuMode \in {"off", "preintegration"}
      BY DEF ProfileDefaults
    <3> QED
      BY <2>3, <3>1 DEF EffectiveImuMode, ImuModes, Preintegrating
  <2>5. DeskewRequiresImu(request) => EffectiveImuMode(request) # "off"
    BY <1>0 DEF Refused
  <2>6. Flags.imu => effective.imu
    BY <2>1, <2>2, <2>4, <2>5 DEF UseImuPreintegration
  <2>7. Flags.imuTf => effective.imu
    BY <2>1, <2>2 DEF UseBaseTransform
  <2> QED
    BY <2>1, <2>6, <2>7 DEF StrictImu
<1>2. CASE entry = "quickstart"
  <2>1. /\ Flags.imu = (request.profile = "mid360") /\ Flags.imuTf = (request.profile = "mid360")
        /\ Flags.odomBase = (request.profile \in {"nav2", "mid360"})
        /\ Flags.mapOdom = (request.profile = "nav2")
    BY <1>2 DEF Flags, QuickstartDoctorFlags
  <2>2. effective.imu = (request.profile # "nav2")
    BY <1>0, <1>2, RunningOfQuickstart
  <2> QED
    BY <2>1, <2>2 DEF StrictImu
<1> QED
  BY <1>0, <1>1, <1>2 DEF Setup

\* A healthy deployment fails no check.
LEMMA HealthyPasses ==
  ASSUME BringupInv, Launched, Healthy, request.imuMode # "legacy"
  PROVE  Failures(Flags) = {}
<1> DEFINE flags == Flags
<1>1. /\ {"cloud", "imu"} \subseteq heard /\ timing /\ Connected("lidar") /\ Connected("imu")
      /\ request.profile # "standalone" => {"odom", "map"} \subseteq heard
      /\ status # <<>> /\ ~status.error
      /\ effective.imu => status.imu \in Working
  BY DEF Healthy
<1>2. /\ StrictImu(flags) => status.imu \in Working
      /\ flags.odomBase => "odom" \in heard
      /\ flags.mapOdom => "map" \in heard
  BY <1>1, ChecksAreWanted
<1> HIDE DEF flags
<1>3. CloudFailures(flags) = {}
  <2> SUFFICES ASSUME NEW c \in CloudFailures(flags) PROVE FALSE
    OBVIOUS
  <2>1. c \in {"no cloud", "no time field"}
    BY DEF CloudFailures
  <2> QED
    BY <1>1, <2>1 DEF CloudFailures
<1>4. ImuFailures(flags) = {}
  BY <1>1 DEF ImuFailures
<1>5. TransformFailures(flags) = {}
  <2> SUFFICES ASSUME NEW c \in TfChecks(flags), ~HaveTf(c), ~Optional(flags, c) PROVE FALSE
    BY DEF TransformFailures
  <2>1. c \in {"lidar tf", "imu tf", "odom tf", "map tf"}
    BY DEF TfChecks
  <2>2. /\ HaveTf("lidar tf") = Connected("lidar")
        /\ HaveTf("imu tf") = Connected("imu")
        /\ HaveTf("odom tf") = ("odom" \in heard)
        /\ HaveTf("map tf") = ("map" \in heard)
    BY DEF HaveTf
  <2>3. /\ ~flags.odomBase => Optional(flags, "odom tf")
        /\ ~flags.mapOdom => Optional(flags, "map tf")
    BY DEF Optional
  <2>4. c # "lidar tf" /\ c # "imu tf"
    BY <1>1, <2>2
  <2>5. c # "odom tf"
    BY <1>2, <2>2, <2>3
  <2>6. c # "map tf"
    BY <1>2, <2>2, <2>3
  <2> QED
    BY <2>1, <2>4, <2>5, <2>6
<1>6. StatusFailures(flags) = {}
  <2>1. ~ImuStatusFails(flags, status.imu) /\ ~ScanTimeFails(flags)
    BY <1>1, <1>2 DEF ImuStatusFails, ScanTimeFails
  <2>2. ~DeskewInputsFail(flags, status.imu) /\ ~DeskewFails(flags, status.imu)
    BY <1>1, <1>2 DEF DeskewInputsFail, DeskewFails, StrictDeskew, DeskewReady
  <2> SUFFICES ASSUME NEW c \in StatusFailures(flags) PROVE FALSE
    OBVIOUS
  <2>3. c \in {"error", "imu status", "scan time", "deskew inputs", "deskew"}
    BY <1>1 DEF StatusFailures
  <2> QED
    BY <1>1, <2>1, <2>2, <2>3 DEF StatusFailures
<1> QED
  BY <1>3, <1>4, <1>5, <1>6 DEF Failures, flags

\* The doctor passes only a deployment that has what its localizer was started
\* with and fails only one that lacks something (make_params, launch_command,
\* doctor_command, the launch files, evaluate_snapshot).
THEOREM TheDoctorIsRight == Spec => DoctorIsRight
<1>1. BringupInv => BringupTypeOK
  BY DEF BringupInv
<1>2. BringupInv /\ [Next]_vars =>
        [doctor' = "passed" /\ doctor # "passed"
           => NeedsMet \/ StandaloneQuickstart]_vars
  <2> SUFFICES ASSUME BringupInv, [Next]_vars, doctor' = "passed", doctor # "passed",
                      ~StandaloneQuickstart
               PROVE  NeedsMet
    OBVIOUS
  <2>1. Judge
    BY DEF Next, vars, toolVars, Generate, Launch, Configure, Activate, Intervene,
           InitialPose, World, ImuSample, Scan, Listen, Hear, Record, Validate
  <2>2. Failures(Flags) = {} /\ Launched
    BY <2>1 DEF Judge, BringupInv
  <2> QED
    BY <2>2, NeedsAreChecked
<1>3. BringupInv /\ [Next]_vars =>
        [doctor' = "failed" /\ doctor # "failed" /\ request.imuMode # "legacy" => ~Healthy]_vars
  <2> SUFFICES ASSUME BringupInv, [Next]_vars, doctor' = "failed", doctor # "failed",
                      request.imuMode # "legacy", Healthy
               PROVE  FALSE
    OBVIOUS
  <2>1. Judge
    BY DEF Next, vars, toolVars, Generate, Launch, Configure, Activate, Intervene,
           InitialPose, World, ImuSample, Scan, Listen, Hear, Record, Validate
  <2>2. Failures(Flags) # {} /\ Launched
    BY <2>1 DEF Judge, BringupInv
  <2> QED
    BY <2>2, HealthyPasses
<1> QED
  BY <1>1, <1>2, <1>3, BringupAlways, PTL DEF Spec, DoctorIsRight, PassIsEarned, FailIsReal
=============================================================================
