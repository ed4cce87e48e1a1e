------------------------------ MODULE Bringup ------------------------------
(***************************************************************************)
(* Deployment of the localizer: the configuration generator or the         *)
(* quickstart command writes a parameter file and a launch command, the    *)
(* launch file of the profile overrides parameters of that file, publishes *)
(* static transforms and drives the lifecycle node, and two tools judge    *)
(* the result: the bringup doctor (topics, transforms, last status) and    *)
(* the IMU runtime validator (a series of statuses).                       *)
(*                                                                         *)
(* A table of parameters is a function on parameter names. ROS 2 resolves  *)
(* a launch argument over a launch default over the file.                  *)
(***************************************************************************)
EXTENDS Integers

CONSTANTS Entries,        \* the tools in use: "command" and / or "quickstart"
          Requests,       \* the command lines considered
          SampleStatuses, \* IMU verdicts a scan may get once samples arrive
          MaxInterventions, \* bound on lifecycle commands typed by the operator
          MaxSamples      \* bound on the statuses the validator records

Profiles == {"standalone", "nav2", "mid360"}
ImuModes == {"off", "legacy", "preintegration", "both"}
Preintegrating == {"preintegration", "both"}

RequestType ==
  [profile : Profiles, imuMode : ImuModes \cup {"profile"}, enableImu : BOOLEAN,
   deskew : {"unset", "on", "off"}, lidarDeskew : BOOLEAN, pose : BOOLEAN,
   noLidarTf : BOOLEAN, noImuTf : BOOLEAN, imuTf : BOOLEAN,
   baseIsLidar : BOOLEAN, outputTaken : BOOLEAN]

\* The verdicts on the IMU path that a status may carry.
Working == {"prediction_active", "prediction_available"}
Waiting == {"waiting_for_smoother_initialization", "waiting_for_new_imu"}
ImuStatuses == Working \cup Waiting \cup
  {"disabled", "fallback_mode", "transform_unavailable", "waiting_for_imu",
   "invalid_delta_time", "non_finite_sample", "stale_imu",
   "integration_window_too_large", "prediction_non_finite"}

ASSUME BringupAssumption ==
  /\ Entries \subseteq {"command", "quickstart"}
  /\ Requests \subseteq RequestType
  /\ SampleStatuses \subseteq ImuStatuses
  /\ MaxInterventions \in Nat /\ MaxSamples \in Nat \ {0}

VARIABLES
  entry, request,  \* the tool and its command line
  robot,           \* the sensor frames the robot description already publishes
  mapFile,         \* the map exists and can be read
  timing,          \* the cloud carries a per-point time field
  written,         \* the parameter file: a table, empty before the tool ran
  effective,       \* parameters and transform switches of the running launch
  node,            \* lifecycle state of the localizer
  asked,           \* the lifecycle transition a launch event has requested
  mapLoaded, pose, \* the localizer's map and the origin of its pose
  odom,            \* an external source publishes odom -> base
  streams,         \* the sensor topics with data
  imuSeen,         \* the localizer integrated an IMU sample
  fallback,        \* imu_preintegration_fallback_mode_
  status,          \* the last /alignment_status, latched
  interventions,   \* operator lifecycle commands used
  doctor, heard,   \* the doctor's phase; the topics and the moving transforms
                   \* it has received
  record, tripped, \* the validator's counts; did the guard trip meanwhile
  validated        \* its verdict

setupVars == <<entry, request, robot, timing>>
nodeVars == <<node, asked, mapLoaded, pose, imuSeen, fallback, status>>
toolVars == <<doctor, heard, record, tripped, validated>>
worldVars == <<mapFile, odom, streams>>
vars == <<setupVars, nodeVars, toolVars, worldVars, written, effective,
          interventions>>

-----------------------------------------------------------------------------
(* The configuration generator. *)

ProfileDefaults(p) ==
  [imuMode |-> IF p = "mid360" THEN "preintegration" ELSE "off",
   baseTransform |-> p = "mid360",
   mapOdom |-> p # "standalone"]

EffectiveImuMode(r) ==
  IF r.enableImu THEN "both"
  ELSE IF r.imuMode # "profile" THEN r.imuMode
  ELSE ProfileDefaults(r.profile).imuMode

UseImuPreintegration(r) == EffectiveImuMode(r) \in Preintegrating

UseBaseTransform(r) ==
  UseImuPreintegration(r) /\ ProfileDefaults(r.profile).baseTransform

UseDeskew(r) ==
  IF r.deskew # "unset" THEN r.deskew = "on" ELSE UseImuPreintegration(r)

DeskewRequiresImu(r) == UseDeskew(r) /\ ~r.lidarDeskew

\* validate_args refuses the deskew without IMU, main an output that exists.
Refused(r) ==
  \/ DeskewRequiresImu(r) /\ EffectiveImuMode(r) = "off"
  \/ r.outputTaken

Params(r) ==
  [setPose |-> r.pose, imu |-> UseImuPreintegration(r),
   baseTransform |-> UseBaseTransform(r), deskew |-> UseDeskew(r),
   mapOdom |-> ProfileDefaults(r.profile).mapOdom]

\* The arguments launch_command prints, by the option that makes it print them.
Printed(r) ==
  [setPose |-> r.profile = "mid360" /\ r.pose, lidarTf |-> r.noLidarTf \/ r.baseIsLidar,
   imuTf |-> r.noImuTf \/ r.imuTf, imu |-> TRUE, baseTransform |-> TRUE,
   deskew |-> UseDeskew(r)]
PrintedValues(r) ==
  [setPose |-> TRUE, lidarTf |-> FALSE, imuTf |-> ~r.noImuTf,
   imu |-> UseImuPreintegration(r), baseTransform |-> UseBaseTransform(r), deskew |-> TRUE]
OnlyPrinted(printed, values) == [k \in {j \in DOMAIN printed : printed[j]} |-> values[k]]

\* Mutants: the generator forgets the pose of the mid360 profile; it forgets to
\* silence the IMU transform of the nav2 launch file.
CommandArgumentsNoPose(r) ==
  OnlyPrinted([Printed(r) EXCEPT !.setPose = FALSE], PrintedValues(r))
CommandArgumentsImuTf(r) ==
  OnlyPrinted([Printed(r) EXCEPT !.imuTf = r.imuTf], [PrintedValues(r) EXCEPT !.imuTf = TRUE])

\* The arguments of the printed launch command.
CommandArguments(r) == OnlyPrinted(Printed(r), PrintedValues(r))

\* Quickstart has no IMU or deskew option and always overwrites its file.
QuickstartOffers(r) ==
  /\ r.imuMode = "profile" /\ ~r.enableImu /\ r.deskew = "unset"
  /\ ~r.lidarDeskew /\ ~r.noImuTf /\ ~r.outputTaken

\* What quickstart passes on to the profile's launch file.
QuickstartArguments(r) == [lidarTf |-> ~r.noLidarTf, imuTf |-> r.imuTf /\ ~r.noImuTf]

\* Mutants: the printed check does not ask for the IMU transform; it always asks
\* for the IMU.
DoctorFlagsNoImuTf(r) ==
  [imu |-> EffectiveImuMode(r) # "off" \/ DeskewRequiresImu(r),
   imuTf |-> FALSE, cloudTime |-> UseDeskew(r),
   odomBase |-> r.profile \in {"nav2", "mid360"},
   mapOdom |-> r.profile = "nav2"]

DoctorFlags(r) ==
  [imu |-> EffectiveImuMode(r) # "off" \/ DeskewRequiresImu(r),
   imuTf |-> UseBaseTransform(r), cloudTime |-> UseDeskew(r),
   odomBase |-> r.profile \in {"nav2", "mid360"},
   mapOdom |-> r.profile = "nav2"]

\* The check quickstart starts by itself three seconds after the launch.
QuickstartDoctorFlags(r) ==
  [imu |-> r.profile = "mid360", imuTf |-> r.profile = "mid360", cloudTime |-> FALSE,
   odomBase |-> r.profile \in {"nav2", "mid360"}, mapOdom |-> r.profile = "nav2"]

-----------------------------------------------------------------------------
(* The launch files: defaults of the arguments they turn into parameters. *)

StandaloneDefaults ==
  [imu |-> TRUE, baseTransform |-> FALSE, mapOdom |-> FALSE, deskew |-> TRUE,
   lidarTf |-> TRUE, imuTf |-> FALSE]
Nav2Defaults ==
  [imu |-> FALSE, baseTransform |-> FALSE, mapOdom |-> TRUE, deskew |-> TRUE,
   lidarTf |-> TRUE, imuTf |-> TRUE]
Mid360Defaults ==
  [imu |-> TRUE, baseTransform |-> TRUE, mapOdom |-> TRUE, deskew |-> TRUE,
   lidarTf |-> TRUE, imuTf |-> FALSE, setPose |-> FALSE]
LaunchDefaults(p) ==
  CASE p = "standalone" -> StandaloneDefaults
    [] p = "nav2" -> Nav2Defaults
    [] p = "mid360" -> Mid360Defaults

LaunchArguments ==
  IF entry = "command" THEN CommandArguments(request) ELSE QuickstartArguments(request)

Flags == IF entry = "command" THEN DoctorFlags(request) ELSE QuickstartDoctorFlags(request)

\* f over g: the entries of g hold for the names f does not define.
Over(f, g) == [k \in DOMAIN f \cup DOMAIN g |-> IF k \in DOMAIN f THEN f[k] ELSE g[k]]

Launched == node # "absent"

\* Transforms as <<parent, child>>: the launch's static ones, those of the
\* robot description, the odometry's, and the localizer's.
BaseFrame == IF request.baseIsLidar THEN "lidar" ELSE "base"
Transforms ==
  IF ~Launched THEN {} ELSE
     (IF effective.lidarTf THEN {<<BaseFrame, "lidar">>} ELSE {})
  \cup (IF effective.imuTf THEN {<<BaseFrame, "imu">>} ELSE {})
  \cup {<<"mount", f>> : f \in robot}
  \cup (IF odom THEN {<<"odom", BaseFrame>>} ELSE {})
  \cup (IF ~mapLoaded \/ pose = "none" THEN {}
        ELSE IF ~effective.mapOdom THEN {<<"map", BaseFrame>>}
        ELSE IF odom THEN {<<"map", "odom">>} ELSE {})

\* The mount is rigidly below the base, so a frame the robot publishes is there.
Connected(frame) ==
  frame = BaseFrame \/ <<BaseFrame, frame>> \in Transforms \/ <<"mount", frame>> \in Transforms

-----------------------------------------------------------------------------
(* The bringup doctor: the set of its failed checks, over what it heard, the
   transforms it can look up and the last status. *)

StrictImu(flags) == flags.imu \/ flags.imuTf
StrictDeskew(flags) == flags.cloudTime /\ StrictImu(flags)

CloudFailures(flags) ==
  {c \in {"no cloud", "no time field"} :
     IF c = "no cloud" THEN "cloud" \notin heard
     ELSE "cloud" \in heard /\ flags.cloudTime /\ ~timing}

ImuFailures(flags) == IF flags.imu /\ "imu" \notin heard THEN {"no imu"} ELSE {}

\* The transforms that are looked up, and whether a lookup succeeds: the static
\* ones are latched, the buffer keeps the moving ones it received. The two
\* odometry ones are only warnings unless the profile asks for them.
TfChecks(flags) ==
  {"lidar tf", "odom tf", "map tf"} \cup (IF flags.imuTf THEN {"imu tf"} ELSE {})

HaveTf(c) ==
  CASE c = "lidar tf" -> Connected("lidar")
    [] c = "imu tf" -> Connected("imu")
    [] c = "odom tf" -> "odom" \in heard
    [] c = "map tf" -> "map" \in heard

Optional(flags, c) ==
  \/ c = "odom tf" /\ ~flags.odomBase
  \/ c = "map tf" /\ ~flags.mapOdom

TransformFailures(flags) ==
  {c \in TfChecks(flags) : ~HaveTf(c) /\ ~Optional(flags, c)}

ImuStatusFails(flags, s) == StrictImu(flags) /\ s \notin Working \cup Waiting

ScanTimeFails(flags) == flags.cloudTime /\ ~timing

\* The deskew inputs are ready when the cloud is timed and the IMU predicts; the
\* deskew itself needs the IMU only when it is not LiDAR-only.
DeskewReady(s) == timing /\ s \in Working
DeskewInputsFail(flags, s) == StrictDeskew(flags) /\ ~DeskewReady(s)
DeskewFails(flags, s) ==
  /\ StrictDeskew(flags) /\ effective.deskew
  /\ IF request.lidarDeskew THEN ~timing ELSE ~DeskewReady(s)

StatusFailures(flags) ==
  IF status = <<>> THEN {}
  ELSE {c \in {"error", "imu status", "scan time", "deskew inputs", "deskew"} :
          CASE c = "error" -> status.error
            [] c = "imu status" -> ImuStatusFails(flags, status.imu)
            [] c = "scan time" -> ScanTimeFails(flags)
            [] c = "deskew inputs" -> DeskewInputsFail(flags, status.imu)
            [] c = "deskew" -> DeskewFails(flags, status.imu)}

Failures(flags) ==
  CloudFailures(flags) \cup ImuFailures(flags) \cup TransformFailures(flags)
  \cup StatusFailures(flags)

(* The IMU runtime validator with its default thresholds, from the counts. *)
MinSamples == 2
NoRecord == [total |-> 0, active |-> 0, fallback |-> 0]

\* The counts after one more status.
Tally(r, s) ==
  [total |-> r.total + 1,
   active |-> r.active + (IF s.imu = "prediction_active" THEN 1 ELSE 0),
   fallback |-> r.fallback + (IF s.imu = "fallback_mode" THEN 1 ELSE 0)]
ValidatorFails(r) ==
  \/ r.total < MinSamples
  \/ 2 * r.active < r.total
  \/ r.active = 0
  \/ r.fallback > 0

-----------------------------------------------------------------------------
Nothing == [k \in {} |-> FALSE]

\* A robot description that already publishes a sensor frame is what the
\* --no-publish options are for; the odometry belongs to the nav2 and mid360
\* profiles (standalone publishes map -> base itself). A frame that is the base
\* is not below the mount as well.
Init ==
  /\ entry \in Entries
  /\ request \in Requests
  /\ entry = "quickstart" => QuickstartOffers(request)
  /\ robot = {f \in {"lidar", "imu"} :
               IF f = "lidar" THEN request.noLidarTf /\ ~request.baseIsLidar
                              ELSE request.noImuTf}
  /\ mapFile \in BOOLEAN /\ timing \in BOOLEAN
  /\ written = Nothing /\ effective = Nothing
  /\ node = "absent" /\ asked = "none" /\ mapLoaded = FALSE /\ pose = "none"
  /\ odom = FALSE /\ streams = {} /\ imuSeen = FALSE
  /\ fallback = FALSE /\ status = <<>> /\ interventions = 0
  /\ doctor = "idle" /\ heard = {} /\ record = NoRecord /\ tripped = FALSE
  /\ validated = "none"

\* The tool writes the parameter file, or refuses. Quickstart always
\* overwrites its own file and insists on a readable map.
Generate ==
  /\ written = Nothing
  /\ ~Refused(request)
  /\ entry = "quickstart" => mapFile
  /\ written' = Params(request)
  /\ UNCHANGED <<setupVars, nodeVars, toolVars, worldVars, effective, interventions>>

\* The launch starts the node and requests its configuration; the values a
\* node gets are those of the arguments, then the defaults, then the file.
Launch ==
  /\ written # Nothing /\ node = "absent"
  /\ effective' = Over(LaunchArguments, Over(LaunchDefaults(request.profile), written))
  /\ node' = "unconfigured" /\ asked' = "configure"
  /\ UNCHANGED <<setupVars, toolVars, worldVars, written, interventions,
                 mapLoaded, pose, imuSeen, fallback, status>>

\* Mutant: no handler asks for the activation.
ConfigureOnly ==
  /\ node = "unconfigured" /\ asked = "configure"
  /\ node' = "inactive" /\ asked' = "none"
  /\ UNCHANGED <<setupVars, toolVars, worldVars, written, effective, interventions,
                 mapLoaded, pose, imuSeen, fallback, status>>

\* on_configure always succeeds; its launch handler asks for the activation.
Configure ==
  /\ node = "unconfigured" /\ asked = "configure"
  /\ node' = "inactive" /\ asked' = "activate"
  /\ UNCHANGED <<setupVars, toolVars, worldVars, written, effective, interventions,
                 mapLoaded, pose, imuSeen, fallback, status>>

\* on_activate applies the configured pose, then loads the map; when that
\* fails the node falls back to inactive and no handler asks again.
Activate ==
  /\ node = "inactive" /\ asked = "activate"
  /\ asked' = "none"
  /\ pose' = IF effective.setPose THEN "explicit" ELSE pose
  /\ node' = IF mapFile THEN "active" ELSE "inactive"
  /\ mapLoaded' = (mapLoaded \/ mapFile)
  /\ UNCHANGED <<setupVars, toolVars, worldVars, written, effective, interventions,
                 imuSeen, fallback, status>>

\* `ros2 lifecycle set` by hand: deactivate, activate again, or clean up, after
\* which only the standalone launch file configures the node again.
Intervene ==
  /\ interventions < MaxInterventions /\ interventions' = interventions + 1
  /\ \/ /\ node = "active" /\ node' = "inactive"
        /\ UNCHANGED <<asked, mapLoaded, pose, imuSeen, fallback, status>>
     \/ /\ node = "inactive" /\ asked = "none" /\ asked' = "activate"
        /\ UNCHANGED <<node, mapLoaded, pose, imuSeen, fallback, status>>
     \/ /\ node = "inactive" /\ asked = "none" /\ node' = "unconfigured"
        /\ asked' = IF request.profile = "standalone" THEN "configure" ELSE "none"
        /\ mapLoaded' = FALSE /\ pose' = "none" /\ imuSeen' = FALSE
        /\ fallback' = FALSE /\ status' = <<>>
  /\ UNCHANGED <<setupVars, toolVars, worldVars, written, effective>>

\* A pose on /initialpose: subscribed from configuration on, map or no map. A
\* reset clears the fallback.
InitialPose ==
  /\ node \in {"inactive", "active"} /\ pose # "operator"
  /\ pose' = "operator" /\ fallback' = FALSE
  /\ UNCHANGED <<setupVars, toolVars, worldVars, written, effective, interventions,
                 node, asked, mapLoaded, imuSeen, status>>

World ==
  /\ \/ /\ ~mapFile /\ entry = "command" /\ mapFile' = TRUE /\ UNCHANGED <<odom, streams>>
     \/ /\ request.profile # "standalone" /\ odom' = ~odom /\ UNCHANGED <<mapFile, streams>>
     \/ /\ \E s \in {"cloud", "imu"} : streams' = IF s \in streams THEN streams \ {s}
                                                  ELSE streams \cup {s}
        /\ UNCHANGED <<mapFile, odom>>
  /\ UNCHANGED <<setupVars, nodeVars, toolVars, written, effective, interventions>>

\* An IMU sample: dropped when its transform to the base frame is missing.
ImuSample ==
  /\ node \in {"inactive", "active"} /\ "imu" \in streams /\ ~imuSeen
  /\ effective.imu
  /\ effective.baseTransform => Connected("imu")
  /\ imuSeen' = TRUE
  /\ UNCHANGED <<setupVars, toolVars, worldVars, written, effective, interventions,
                 node, asked, mapLoaded, pose, fallback, status>>

\* The verdicts the localizer can give of its IMU path at this scan.
ImuVerdicts ==
  CASE ~effective.imu -> {"disabled"}
    [] effective.imu /\ fallback -> {"fallback_mode"}
    [] effective.imu /\ ~fallback /\ ~imuSeen ->
         IF "imu" \in streams /\ effective.baseTransform /\ ~Connected("imu")
         THEN {"transform_unavailable"} ELSE {"waiting_for_imu"}
    [] OTHER -> SampleStatuses

\* beginImuPreintegrationBackendState and the divergence check carry the
\* fallback over; a tripped guard resets the smoother and leaves it as it was.
FallbackAfter(trip) == fallback

\* One scan, aligned from a pose on a loaded map; its status goes to the
\* latched topic, and to the validator while that one records.
Scan ==
  /\ node = "active" /\ "cloud" \in streams /\ pose # "none" /\ mapLoaded
  /\ \E error \in BOOLEAN, trip \in BOOLEAN, s \in ImuVerdicts :
       /\ trip => s = "prediction_active"
       /\ fallback' = FallbackAfter(trip)
       /\ status' = [imu |-> IF fallback' THEN "fallback_mode" ELSE s, error |-> error]
       /\ IF validated = "recording" /\ record.total < MaxSamples
          THEN /\ record' = Tally(record, status')
               /\ tripped' = (tripped \/ trip)
          ELSE UNCHANGED <<record, tripped>>
  /\ UNCHANGED <<setupVars, worldVars, written, effective, interventions, node,
                 asked, mapLoaded, pose, imuSeen, doctor, heard, validated>>

\* The doctor listens for a fixed time, then evaluates one snapshot.
Listen ==
  /\ Launched /\ doctor = "idle" /\ doctor' = "listening" /\ heard' = {}
  /\ UNCHANGED <<setupVars, nodeVars, worldVars, written, effective, interventions,
                 record, tripped, validated>>

\* The moving transforms that are published now.
Moving == (IF odom THEN {"odom"} ELSE {})
  \cup (IF <<"map", "odom">> \in Transforms THEN {"map"} ELSE {})

\* A message of a topic or a transform; what was received is kept to the end.
Hear ==
  /\ doctor = "listening"
  /\ \E s \in (streams \cup Moving) \ heard : heard' = heard \cup {s}
  /\ UNCHANGED <<setupVars, nodeVars, worldVars, written, effective, interventions,
                 doctor, record, tripped, validated>>

Judge ==
  /\ doctor = "listening"
  /\ doctor' = IF Failures(Flags) = {} THEN "passed" ELSE "failed"
  /\ UNCHANGED <<setupVars, nodeVars, worldVars, written, effective, interventions,
                 heard, record, tripped, validated>>

\* The validator collects statuses for its duration (the latched one first)
\* and evaluates the counts.
Record ==
  /\ Launched /\ validated = "none" /\ validated' = "recording"
  /\ record' = IF status = <<>> THEN NoRecord ELSE Tally(NoRecord, status)
  /\ UNCHANGED <<setupVars, nodeVars, worldVars, written, effective, interventions,
                 doctor, heard, tripped>>

Validate ==
  /\ validated = "recording"
  /\ validated' = IF ValidatorFails(record) THEN "failed" ELSE "passed"
  /\ UNCHANGED <<setupVars, nodeVars, worldVars, written, effective, interventions,
                 doctor, heard, record, tripped>>

Next ==
  \/ Generate \/ Launch \/ Configure \/ Activate \/ Intervene \/ InitialPose
  \/ World \/ ImuSample \/ Scan \/ Listen \/ Hear \/ Judge \/ Record \/ Validate

\* The launch system delivers the transitions its handlers request, and a node
\* carries them out.
Spec == Init /\ [][Next]_vars /\ WF_vars(Configure) /\ WF_vars(Activate)

-----------------------------------------------------------------------------
\* Type invariant: a node that runs has every parameter it was configured with.
BringupTypeOK ==
  /\ request \in RequestType /\ robot \subseteq {"lidar", "imu"}
  /\ node \in {"absent", "unconfigured", "inactive", "active"}
  /\ asked \in {"none", "configure", "activate"}
  /\ pose \in {"none", "explicit", "operator"}
  /\ status # <<>> => status.imu \in ImuStatuses
  /\ streams \subseteq {"cloud", "imu"}
  /\ heard \subseteq {"cloud", "imu", "odom", "map"}
  /\ Launched => DOMAIN Params(request) \subseteq DOMAIN effective
  /\ doctor \in {"idle", "listening", "passed", "failed"}
  /\ record.active + record.fallback <= record.total
  /\ record.total <= MaxSamples

\* Whatever the command line, the transforms of a running deployment form a
\* forest: no frame has two parents and none is its own. The static ones come
\* from the launch defaults and the printed switches, the others from the
\* robot, the odometry and the localizer (launch_command, the launch files). Left
\* out: quickstart told that its base is the LiDAR frame, which unlike the
\* generator leaves it to the operator to silence the transform between the two.
OneParentPerFrame ==
  ~(entry = "quickstart" /\ request.baseIsLidar /\ ~request.noLidarTf) =>
    \A t, u \in Transforms : t[1] # t[2] /\ (t[2] = u[2] => t = u)

\* A pose given to the configuration generator is the localizer's pose by the
\* time it is active, although the mid360 launch file overrides set_initial_pose
\* and the other two do not (launch_command, on_activate).
PrintedPoseIsApplied ==
  entry = "command" /\ node = "active" /\ request.pose => pose # "none"

\* Documented for every way of starting (docs/quickstart.md:43): an explicit
\* --initial-pose comes first. Quickstart does not pass it to the launch file.
ExplicitPoseReachesLocalizer ==
  node = "active" /\ request.pose => pose # "none"

\* The launch files turn the deskew on by default, over the parameter file: then
\* nobody asked for it, and the check does not ask for the time field.
DeskewUnasked == entry = "quickstart" \/ ~UseDeskew(request)

\* The launch file of the standalone profile turns the IMU path on while the
\* check of its quickstart does not ask for one.
StandaloneQuickstart == entry = "quickstart" /\ request.profile = "standalone"

\* What the running parameters need, as far as the doctor looks at it.
NeedsMet ==
  /\ "cloud" \in heard
  /\ effective.imu => /\ "imu" \in heard
                      /\ status # <<>> => status.imu \in Working \cup Waiting
  /\ effective.baseTransform => Connected("imu")
  /\ effective.mapOdom => "odom" \in heard
  /\ effective.deskew => timing \/ DeskewUnasked

\* The doctor passes only a deployment that has what its localizer was really
\* started with: the flags of the printed check, the parameter file and the
\* launch defaults are three tables kept by hand. The two named exceptions are
\* where the tables of the code do not agree.
PassIsEarned ==
  [][doctor' = "passed" /\ doctor # "passed"
       => NeedsMet \/ StandaloneQuickstart]_vars

Healthy ==
  /\ {"cloud", "imu"} \subseteq heard /\ timing
  /\ Connected("lidar") /\ Connected("imu")
  /\ request.profile # "standalone" => {"odom", "map"} \subseteq heard
  /\ status # <<>> /\ ~status.error
  /\ effective.imu => status.imu \in Working

\* The doctor fails only a deployment that lacks something. Left out: the
\* legacy IMU mode, whose check demands an IMU path that mode leaves disabled.
FailIsReal ==
  [][doctor' = "failed" /\ doctor # "failed" /\ request.imuMode # "legacy" => ~Healthy]_vars

\* A launch whose map can be read gets its localizer to the active state
\* (on_configure, on_activate and the launch files' transition handlers).
ReadableMapActivates == (asked = "configure" /\ mapFile) ~> node = "active"

\* The doctor's verdict on what was started, both ways.
DoctorIsRight == []BringupTypeOK /\ PassIsEarned /\ FailIsReal
=============================================================================
