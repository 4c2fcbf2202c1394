---------------------------- MODULE MCComponents ---------------------------
(***************************************************************************)
(* The components that stand on their own, side by side: "part" says which *)
(* one a behaviour is about, and the others stay as they are.  PlannerNode *)
(* is explored twice: its schedule without paths, and its paths without    *)
(* the windows of its RateMonitor.                                         *)
(***************************************************************************)
EXTENDS ConfigurationFreeze, SafetySupervisor, SensorData, NavState, TransformBuffer,
        PointCloudView, PlannerNode, LocalizerNode

VARIABLE part

componentVars ==
  <<freezeVars, supervisorVars, sensorsVars, navStateVars, transformVars, viewVars, plannerVars,
    localizerNodeVars, part>>

ComponentsInit ==
  /\ part \in {"freeze", "supervisor", "sensors", "nav_state", "transforms", "view", "schedule", "path",
              "localizer"}
  /\ FreezeInit /\ SupervisorInit /\ SensorsInit /\ NavStateInit /\ TransformInit
  /\ ViewInit /\ PlannerInit /\ LocalizerNodeInit
  /\ part # "transforms" => motion = CHOOSE m \in Motions : TRUE
  /\ part # "transforms" => max_future_extrapolation = 0
  /\ part # "freeze" => params = CHOOSE p \in Declared : TRUE
  /\ perceptions[1].frame = "lidar"

\* The log directory keeps the files of at most two configurations: a file says
\* nothing of one that has another name.
FreezePart ==
  /\ part = "freeze" /\ FreezeNext
  /\ Cardinality({f.dump : f \in files'}) <= 2
  /\ UNCHANGED <<supervisorVars, sensorsVars, navStateVars, transformVars, viewVars, plannerVars,
                 localizerNodeVars, part>>

\* Poses are explored apart from statuses and from late cycles: what one of them
\* says does not depend on the others.
SupervisorPart ==
  /\ part = "supervisor" /\ SupervisorNext
  /\ robot_pose' = "none" \/ (last' = NoStatus /\ consecutive_late' = 0)
  /\ UNCHANGED <<freezeVars, sensorsVars, navStateVars, transformVars, viewVars, plannerVars,
                 localizerNodeVars, part>>

SensorsPart ==
  /\ part = "sensors" /\ SensorsNext
  /\ UNCHANGED <<freezeVars, supervisorVars, navStateVars, transformVars, viewVars, plannerVars,
                 localizerNodeVars, part>>

NavStatePart ==
  /\ part = "nav_state" /\ NavStateNext
  /\ UNCHANGED <<freezeVars, supervisorVars, sensorsVars, transformVars, viewVars, plannerVars,
                 localizerNodeVars, part>>

TransformPart ==
  /\ part = "transforms" /\ TransformNext
  /\ UNCHANGED <<freezeVars, supervisorVars, sensorsVars, navStateVars, viewVars, plannerVars,
                 localizerNodeVars, part>>

ViewPart ==
  /\ part = "view" /\ ViewNext
  /\ UNCHANGED <<freezeVars, supervisorVars, sensorsVars, navStateVars, transformVars, plannerVars,
                 localizerNodeVars, part>>

\* The windows that the monitor sees are little more than one window long, or
\* so long that they count as several.  Without plugins no time is counted: to load
\* one starts the schedule and its window anew.
PlannerPart ==
  /\ part \in {"schedule", "path"} /\ PlannerNext
  /\ \/ /\ part = "schedule"
        /\ path' = path
        /\ plugins_ = << >> /\ plugins_' = << >> => UNCHANGED <<scheduleVars, monitor>>
        /\ monitor'.elapsed \in -Jump .. RateWindow + 1 \cup {MaxSlowWindows * RateWindow}
     \/ /\ part = "path"
        /\ next_in' \in {0, 1, Period} /\ monitor'.elapsed = 0
  /\ UNCHANGED <<freezeVars, supervisorVars, sensorsVars, navStateVars, transformVars, viewVars,
                 localizerNodeVars, part>>

LocalizerPart ==
  /\ part = "localizer" /\ LocalizerNodeNext
  /\ UNCHANGED <<freezeVars, supervisorVars, sensorsVars, navStateVars, transformVars, viewVars,
                 plannerVars, part>>

ComponentsNext ==
  \/ FreezePart \/ SupervisorPart \/ SensorsPart \/ NavStatePart \/ TransformPart \/ ViewPart
  \/ PlannerPart \/ LocalizerPart

Spec == ComponentsInit /\ [][ComponentsNext]_componentVars

\* The sensors alone.
SensorsOnly == ComponentsInit /\ part = "sensors" /\ [][SensorsPart]_componentVars

\* Every variable of every component has a value of its kind; and the pose that a
\* localizer starts from is handed over in time (LastPoseFirst).
TypeOK ==
  /\ FreezeTypeOK /\ SupervisorTypeOK /\ SensorsTypeOK /\ NavStateTypeOK /\ TransformTypeOK
  /\ ViewTypeOK /\ PlannerTypeOK /\ LocalizerTypeOK /\ LastPoseFirst

-----------------------------------------------------------------------------
(* The constants.                                                          *)

\* check_controller() looks at the parameter of a plugin in safety mode.
MCChecked == {p \in Configurations : p["safety.mode"] = "on" => p["plugin"] # "on"}

MCStatuses ==
  {[protective_stop |-> FALSE, limit |-> "none"], [protective_stop |-> FALSE, limit |-> "valid"],
   [protective_stop |-> TRUE, limit |-> "none"], [protective_stop |-> FALSE, limit |-> "invalid"]}

MCConfigurable == {<<"lidar">>, <<"imu", "opaque">>}

MCGrouped == {{"a"}, {"a", "b"}}

\* Two frames that move at a pace that changes once, and one that does not.
MCFrames == 1 .. 3
MCLegs ==
  [target : {0}, source : {2}, time : 0 .. 5] \cup [target : {2}, source : {0}, time : {4}]
    \cup [target : {0}, source : {3}, time : {0, 5}] \cup {[target |-> 2, source |-> 3, time |-> 3]}
MCMotion(turn, pace) ==
  <<[s \in 1 .. 5 |-> 2 * s], [s \in 1 .. 5 |-> IF s <= turn THEN 0 ELSE 2 * pace * (s - turn)],
    [s \in 1 .. 5 |-> 1]>>
MCMotions == {MCMotion(turn, pace) : turn \in {1, 4}, pace \in {1, 2}}
MCExtrapolations == {-1, 2}

Point(x, z) == [x |-> x, z |-> z]
MCClouds == {<<Point(1, 0), Point(0, 1)>>, << >>}
MCOffset == [f \in {"robot", "lidar"} |-> IF f = "robot" THEN 0 ELSE 1]
MCBounds == {[x |-> {0, 1}, z |-> {0, 1}], [x |-> 0 .. 2, z |-> {0}]}

MCTypes == {<<"a">>, <<"b">>, << >>, <<"a", "a">>}
=============================================================================
