SPECIFICATION Spec
CONSTANTS
  Names = {"safety.mode", "plugin"}
  PluginNames = {"plugin"}
  Values = {"on", "off"}
  Undeclared = undeclared
  SafetyMode = "safety.mode"
  On = "on"
  Checked <- MCChecked
  MaxPeriod = 1
  MaxLate = 2
  HeartbeatPeriod = 1
  StatusTimeout = 1
  MaxPoseAge = 1
  Statuses <- MCStatuses
  NoStatus = none
  Unset = unset
  Sensors = {"lidar", "imu", "opaque"}
  Points = {"lidar"}
  Opaque = {"opaque"}
  Configurable <- MCConfigurable
  BufferSize = 2
  MaxStamp = 3
  ForgetTime = 1
  TfWindow = 1
  MaxHandlers = 2
  Threads = {"rt", "main"}
  NoThread = "nobody"
  Keys = {"a", "b"}
  Groups = {"g"}
  Grouped <- MCGrouped
  Frames <- MCFrames
  Legs <- MCLegs
  Fixed = {3}
  Motions <- MCMotions
  LastStamp = 5
  Cache = 3
  Extrapolations <- MCExtrapolations
  Window = 2
  Clouds <- MCClouds
  Offset <- MCOffset
  Bounds <- MCBounds
  Resolution = 2
  Plane = 0
  MaxPerceptions = 2
  Types <- MCTypes
  Working = {"a"}
  Period = 3
  WindowPeriods = 3
  Jump = 1
  Localizers = {l1, l2, l3}
  NoLocalizer = nobody_yet
INVARIANTS TypeOK FrozenConfiguration RenamedOnceClosed GroupsAgree InFrameAndBounds
PROPERTIES LostIsStopped InhibitedUntilUsable ReportsAreTrue StaleIsReported NewestUsable AnswersAreTrue RunsOnTime PlannerReportsAreTrue
