SPECIFICATION Spec
CONSTANTS
  curvature = 1
  Speeds <- MCSpeeds
  Limits <- MCLimits
  Commands <- MCCommands
  NonFinite = NonFinite
  NoCmd = NoCmd
  Never = Never
  Channels <- MCChannels
  NoChannel <- MCNoChannel
  ClockSteps <- MCClockSteps
  cmd_timeout = 2
  keepalive_period = 3
  MaxSmootherStep = 1
  StopPeriod = 1
INVARIANTS
  TypeOK
  StoppedOutside
  SmootherTracks
  NothingStale
PROPERTIES
  ProtectiveStop
  WithinLimits
  SmoothMotion
  AbandonedBrakes
  KeptAlive
CHECK_DEADLOCK FALSE
