SPECIFICATION FairSpec
CONSTANTS
  curvature = 0
  Speeds <- MCFewSpeeds
  Limits <- MCLimits
  Commands <- MCCommands
  NonFinite = NonFinite
  NoCmd = NoCmd
  Never = Never
  Channels <- MCFewChannels
  NoChannel <- MCNoChannel
  ClockSteps <- MCForward
  cmd_timeout = 1
  keepalive_period = 0
  MaxSmootherStep = 1
  StopPeriod = 1
PROPERTIES
  ComesToRest
CHECK_DEADLOCK FALSE
