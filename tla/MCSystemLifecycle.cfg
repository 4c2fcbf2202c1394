SPECIFICATION FairSpec
CONSTANTS
  speed = speed
  radius = radius
  unknown = unknown
  old = old
  new = new
  bad = bad
  NumNodes = 3
  Recovery = 2
  Names <- MCNames
  Values <- MCValues
  Changes <- MCChanges
  Faulty <- MCFaulty
  Unrecoverable = TRUE
  NoRequest = NoRequest
  MaxRequests = 3
INVARIANTS
  TypeOK
  CyclesOverActive
  UnconfiguredIsClean
  HoldHasOwner
PROPERTIES
  ImplementsReconfiguration
  ShutdownEnds
  ReconfigureAnswered
CHECK_DEADLOCK FALSE
