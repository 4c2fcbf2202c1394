SPECIFICATION Spec
CONSTANTS
  speed = speed
  radius = radius
  unknown = unknown
  old = old
  new = new
  bad = bad
  NumNodes = 3
  Recovery = 2
  Names <- MCNames
  Values <- MCValues
  Changes <- MCChanges
  Faulty <- MCFaultyDeactivation
  Unrecoverable = TRUE
  NoRequest = NoRequest
  MaxRequests = 2
INVARIANTS
  ShutdownFinalizes
CHECK_DEADLOCK FALSE
