SPECIFICATION Spec
CONSTANTS
  speed = speed
  radius = radius
  unknown = unknown
  old = old
  new = new
  bad = bad
  NumNodes = 3
  Recovery = 2
  Names <- MCNames
  Values <- MCValues
  Changes <- MCChange
  Faulty <- MCFaultyActivation
  Unrecoverable = FALSE
  NoRequest = NoRequest
  MaxRequests = 2
INVARIANTS
  PreviousRestored
CHECK_DEADLOCK FALSE
