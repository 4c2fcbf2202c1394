SPECIFICATION Spec
CONSTANTS
  c1 = c1
  c2 = c2
  near = near
  other = other
  Clients <- MCOneClient
  Goal <- MCGoal
  GoalLists <- MCGoalLists
  PoseUser <- MCUser
  RawUser <- MCUser
  Outsiders <- MCNoOutsiders
  NoUser = NoUser
  PreemptValues = {TRUE}
  RecoveryHolds = FALSE
  Localized = FALSE
  MaxCalls = 4
  MaxUnread = 2
INVARIANTS
  PlanIsCurrent
CHECK_DEADLOCK FALSE
