SPECIFICATION FairSpec
CONSTANTS
  c1 = c1
  c2 = c2
  near = near
  other = other
  Clients <- MCOneClient
  Goal <- MCGoal
  GoalLists <- MCGoalLists
  PoseUser <- MCUser
  RawUser <- MCUser
  Outsiders <- MCOutsiders
  NoUser = NoUser
  PreemptValues = {TRUE, FALSE}
  RecoveryHolds = TRUE
  Localized = TRUE
  MaxCalls = 3
  MaxUnread = 2
INVARIANTS
  ActiveHasGoals
  PlanIsCurrent
  HeldKeepsGoals
PROPERTIES
  CycleSyncsMission
  EveryGoalAnswered
  EndIsPublished
