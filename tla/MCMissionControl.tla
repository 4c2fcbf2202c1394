-------------------------- MODULE MCMissionControl --------------------------
EXTENDS MissionControl, TLC

CONSTANTS c1, c2, near, other

MCClients == {c1, c2}
MCOneClient == {c1}
MCSymmetry == Permutations(MCClients)
MCGoal == {near}
MCUser == other
MCNoOutsiders == {}
MCOutsiders == {other}
MCGoalLists == {<<near>>, <<near, near>>}
=============================================================================
