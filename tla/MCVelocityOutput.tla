-------------------------- MODULE MCVelocityOutput --------------------------
EXTENDS VelocityOutput

CONSTANTS curvature, Speeds

MCLimits ==
  [max_linear_vel |-> 2, min_linear_vel |-> -2, max_angular_vel |-> 2,
   max_linear_acc |-> 1, max_linear_decel |-> 2,
   max_angular_acc |-> 1, max_angular_decel |-> 1, curvature |-> curvature]

\* Turns at these speeds, for each source (some beyond the limits).
MCCommands == [s \in Sources |-> {[linear |-> v, angular |-> 2] : v \in Speeds[s]}]

MCNoChannel == [protective_stop |-> FALSE, max_linear_vel |-> 9, max_angular_vel |-> 9]
MCSlow == [protective_stop |-> FALSE, max_linear_vel |-> 1, max_angular_vel |-> 9]
MCStop == [protective_stop |-> TRUE, max_linear_vel |-> 9, max_angular_vel |-> 9]
MCChannels == {MCNoChannel, MCSlow, MCStop}
MCFewChannels == {MCNoChannel, MCStop}

MCSpeeds == [CONTROLLER |-> {2}, TAKEOVER |-> {-2}, OVERRIDE |-> {3}]
MCFewSpeeds == [CONTROLLER |-> {1}, TAKEOVER |-> {}, OVERRIDE |-> {}]
MCClockSteps == {-1, 2}
MCForward == {0, 1}
=============================================================================
