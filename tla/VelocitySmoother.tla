-------------------------- MODULE VelocitySmoother --------------------------
(***************************************************************************)
(* easynav_controller/VelocitySmoother and the limits it enforces.  A      *)
(* twist is its linear.x and its angular.z, the two axes that the turning  *)
(* radius couples; linear.y and linear.z are axes like linear.x without    *)
(* that coupling.  Quantities are integers of some fine unit, in which the *)
(* smallest turning radius is given by its inverse ("curvature", 0: the    *)
(* robot turns in place), so that no value is rounded.                     *)
(***************************************************************************)
EXTENDS Integers

Twist == [linear : Int, angular : Int]
Zero == [linear |-> 0, angular |-> 0]

Abs(v) == IF v < 0 THEN -v ELSE v
Least(v, w) == IF v < w THEN v ELSE w
Greatest(v, w) == IF v > w THEN v ELSE w
Clamped(v, low, high) == IF v < low THEN low ELSE IF v > high THEN high ELSE v

\* What invalid_robot_limits() accepts.
RobotLimits ==
  [max_linear_vel : Nat, min_linear_vel : {v \in Int : v <= 0}, max_angular_vel : Nat,
   max_linear_acc : Nat \ {0}, max_linear_decel : Nat \ {0},
   max_angular_acc : Nat \ {0}, max_angular_decel : Nat \ {0}, curvature : Nat]

\* What the safety channel imposes: a stop, and safely limited speeds.
SafetyChannelState ==
  [protective_stop : BOOLEAN, max_linear_vel : Nat, max_angular_vel : Nat]

\* Mutant: going backwards is not limited.
limited_byForward(limits, channel) ==
  [limits EXCEPT !.max_linear_vel = Least(@, channel.max_linear_vel),
                 !.max_angular_vel = Least(@, channel.max_angular_vel)]

limited_by(limits, channel) ==
  [limits EXCEPT !.max_linear_vel = Least(@, channel.max_linear_vel),
                 !.min_linear_vel = Greatest(@, -channel.max_linear_vel),
                 !.max_angular_vel = Least(@, channel.max_angular_vel)]

-----------------------------------------------------------------------------
\* Mutant: it goes from one direction to the other in a step.
step_axisAcross(current, target, acc, decel, dt) ==
  LET slowing == \/ current > 0 /\ target < current
                 \/ current < 0 /\ target > current
      max_delta == (IF slowing THEN decel ELSE acc) * dt
  IN current + Clamped(target - current, -max_delta, max_delta)

step_axis(current, target, acc, decel, dt) ==
  LET slowing == \/ current > 0 /\ target < current
                 \/ current < 0 /\ target > current
      max_delta == (IF slowing THEN decel ELSE acc) * dt
      next == current + Clamped(target - current, -max_delta, max_delta)
  IN IF (current > 0 /\ next < 0) \/ (current < 0 /\ next > 0) THEN 0 ELSE next

within_radius(angular, linear, curvature) ==
  IF curvature = 0 THEN angular
  ELSE Clamped(angular, -(Abs(linear) * curvature), Abs(linear) * curvature)

clamp(target, limits) ==
  LET linear == Clamped(target.linear, limits.min_linear_vel, limits.max_linear_vel)
      angular == Clamped(target.angular, -limits.max_angular_vel, limits.max_angular_vel)
  IN [linear |-> linear,
      angular |-> within_radius(angular, linear, limits.curvature)]

\* The command after dt on the way to the target.
step(current, target, dt, limits) ==
  LET goal == clamp(target, limits)
      linear == step_axis(current.linear, goal.linear,
                          limits.max_linear_acc, limits.max_linear_decel, dt)
      angular == step_axis(current.angular, goal.angular,
                           limits.max_angular_acc, limits.max_angular_decel, dt)
  IN [linear |-> linear,
      angular |-> within_radius(angular, linear, limits.curvature)]

\* Mutant: the rotation is not looked at.
reachedLinear(current, target, limits) == current.linear = clamp(target, limits).linear

reached(current, target, limits) == current = clamp(target, limits)

=============================================================================
