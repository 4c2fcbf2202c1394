--------------------------- MODULE VelocityProofs ---------------------------
(***************************************************************************)
(* Proofs about VelocitySmoother and VelocityOutput, for any limits, any   *)
(* commands, any channel and any clock.                                    *)
(***************************************************************************)
EXTENDS VelocityOutput, TLAPS

(* The smoother. *)

LEMMA TwistType ==
  /\ Zero \in Twist /\ Zero.linear = 0 /\ Zero.angular = 0
  /\ \A t \in Twist : t.linear \in Int /\ t.angular \in Int
  /\ \A v, w \in Int : [linear |-> v, angular |-> w] \in Twist
BY DEF Twist, Zero

LEMMA ClampedType ==
  ASSUME NEW v \in Int, NEW low \in Int, NEW high \in Int
  PROVE  /\ Clamped(v, low, high) \in Int
         /\ low <= high => Clamped(v, low, high) \in low .. high
         /\ v \in low .. high => Clamped(v, low, high) = v
BY DEF Clamped

LEMMA AbsType ==
  ASSUME NEW v \in Int
  PROVE  Abs(v) \in Nat /\ (Abs(v) = 0 <=> v = 0)
BY DEF Abs

LEMMA ProductType ==
  ASSUME NEW v \in Nat, NEW w \in Nat
  PROVE  v * w \in Nat
OBVIOUS

LEMMA LimitTypes ==
  ASSUME NEW limits \in RobotLimits
  PROVE  /\ limits.max_linear_vel \in Nat /\ limits.max_angular_vel \in Nat
         /\ limits.min_linear_vel \in Int /\ limits.min_linear_vel <= 0
         /\ limits.max_linear_acc \in Nat /\ limits.max_linear_decel \in Nat
         /\ limits.max_angular_acc \in Nat /\ limits.max_angular_decel \in Nat
         /\ limits.curvature \in Nat
BY DEF RobotLimits

\* The safety channel takes speed away, and nothing else.
LEMMA LimitedBy ==
  ASSUME NEW limits \in RobotLimits, NEW channel \in SafetyChannelState
  PROVE  LET limited == limited_by(limits, channel) IN
         /\ limited \in RobotLimits
         /\ limited.max_linear_vel = Least(limits.max_linear_vel, channel.max_linear_vel)
         /\ limited.min_linear_vel = Greatest(limits.min_linear_vel, -channel.max_linear_vel)
         /\ limited.max_linear_acc = limits.max_linear_acc
         /\ limited.max_linear_decel = limits.max_linear_decel
         /\ limited.curvature = limits.curvature
<1> DEFINE slower == Least(limits.max_linear_vel, channel.max_linear_vel)
           back == Greatest(limits.min_linear_vel, -channel.max_linear_vel)
           turn == Least(limits.max_angular_vel, channel.max_angular_vel)
<1>1. /\ slower \in Nat /\ turn \in Nat
      /\ back \in {v \in Int : v <= 0}
  BY DEF RobotLimits, SafetyChannelState, Least, Greatest
<1>2. limited_by(limits, channel) =
        [max_linear_vel |-> slower, min_linear_vel |-> back, max_angular_vel |-> turn,
         max_linear_acc |-> limits.max_linear_acc, max_linear_decel |-> limits.max_linear_decel,
         max_angular_acc |-> limits.max_angular_acc,
         max_angular_decel |-> limits.max_angular_decel, curvature |-> limits.curvature]
  <2> DEFINE Record(v, w, t) ==
        [max_linear_vel |-> v, min_linear_vel |-> w, max_angular_vel |-> t,
         max_linear_acc |-> limits.max_linear_acc, max_linear_decel |-> limits.max_linear_decel,
         max_angular_acc |-> limits.max_angular_acc,
         max_angular_decel |-> limits.max_angular_decel, curvature |-> limits.curvature]
             f1 == [limits EXCEPT !.max_linear_vel = slower]
             f2 == [f1 EXCEPT !.min_linear_vel = back]
             f3 == [f2 EXCEPT !.max_angular_vel = turn]
  <2>1. limited_by(limits, channel) = f3
    BY DEF limited_by
  <2> HIDE DEF slower, back, turn
  <2>2. f1 = Record(slower, limits.min_linear_vel, limits.max_angular_vel)
    BY DEF RobotLimits
  <2>3. [Record(slower, limits.min_linear_vel, limits.max_angular_vel)
           EXCEPT !.min_linear_vel = back]
          = Record(slower, back, limits.max_angular_vel)
    OBVIOUS
  <2>4. [Record(slower, back, limits.max_angular_vel) EXCEPT !.max_angular_vel = turn]
          = Record(slower, back, turn)
    OBVIOUS
  <2> HIDE DEF Record
  <2>5. f3 = Record(slower, back, turn)
    BY <2>2, <2>3, <2>4
  <2> QED BY <2>1, <2>5 DEF Record
<1> HIDE DEF slower, back, turn
<1>3. limited_by(limits, channel) \in RobotLimits
  BY <1>1, <1>2 DEF RobotLimits
<1> QED BY <1>2, <1>3 DEF slower, back

\* An axis changes by no more than its accelerations allow, does not reverse in a
\* step, and stays within the range of its target or brakes towards it.
LEMMA StepAxis ==
  ASSUME NEW vel \in Int, NEW target \in Int, NEW acc \in Nat, NEW decel \in Nat,
         NEW dt \in Nat
  PROVE  LET next == step_axis(vel, target, acc, decel, dt) IN
         /\ next \in Int
         /\ Abs(next) <= Abs(vel) + acc * dt
         /\ Abs(next) >= Abs(vel) - decel * dt
         /\ ~(vel > 0 /\ next < 0) /\ ~(vel < 0 /\ next > 0)
         /\ \A low, high \in Int : low <= 0 /\ 0 <= high /\ target \in low .. high =>
              /\ next <= Greatest(high, vel - decel * dt)
              /\ next >= Least(low, vel + decel * dt)
<1> DEFINE up == acc * dt
           down == decel * dt
<1>1. up \in Nat /\ down \in Nat
  BY ProductType
<1>2. step_axis(vel, target, acc, decel, dt) =
        LET slowing == \/ vel > 0 /\ target < vel
                       \/ vel < 0 /\ target > vel
            max_delta == IF slowing THEN down ELSE up
            next == vel + Clamped(target - vel, -max_delta, max_delta)
        IN IF (vel > 0 /\ next < 0) \/ (vel < 0 /\ next > 0) THEN 0 ELSE next
  BY DEF step_axis
<1> HIDE DEF up, down
<1>3. LET next == step_axis(vel, target, acc, decel, dt) IN
         /\ next \in Int
         /\ Abs(next) <= Abs(vel) + up
         /\ Abs(next) >= Abs(vel) - down
         /\ ~(vel > 0 /\ next < 0) /\ ~(vel < 0 /\ next > 0)
  BY <1>1, <1>2 DEF Clamped, Abs
<1>4. ASSUME NEW low \in Int, NEW high \in Int, low <= 0, 0 <= high, target \in low .. high
      PROVE  LET next == step_axis(vel, target, acc, decel, dt) IN
             /\ next <= Greatest(high, vel - down)
             /\ next >= Least(low, vel + down)
  BY <1>1, <1>2, <1>4 DEF Clamped, Greatest, Least
<1> QED BY <1>3, <1>4 DEF up, down

LEMMA WithinRadius ==
  ASSUME NEW angular \in Int, NEW linear \in Int, NEW curvature \in Nat
  PROVE  /\ within_radius(angular, linear, curvature) \in Int
         /\ curvature # 0
              => Abs(within_radius(angular, linear, curvature)) <= Abs(linear) * curvature
         /\ within_radius(0, linear, curvature) = 0
<1> DEFINE radius == Abs(linear) * curvature
<1>1. radius \in Nat
  BY AbsType, ProductType
<1>2. within_radius(angular, linear, curvature) =
        IF curvature = 0 THEN angular ELSE Clamped(angular, -radius, radius)
  BY DEF within_radius
<1>3. within_radius(0, linear, curvature) =
        IF curvature = 0 THEN 0 ELSE Clamped(0, -radius, radius)
  BY DEF within_radius
<1> HIDE DEF radius
<1>4. Abs(Clamped(angular, -radius, radius)) <= radius
  BY <1>1 DEF Clamped, Abs
<1>5. within_radius(angular, linear, curvature) \in Int
  BY <1>1, <1>2, ClampedType
<1>6. within_radius(0, linear, curvature) = 0
  BY <1>1, <1>3, ClampedType
<1>7. curvature # 0 => Abs(within_radius(angular, linear, curvature)) <= radius
  BY <1>2, <1>4
<1> QED BY <1>5, <1>6, <1>7 DEF radius

LEMMA ClampType ==
  ASSUME NEW target \in Twist, NEW limits \in RobotLimits
  PROVE  /\ clamp(target, limits) \in Twist
         /\ clamp(target, limits).linear \in limits.min_linear_vel .. limits.max_linear_vel
         /\ limits.curvature # 0
              => Abs(clamp(target, limits).angular)
                   <= Abs(clamp(target, limits).linear) * limits.curvature
         /\ clamp(Zero, limits) = Zero
<1> DEFINE linear == Clamped(target.linear, limits.min_linear_vel, limits.max_linear_vel)
           angular == Clamped(target.angular, -limits.max_angular_vel, limits.max_angular_vel)
           turn == within_radius(angular, linear, limits.curvature)
<1>1. linear \in limits.min_linear_vel .. limits.max_linear_vel /\ linear \in Int
      /\ angular \in Int
  <2>1. /\ limits.min_linear_vel \in Int /\ limits.max_linear_vel \in Int
        /\ limits.max_angular_vel \in Int /\ -limits.max_angular_vel \in Int
        /\ limits.min_linear_vel <= limits.max_linear_vel
        /\ target.linear \in Int /\ target.angular \in Int
    BY TwistType, LimitTypes
  <2>2. linear \in limits.min_linear_vel .. limits.max_linear_vel
    BY <2>1, ClampedType
  <2>3. angular \in Int
    BY <2>1, ClampedType
  <2> QED BY <2>1, <2>2, <2>3
<1>2. clamp(target, limits) = [linear |-> linear, angular |-> turn]
  BY DEF clamp
<1>3. turn \in Int /\ (limits.curvature # 0 => Abs(turn) <= Abs(linear) * limits.curvature)
  <2> HIDE DEF linear, angular
  <2> QED BY <1>1, WithinRadius, LimitTypes
<1>4. clamp(Zero, limits) = Zero
  <2>1. Clamped(0, limits.min_linear_vel, limits.max_linear_vel) = 0
    BY LimitTypes DEF Clamped
  <2>2. Clamped(0, -limits.max_angular_vel, limits.max_angular_vel) = 0
    BY LimitTypes DEF Clamped
  <2>3. within_radius(0, 0, limits.curvature) = 0
    BY WithinRadius, LimitTypes
  <2> QED BY <2>1, <2>2, <2>3 DEF clamp, Zero
<1> HIDE DEF linear, angular, turn
<1> QED BY <1>1, <1>2, <1>3, <1>4, TwistType

LEMMA Step ==
  ASSUME NEW vel \in Twist, NEW target \in Twist, NEW dt \in Nat, NEW limits \in RobotLimits
  PROVE  LET next == step(vel, target, dt, limits) IN
         /\ next \in Twist
         /\ Abs(next.linear) <= Abs(vel.linear) + limits.max_linear_acc * dt
         /\ Abs(next.linear) >= Abs(vel.linear) - limits.max_linear_decel * dt
         /\ ~(vel.linear > 0 /\ next.linear < 0)
         /\ ~(vel.linear < 0 /\ next.linear > 0)
         /\ next.linear
              <= Greatest(limits.max_linear_vel, vel.linear - limits.max_linear_decel * dt)
         /\ next.linear
              >= Least(limits.min_linear_vel, vel.linear + limits.max_linear_decel * dt)
         /\ limits.curvature # 0 => Abs(next.angular) <= Abs(next.linear) * limits.curvature
<1> DEFINE goal == clamp(target, limits)
           linear == step_axis(vel.linear, goal.linear,
                               limits.max_linear_acc, limits.max_linear_decel, dt)
           angular == step_axis(vel.angular, goal.angular,
                                limits.max_angular_acc, limits.max_angular_decel, dt)
           turn == within_radius(angular, linear, limits.curvature)
<1>1. step(vel, target, dt, limits) = [linear |-> linear, angular |-> turn]
  BY DEF step
<1>2. /\ goal.linear \in Int /\ goal.angular \in Int
      /\ goal.linear \in limits.min_linear_vel .. limits.max_linear_vel
      /\ vel.linear \in Int /\ vel.angular \in Int
  BY TwistType, ClampType
<1> HIDE DEF goal
<1>3. /\ linear \in Int
      /\ Abs(linear) <= Abs(vel.linear) + limits.max_linear_acc * dt
      /\ Abs(linear) >= Abs(vel.linear) - limits.max_linear_decel * dt
      /\ ~(vel.linear > 0 /\ linear < 0) /\ ~(vel.linear < 0 /\ linear > 0)
      /\ linear <= Greatest(limits.max_linear_vel, vel.linear - limits.max_linear_decel * dt)
      /\ linear >= Least(limits.min_linear_vel, vel.linear + limits.max_linear_decel * dt)
  <2>1. 0 <= limits.max_linear_vel /\ limits.max_linear_vel \in Int
    BY LimitTypes
  <2> QED BY <1>2, <2>1, StepAxis, LimitTypes
<1>4. angular \in Int
  BY <1>2, StepAxis, LimitTypes
<1> HIDE DEF linear, angular
<1>5. turn \in Int /\ (limits.curvature # 0 => Abs(turn) <= Abs(linear) * limits.curvature)
  BY <1>3, <1>4, WithinRadius, LimitTypes
<1> HIDE DEF turn
<1> QED BY <1>1, <1>3, <1>5, TwistType

\* On the way to a stop it brakes as hard as it may, and no further than to a stop.
LEMMA StepBrakes ==
  ASSUME NEW vel \in Twist, NEW dt \in Nat, NEW limits \in RobotLimits
  PROVE  Abs(step(vel, Zero, dt, limits).linear)
           <= Greatest(0, Abs(vel.linear) - limits.max_linear_decel * dt)
<1>1. step(vel, Zero, dt, limits).linear
        = step_axis(vel.linear, 0, limits.max_linear_acc, limits.max_linear_decel, dt)
  BY ClampType, TwistType DEF step
<1>2. ASSUME NEW v \in Int, NEW acc \in Nat, NEW decel \in Nat
      PROVE  Abs(step_axis(v, 0, acc, decel, dt)) <= Greatest(0, Abs(v) - decel * dt)
  <2> DEFINE up == acc * dt
             down == decel * dt
  <2>1. up \in Nat /\ down \in Nat
    BY ProductType
  <2>2. step_axis(v, 0, acc, decel, dt) =
          LET slowing == (v > 0 /\ 0 < v) \/ (v < 0 /\ 0 > v)
              max_delta == IF slowing THEN down ELSE up
              next == v + Clamped(0 - v, -max_delta, max_delta)
          IN IF (v > 0 /\ next < 0) \/ (v < 0 /\ next > 0) THEN 0 ELSE next
    BY DEF step_axis
  <2> HIDE DEF up, down
  <2>3. Abs(step_axis(v, 0, acc, decel, dt)) <= Greatest(0, Abs(v) - down)
    BY <2>1, <2>2 DEF Clamped, Abs, Greatest
  <2> QED BY <2>3 DEF down
<1> QED BY <1>1, <1>2, LimitTypes, TwistType

\* A stopped robot that has to stop stays stopped.
LEMMA StepAtRest ==
  ASSUME NEW dt \in Nat, NEW limits \in RobotLimits
  PROVE  step(Zero, Zero, dt, limits) = Zero
<1>1. ASSUME NEW acc \in Nat, NEW decel \in Nat
      PROVE  step_axis(0, 0, acc, decel, dt) = 0
  <2>1. acc * dt \in Nat
    BY ProductType
  <2> DEFINE up == acc * dt
  <2>2. step_axis(0, 0, acc, decel, dt) =
          LET next == 0 + Clamped(0 - 0, -up, up)
          IN IF (0 > 0 /\ next < 0) \/ (0 < 0 /\ next > 0) THEN 0 ELSE next
    BY DEF step_axis
  <2> HIDE DEF up
  <2> QED BY <2>1, <2>2 DEF Clamped, up
<1>2. within_radius(0, 0, limits.curvature) = 0
  BY WithinRadius, LimitTypes
<1>3. clamp(Zero, limits) = Zero
  BY ClampType, TwistType
<1> QED BY <1>1, <1>2, <1>3, LimitTypes, TwistType DEF step, Zero

-----------------------------------------------------------------------------
(* What the mux selects and what the guard makes of it.                    *)

Selection == [cmd : Twist, choice : Choices, fresh : BOOLEAN, smooth : BOOLEAN]

LEMMA ChannelType ==
  ASSUME TypeOK
  PROVE  /\ safety_status \in SafetyChannelState /\ safety_channel \in SafetyChannelState
         /\ limited_by(Limits, safety_status) \in RobotLimits
         /\ limited_by(Limits, safety_channel) \in RobotLimits
<1>1. safety_status \in SafetyChannelState /\ safety_channel \in SafetyChannelState
      /\ Limits \in RobotLimits
  BY OutputAssumption DEF TypeOK
<1> QED BY <1>1, LimitedBy

LEMMA WrittenType ==
  ASSUME NEW cmd \in Written, cmd # NonFinite, cmd # NoCmd
  PROVE  cmd \in Twist
<1>1. \A s \in Sources : Commands[s] \subseteq Twist
  BY OutputAssumption DEF Sources
<1> QED BY <1>1, TwistType DEF Written

LEMMA TakenType ==
  ASSUME TypeOK, NEW s \in Sources
  PROVE  Taken(s) # NoCmd => Taken(s) \in Twist /\ Taken(s) = proposal[s]
<1>1. proposal[s] \in Written
  BY DEF TypeOK
<1> QED BY <1>1, WrittenType DEF Taken

LEMMA Selected ==
  ASSUME TypeOK
  PROVE  /\ select \in Selection
         /\ select.smooth <=> select.choice # "OVERRIDE"
         /\ select.choice = "SAFETY_STOP" <=> safety_status.protective_stop
         /\ select.choice = "SAFETY_STOP"
              => select.cmd = Zero /\ (select.fresh \/ last_choice = "SAFETY_STOP")
         /\ \/ select.cmd \in {Zero, last_target}
            \/ \E s \in Sources : Taken(s) # NoCmd /\ select.cmd = proposal[s]
<1>1. \A s \in Sources : Taken(s) # NoCmd => Taken(s) \in Twist /\ Taken(s) = proposal[s]
  BY TakenType
<1>2. "OVERRIDE" \in Sources /\ "TAKEOVER" \in Sources /\ "CONTROLLER" \in Sources
  BY DEF Sources
<1>3. \A choice : Fresh(choice) \in BOOLEAN
  BY DEF Fresh
<1>4. last_target \in Twist /\ Zero \in Twist /\ safety_status.protective_stop \in BOOLEAN
  BY TwistType, ChannelType DEF TypeOK, SafetyChannelState
<1>5. Choices = {"OVERRIDE", "TAKEOVER", "CONTROLLER", "SAFETY_STOP", "INHIBITED", "PAUSED",
                 "NONE"}
  BY DEF Choices, Sources
<1>6. Fresh("SAFETY_STOP") \/ last_choice = "SAFETY_STOP"
  BY DEF Fresh
<1> QED BY <1>1, <1>2, <1>3, <1>4, <1>5, <1>6 DEF select, Selection

LEMMA Supervised ==
  ASSUME NEW selection \in Selection, NEW d
  PROVE  LET supervised == supervise(selection, d) IN
         /\ supervised \in Selection
         /\ supervised.choice = selection.choice
         /\ supervised.smooth = selection.smooth
         /\ supervised.cmd \in {selection.cmd, Zero}
         /\ selection.fresh => supervised.fresh
BY TwistType DEF supervise, Selection

LEMMA AgedType ==
  ASSUME NEW age \in Age, NEW d \in Int, NEW longest \in Nat
  PROVE  Aged(age, d, longest) \in Age
BY DEF Age, Aged, Least

\* An output in a few words.
LEMMA OutputStep ==
  ASSUME TypeOK, NEW d \in ClockSteps, publish_cmd_vel_rt(d)
  PROVE  \E s \in Selection, dt \in 0 .. MaxSmootherStep :
           LET from == RampStart(last_choice')
               limits == limited_by(Limits, safety_status)
           IN
           /\ elapsed' = dt
           /\ last_choice' = s.choice /\ last_target' = select.cmd
           /\ s.smooth <=> last_choice' # "OVERRIDE"
           /\ last_choice' = "SAFETY_STOP" <=> safety_status.protective_stop
           /\ last_choice' = "SAFETY_STOP"
                => s.cmd = Zero /\ (s.fresh \/ last_choice = "SAFETY_STOP")
           /\ s.cmd \in {select.cmd, Zero} /\ s = supervise(select, d)
           /\ from \in {current, Zero}
           /\ \/ /\ s.smooth /\ (s.fresh => last_published_zero /\ s.cmd = Zero)
                 /\ reached(from, s.cmd, limits)
                 /\ ~keepalive_due(d)
                 /\ since_publish' = Aged(since_publish, d, keepalive_period)
                 /\ current' = from /\ UNCHANGED <<published, last_published_zero>>
              \/ /\ s.smooth
                 /\ current' = step(from, s.cmd, dt, limits)
                 /\ publish(step(from, s.cmd, dt, limits))
              \/ ~s.smooth /\ current' = s.cmd /\ publish(s.cmd)
<1> DEFINE s == supervise(select, d)
           dt == IF stepped THEN Clamped(d, 0, MaxSmootherStep) ELSE 0
<1>1. dt \in 0 .. MaxSmootherStep
  <2>1. d \in Int /\ MaxSmootherStep \in Nat
    BY OutputAssumption
  <2> QED BY <2>1, ClampedType
<1>2. /\ s \in Selection /\ s.choice = select.choice /\ s.smooth = select.smooth
      /\ s.cmd \in {select.cmd, Zero} /\ (select.fresh => s.fresh)
  BY Selected, Supervised
<1>3. last_choice' = select.choice /\ last_target' = select.cmd /\ elapsed' = dt
  BY DEF publish_cmd_vel_rt
<1>4. RampStart(last_choice') \in {current, Zero}
  BY DEF RampStart
<1>5. LET from == RampStart(last_choice')
          limits == limited_by(Limits, safety_status)
      IN   \/ /\ s.smooth /\ (s.fresh => last_published_zero /\ s.cmd = Zero)
              /\ reached(from, s.cmd, limits)
              /\ ~keepalive_due(d)
              /\ since_publish' = Aged(since_publish, d, keepalive_period)
              /\ current' = from /\ UNCHANGED <<published, last_published_zero>>
           \/ /\ s.smooth
              /\ current' = step(from, s.cmd, dt, limits)
              /\ publish(step(from, s.cmd, dt, limits))
           \/ ~s.smooth /\ current' = s.cmd /\ publish(s.cmd)
  BY <1>2, <1>3 DEF publish_cmd_vel_rt
<1>6. s = supervise(select, d)
  OBVIOUS
<1> HIDE DEF s, dt
<1> USE <1>1, <1>2
<1> WITNESS s \in Selection, dt \in 0 .. MaxSmootherStep
<1> QED BY <1>2, <1>3, <1>4, <1>5, <1>6, Selected

-----------------------------------------------------------------------------
(* Types.                                                                  *)

LEMMA CommandTypes ==
  /\ Commands["CONTROLLER"] \cup {Zero, NonFinite, NoCmd} \subseteq Written
  /\ Commands["TAKEOVER"] \cup {Zero, NonFinite, NoCmd} \subseteq Written
  /\ Commands["OVERRIDE"] \cup {Zero, NonFinite, NoCmd} \subseteq Written
BY DEF Written, Sources

LEMMA InitTypes == Init => TypeOK
<1> SUFFICES ASSUME Init PROVE TypeOK
  OBVIOUS
<1>1. [s \in Sources |-> NoCmd] \in [Sources -> Written] /\ NoCmd \in Written
  BY CommandTypes
<1>2. 0 \in 0 .. MaxSmootherStep /\ NoChannel \in Channels
  BY OutputAssumption
<1> QED BY <1>1, <1>2, TwistType DEF Init, TypeOK, Age, Choices

LEMMA OutputTypes ==
  ASSUME TypeOK, NEW d \in ClockSteps, publish_cmd_vel_rt(d)
  PROVE  TypeOK'
<1>1. PICK s \in Selection, dt \in 0 .. MaxSmootherStep :
         LET from == RampStart(last_choice')
             limits == limited_by(Limits, safety_status)
         IN
         /\ elapsed' = dt
         /\ last_choice' = s.choice /\ last_target' = select.cmd
         /\ from \in {current, Zero}
         /\ \/ /\ current' = from /\ UNCHANGED <<published, last_published_zero>>
            \/ /\ current' = step(from, s.cmd, dt, limits)
               /\ publish(step(from, s.cmd, dt, limits))
            \/ current' = s.cmd /\ publish(s.cmd)
  BY OutputStep
<1>2. d \in Int /\ cmd_timeout \in Nat /\ keepalive_period \in Nat /\ dt \in Nat
  BY OutputAssumption
<1>3. s.cmd \in Twist /\ s.choice \in Choices /\ select.cmd \in Twist /\ Zero \in Twist
  BY Selected, TwistType DEF Selection
<1> DEFINE next == step(RampStart(last_choice'), s.cmd, dt, limited_by(Limits, safety_status))
<1>4. next \in Twist
  <2>1. RampStart(last_choice') \in Twist
    BY <1>1, <1>3 DEF TypeOK
  <2> QED BY <2>1, <1>2, <1>3, ChannelType, Step
<1>5. current' \in Twist /\ published' \in Twist /\ last_published_zero' \in BOOLEAN
  <2> HIDE DEF next
  <2>1. \/ current' \in {current, Zero} /\ UNCHANGED <<published, last_published_zero>>
        \/ current' = next /\ publish(next)
        \/ current' = s.cmd /\ publish(s.cmd)
    BY <1>1 DEF next
  <2> QED BY <1>3, <1>4, <2>1 DEF publish, TypeOK
<1>6. since_proposal' \in Age /\ timed_out' \in BOOLEAN
  <2>1. ProposalAge(d) \in Age
    <3>1. Aged(since_proposal, d, cmd_timeout) \in Age
      BY <1>2, AgedType DEF TypeOK
    <3> QED BY <3>1 DEF ProposalAge, Age
  <2>2. since_proposal' \in {0, ProposalAge(d)}
    BY DEF publish_cmd_vel_rt
  <2>3. timed_out' \in BOOLEAN
    BY DEF publish_cmd_vel_rt
  <2> QED BY <2>1, <2>2, <2>3 DEF Age
<1>7. since_publish' \in Age
  <2>1. Aged(since_publish, d, keepalive_period) \in Age
    BY <1>2, AgedType DEF TypeOK
  <2>2. since_publish' \in {0, Aged(since_publish, d, keepalive_period)}
    BY DEF publish_cmd_vel_rt, publish
  <2> QED BY <2>1, <2>2 DEF Age
<1>8. silence' \in Nat
  BY <1>2 DEF publish_cmd_vel_rt, TypeOK, Least
<1>9. proposal' \in [Sources -> Written]
  BY CommandTypes DEF publish_cmd_vel_rt
<1>10. /\ safety_channel' \in Channels /\ stepped' \in BOOLEAN /\ rt' = "idle"
       /\ UNCHANGED <<cmd_vel, navigation_paused, safety_status, inhibit_motion, known,
                      publisher, node, active, loop, asked>>
  BY DEF publish_cmd_vel_rt, TypeOK
<1> QED BY <1>1, <1>3, <1>5, <1>6, <1>7, <1>8, <1>9, <1>10 DEF TypeOK

LEMMA StopTypes ==
  ASSUME TypeOK, stop_step \/ stop_end
  PROVE  TypeOK'
<1>1. CASE stop_step
  <2> DEFINE next == step(current, Zero, StopPeriod, limited_by(Limits, safety_channel))
  <2>1. next \in Twist
    BY Step, ChannelType, TwistType, OutputAssumption DEF TypeOK
  <2>2. current' = next /\ publish(next)
    BY <1>1 DEF stop_step
  <2> HIDE DEF next
  <2>3. UNCHANGED <<navVars, muxVars, known, since_proposal, timed_out, safety_channel,
                    stepped, publisher, node, systemVars, silence, asked, elapsed>>
    BY <1>1 DEF stop_step
  <2> QED BY <2>1, <2>2, <2>3 DEF publish, TypeOK, Age, navVars, muxVars, systemVars
<1>2. CASE stop_end
  BY <1>2, TwistType
  DEF stop_end, mux_reset, guard_reset, TypeOK, Age, Choices, navVars, systemVars
<1> QED BY <1>1, <1>2

LEMMA NextTypes == TypeOK /\ [Next]_vars => TypeOK'
<1> SUFFICES ASSUME TypeOK, [Next]_vars PROVE TypeOK'
  OBVIOUS
<1> USE DEF TypeOK
<1>1. CASE controller_cycle_rt
  <2>1. PICK cmd \in Commands["CONTROLLER"] \cup {Zero, NonFinite, cmd_vel},
             written, ran \in BOOLEAN :
          /\ cmd_vel' = cmd
          /\ \/ /\ proposal' = [proposal EXCEPT !["CONTROLLER"] = cmd]
                /\ known' = TRUE
                /\ asked' = (asked \/ (written /\ cmd \notin {Zero, NonFinite}))
             \/ UNCHANGED <<proposal, known, asked>>
    BY <1>1 DEF controller_cycle_rt
  <2>2. cmd \in Written
    BY CommandTypes
  <2>3. proposal' \in [Sources -> Written] /\ known' \in BOOLEAN /\ asked' \in BOOLEAN
    BY <2>1, <2>2
  <2>4. 0 \in 0 .. MaxSmootherStep
    BY OutputAssumption
  <2> QED BY <1>1, <2>1, <2>2, <2>3, <2>4
          DEF controller_cycle_rt, SafetyReports, muxVars, nodeVars
<1>2. CASE recovery_cycle_rt
  <2>1. PICK takeover \in Commands["TAKEOVER"] \cup {NonFinite, NoCmd},
             override \in Commands["OVERRIDE"] \cup {Zero, NonFinite, NoCmd} :
          /\ proposal' = [s \in Sources |->
               IF s = "TAKEOVER" /\ takeover # NoCmd THEN takeover
               ELSE IF s = "OVERRIDE" /\ override # NoCmd THEN override
               ELSE proposal[s]]
          /\ asked' = (asked \/ {takeover, override} \ {Zero, NonFinite, NoCmd} # {})
    BY <1>2 DEF recovery_cycle_rt
  <2>2. takeover \in Written /\ override \in Written
    BY CommandTypes
  <2>3. proposal' \in [Sources -> Written] /\ asked' \in BOOLEAN
    BY <2>1, <2>2
  <2> QED BY <1>2, <2>3 DEF recovery_cycle_rt, muxVars, guardVars, nodeVars
<1>3. CASE \E d \in ClockSteps : publish_cmd_vel_rt(d)
  BY <1>3, OutputTypes
<1>4. CASE \E value \in BOOLEAN : pause_navigation(value)
  BY <1>4 DEF pause_navigation, muxVars, guardVars, nodeVars, systemVars, outVars
<1>5. CASE on_configure
  <2>1. NoChannel \in Channels
    BY OutputAssumption
  <2> QED BY <1>5, <2>1, TwistType DEF on_configure, guard_reset, mux_reset, muxVars, navVars, systemVars,
       outVars, Age, Choices
<1>6. CASE on_activate
  BY <1>6 DEF on_activate, navVars, muxVars, guardVars, systemVars
<1>7. CASE activate_system
  BY <1>7 DEF activate_system, navVars, muxVars, guardVars, nodeVars, outVars
<1>8. CASE deactivate_system
  BY <1>8, CommandTypes DEF deactivate_system, muxVars, nodeVars, outVars
<1>9. CASE on_deactivate
  BY <1>9 DEF on_deactivate, navVars, muxVars, guardVars, systemVars, outVars
<1>10. CASE on_shutdown
  BY <1>10 DEF on_shutdown, navVars, muxVars, guardVars, systemVars, outVars
<1>11. CASE stop_step \/ stop_end
  BY <1>11, StopTypes
<1>12. CASE on_cleanup
  BY <1>12 DEF on_cleanup, navVars, muxVars, guardVars, systemVars, outVars
<1>13. CASE end_loops
  <2>1. loop' \in BOOLEAN /\ UNCHANGED <<navVars, muxVars, guardVars, nodeVars, active, rt, outVars>>
    BY <1>13 DEF end_loops
  <2> QED BY <2>1 DEF navVars, muxVars, guardVars, nodeVars, outVars
<1>14. CASE UNCHANGED vars
  BY <1>14 DEF vars, navVars, muxVars, guardVars, nodeVars, systemVars, outVars
<1> QED BY <1>1, <1>2, <1>3, <1>4, <1>5, <1>6, <1>7, <1>8, <1>9, <1>10, <1>11, <1>12,
          <1>13, <1>14 DEF Next

-----------------------------------------------------------------------------
(* The invariant.                                                          *)

\* RT cycles run, and the controller has its publisher, in these states only.
Running ==
  /\ active /\ loop => node = "active"
  /\ rt # "idle" => active /\ loop
  /\ node \in {"inactive", "active", "deactivating", "shutting_down"} => publisher

\* What the node remembers of the robot is what the driver executes.
Tracking ==
  /\ node = "inactive" => current = Zero
  /\ node = "active" /\ last_published_zero => published = Zero
  /\ node = "active" /\ last_choice = "SAFETY_STOP" => published = Zero

\* Nothing is left anywhere that would move a robot that nobody asked to move.
NoMotion == {Zero, NonFinite, NoCmd}
Quiet ==
  /\ node = "active" /\ ~asked
       => last_target = Zero /\ \A s \in Sources : proposal[s] \in NoMotion
  /\ node \in {"unconfigured", "inactive", "deactivating"} \/ (node = "active" /\ ~(active /\ asked))
       => cmd_vel \in NoMotion
  /\ node \in {"unconfigured", "inactive"} => last_target = Zero
  /\ rt = "idle" => \A s \in Sources : proposal[s] = NoCmd

OutputInv ==
  TypeOK /\ Running /\ StoppedOutside /\ SmootherTracks /\ Tracking /\ Quiet /\ NothingStale

LEMMA InitOutput == Init => OutputInv
<1> SUFFICES ASSUME Init PROVE OutputInv
  OBVIOUS
<1> QED BY InitTypes DEF Init, OutputInv, Running, StoppedOutside, SmootherTracks, Tracking,
     Quiet, NothingStale, NoMotion

\* Where the command of the smoother is, an output goes on from what the driver
\* executes; a protective stop is a stop.
LEMMA OutputTracks ==
  ASSUME OutputInv, NEW d \in ClockSteps, publish_cmd_vel_rt(d)
  PROVE  /\ current' = published'
         /\ last_published_zero' => published' = Zero
         /\ last_choice' = "SAFETY_STOP" => published' = Zero
         /\ ~asked => published' = Zero /\ last_target' = Zero
<1>0. node = "active" /\ current = published
  BY DEF OutputInv, Running, SmootherTracks, publish_cmd_vel_rt
<1>1. PICK s \in Selection, dt \in 0 .. MaxSmootherStep :
         LET from == RampStart(last_choice')
             limits == limited_by(Limits, safety_status)
         IN
         /\ last_choice' = s.choice /\ last_target' = select.cmd
         /\ s.smooth <=> last_choice' # "OVERRIDE"
         /\ last_choice' = "SAFETY_STOP"
              => s.cmd = Zero /\ (s.fresh \/ last_choice = "SAFETY_STOP")
         /\ s.cmd \in {select.cmd, Zero}
         /\ from \in {current, Zero}
         /\ \/ /\ s.smooth /\ (s.fresh => last_published_zero /\ s.cmd = Zero)
               /\ current' = from /\ UNCHANGED <<published, last_published_zero>>
            \/ /\ s.smooth
               /\ current' = step(from, s.cmd, dt, limits)
               /\ publish(step(from, s.cmd, dt, limits))
            \/ ~s.smooth /\ current' = s.cmd /\ publish(s.cmd)
  BY OutputStep DEF OutputInv
<1>2. step(Zero, Zero, dt, limited_by(Limits, safety_status)) = Zero
  BY StepAtRest, ChannelType, OutputAssumption DEF OutputInv
<1>3. last_choice' # "SAFETY_STOP" => RampStart(last_choice') = current
  BY DEF RampStart
<1>4. last_choice' = "SAFETY_STOP" => RampStart(last_choice') = Zero
  BY DEF RampStart
<1>5. current' = published' /\ (last_choice' = "SAFETY_STOP" => published' = Zero)
  BY <1>0, <1>1, <1>2, <1>3, <1>4 DEF publish, OutputInv, Tracking
<1>6. last_published_zero' => published' = Zero
  BY <1>0, <1>1 DEF publish, OutputInv, Tracking
<1>7. ASSUME ~asked PROVE published' = Zero /\ last_target' = Zero
  <2>1. published = Zero /\ current = Zero /\ last_target = Zero
        /\ \A src \in Sources : proposal[src] \in NoMotion
    BY <1>0, <1>7 DEF OutputInv, Quiet, NothingStale
  <2>2. \A src \in Sources : Taken(src) # NoCmd => proposal[src] = Zero
    BY <2>1 DEF Taken, NoMotion
  <2>3. select.cmd = Zero
    BY <2>1, <2>2, Selected DEF OutputInv
  <2> QED BY <1>1, <1>2, <2>1, <2>3 DEF publish
<1> QED BY <1>5, <1>6, <1>7

LEMMA ControllerQuiet ==
  ASSUME OutputInv, controller_cycle_rt
  PROVE  (Quiet /\ NothingStale)'
<1>1. PICK cmd \in Commands["CONTROLLER"] \cup {Zero, NonFinite, cmd_vel},
           written, ran \in BOOLEAN :
        /\ ran \/ ~written
        /\ written => cmd # NoCmd
        /\ ~written => cmd = cmd_vel
        /\ cmd_vel' = cmd
        /\ IF ran /\ (written \/ ~known) /\ cmd # NoCmd
           THEN /\ proposal' = [proposal EXCEPT !["CONTROLLER"] = cmd]
                /\ asked' = (asked \/ (written /\ cmd \notin {Zero, NonFinite}))
           ELSE UNCHANGED <<proposal, known, asked>>
  BY DEF controller_cycle_rt
<1>2. rt' = "recovery" /\ UNCHANGED <<last_target, node, active, published>>
      /\ node = "active" /\ active
  BY DEF controller_cycle_rt, muxVars, nodeVars, OutputInv, Running
<1>3. asked => asked'
  BY <1>1
<1>4. ASSUME ~asked'
      PROVE  cmd_vel' \in NoMotion /\ \A s \in Sources : proposal'[s] \in NoMotion
  <2>1. ~asked /\ cmd_vel \in NoMotion /\ \A s \in Sources : proposal[s] \in NoMotion
    BY <1>2, <1>3, <1>4 DEF OutputInv, Quiet
  <2>2. cmd \in NoMotion
    BY <1>1, <1>4, <2>1 DEF NoMotion
  <2>3. proposal' = proposal \/ proposal' = [proposal EXCEPT !["CONTROLLER"] = cmd]
    BY <1>1
  <2> QED BY <1>1, <2>1, <2>2, <2>3 DEF OutputInv, TypeOK
<1>5. asked' \in BOOLEAN
  BY NextTypes DEF OutputInv, Next, TypeOK
<1> QED BY <1>2, <1>3, <1>4, <1>5 DEF OutputInv, Quiet, NothingStale

LEMMA RecoveryQuiet ==
  ASSUME OutputInv, recovery_cycle_rt
  PROVE  (Quiet /\ NothingStale)'
<1>1. PICK takeover \in Commands["TAKEOVER"] \cup {NonFinite, NoCmd},
           override \in Commands["OVERRIDE"] \cup {Zero, NonFinite, NoCmd} :
        /\ proposal' = [s \in Sources |->
             IF s = "TAKEOVER" /\ takeover # NoCmd THEN takeover
             ELSE IF s = "OVERRIDE" /\ override # NoCmd THEN override
             ELSE proposal[s]]
        /\ asked' = (asked \/ {takeover, override} \ {Zero, NonFinite, NoCmd} # {})
  BY DEF recovery_cycle_rt
<1>2. rt' = "publish" /\ UNCHANGED <<cmd_vel, last_target, node, active, published>>
      /\ node = "active" /\ active
  BY DEF recovery_cycle_rt, muxVars, nodeVars, OutputInv, Running
<1>3. asked => asked'
  BY <1>1
<1>4. ASSUME ~asked'
      PROVE  \A s \in Sources : proposal'[s] \in NoMotion
  <2>1. ~asked /\ \A s \in Sources : proposal[s] \in NoMotion
    BY <1>2, <1>3, <1>4 DEF OutputInv, Quiet
  <2>2. takeover \in NoMotion /\ override \in NoMotion
    BY <1>1, <1>4, <2>1 DEF NoMotion
  <2> QED BY <1>1, <2>1, <2>2
<1> QED BY <1>2, <1>3, <1>4 DEF OutputInv, Quiet, NothingStale

LEMMA NextOutput == OutputInv /\ [Next]_vars => OutputInv'
<1> SUFFICES ASSUME OutputInv, [Next]_vars PROVE OutputInv'
  OBVIOUS
<1>1. TypeOK'
  BY NextTypes DEF OutputInv
<1>2. SUFFICES (Running /\ StoppedOutside /\ SmootherTracks /\ Tracking /\ Quiet /\ NothingStale)'
  BY <1>1 DEF OutputInv
<1> USE DEF OutputInv, Running, StoppedOutside, SmootherTracks, Tracking
<1>3. CASE controller_cycle_rt
  BY <1>3, ControllerQuiet DEF controller_cycle_rt, muxVars, nodeVars
<1>4. CASE recovery_cycle_rt
  BY <1>4, RecoveryQuiet DEF recovery_cycle_rt, muxVars, nodeVars
<1>5. CASE \E d \in ClockSteps : publish_cmd_vel_rt(d)
  <2>1. PICK d \in ClockSteps : publish_cmd_vel_rt(d)
    BY <1>5
  <2>2. /\ current' = published'
        /\ last_published_zero' => published' = Zero
        /\ last_choice' = "SAFETY_STOP" => published' = Zero
        /\ ~asked => published' = Zero /\ last_target' = Zero
    BY <2>1, OutputTracks
  <2>3. /\ rt' = "idle" /\ proposal' = [s \in Sources |-> NoCmd]
        /\ UNCHANGED <<cmd_vel, publisher, node, active, loop, asked>>
        /\ rt = "publish"
    BY <2>1 DEF publish_cmd_vel_rt
  <2> QED BY <2>2, <2>3 DEF Quiet, NothingStale, NoMotion
<1> USE DEF Quiet, NothingStale, NoMotion, navVars, muxVars, guardVars, nodeVars, systemVars, outVars
<1>6. CASE \E value \in BOOLEAN : pause_navigation(value)
  BY <1>6 DEF pause_navigation
<1>7. CASE on_configure
  BY <1>7 DEF on_configure, mux_reset
<1>8. CASE on_activate
  BY <1>8 DEF on_activate
<1>9. CASE activate_system
  BY <1>9 DEF activate_system
<1>10. CASE deactivate_system
  BY <1>10 DEF deactivate_system
<1>11. CASE on_deactivate
  BY <1>11 DEF on_deactivate
<1>12. CASE on_shutdown
  BY <1>12 DEF on_shutdown
<1>13. CASE stop_step
  BY <1>13 DEF stop_step
<1>14. CASE stop_end
  BY <1>14 DEF stop_end, mux_reset
<1>15. CASE on_cleanup
  BY <1>15 DEF on_cleanup
<1>16. CASE end_loops
  BY <1>16 DEF end_loops
<1>17. CASE UNCHANGED vars
  BY <1>17 DEF vars
<1> QED BY <1>3, <1>4, <1>5, <1>6, <1>7, <1>8, <1>9, <1>10, <1>11, <1>12, <1>13, <1>14,
          <1>15, <1>16, <1>17 DEF Next

LEMMA OutputInvariant == Spec => []OutputInv
BY InitOutput, NextOutput, PTL DEF Spec

\* A robot whose controller is not active was sent a stop last; the smoother never
\* loses track of the robot; and nothing of before a deactivation moves it again: for
\* any limits, commands, clocks and interleaving of the two threads.
THEOREM OutputSafe == Spec => [](TypeOK /\ StoppedOutside /\ SmootherTracks /\ NothingStale)
<1>1. OutputInv => TypeOK /\ StoppedOutside /\ SmootherTracks /\ NothingStale
  BY DEF OutputInv
<1> QED BY <1>1, OutputInvariant, PTL

\* The types of the output path, for any limits, commands and clocks.
THEOREM VelocityTypes == Spec => []TypeOK
BY OutputSafe, PTL

\* The smoother starts from what the robot was sent last (VelocitySmoother's
\* current_), whoever wrote it.
THEOREM SmootherKeepsTrack == Spec => []SmootherTracks
BY OutputSafe, PTL

\* Nothing of before a deactivation moves the robot after it.
THEOREM NothingStaleMoves == Spec => []NothingStale
BY OutputSafe, PTL

-----------------------------------------------------------------------------
(* What an output may never do.                                            *)

LEMMA OutputIsPublish ==
  ASSUME TypeOK, [Next]_vars, Output
  PROVE  \E d \in ClockSteps : publish_cmd_vel_rt(d)
BY DEF Output, Next, vars, systemVars, controller_cycle_rt, recovery_cycle_rt,
   pause_navigation, on_configure, on_activate, activate_system, deactivate_system,
   on_deactivate, on_shutdown, stop_step, stop_end, on_cleanup, end_loops

\* The command of an output that is neither an override nor a protective stop: the last
\* one, if it is where it has to be, or the smoother's next one.
LEMMA SmoothOutput ==
  ASSUME OutputInv, NEW d \in ClockSteps, publish_cmd_vel_rt(d),
         last_choice' \notin {"OVERRIDE", "SAFETY_STOP"}
  PROVE  LET limits == limited_by(Limits, safety_status) IN
         /\ elapsed' \in Nat
         /\ \E target \in Twist :
              \/ published' = published /\ published = clamp(target, limits)
              \/ published' = step(published, target, elapsed', limits)
<1> DEFINE limits == limited_by(Limits, safety_status)
<1>1. current = published
  BY DEF OutputInv, Running, SmootherTracks, publish_cmd_vel_rt
<1>2. RampStart(last_choice') = published
  BY <1>1 DEF RampStart
<1>3. PICK s \in Selection, dt \in 0 .. MaxSmootherStep :
         /\ elapsed' = dt
         /\ s.smooth <=> last_choice' # "OVERRIDE"
         /\ \/ /\ s.smooth
               /\ reached(RampStart(last_choice'), s.cmd, limits)
               /\ UNCHANGED <<published, last_published_zero>>
            \/ /\ s.smooth
               /\ publish(step(RampStart(last_choice'), s.cmd, dt, limits))
            \/ ~s.smooth /\ current' = s.cmd /\ publish(s.cmd)
  BY OutputStep DEF OutputInv
<1>4. s.cmd \in Twist /\ dt \in Nat
  BY OutputAssumption DEF Selection
<1> HIDE DEF limits
<1>5. \/ published' = published /\ published = clamp(s.cmd, limits)
      \/ published' = step(published, s.cmd, elapsed', limits)
  BY <1>2, <1>3 DEF reached, publish
<1> QED BY <1>3, <1>4, <1>5 DEF limits

LEMMA BoundsOfChannel ==
  ASSUME TypeOK
  PROVE  LET limits == limited_by(Limits, safety_status) IN
         /\ limits \in RobotLimits
         /\ limits.max_linear_vel = Least(Limits.max_linear_vel, safety_status.max_linear_vel)
         /\ limits.min_linear_vel
              = Greatest(Limits.min_linear_vel, -safety_status.max_linear_vel)
         /\ limits.max_linear_acc = Limits.max_linear_acc /\ Limits.max_linear_acc \in Nat
         /\ limits.max_linear_decel = Limits.max_linear_decel /\ Limits.max_linear_decel \in Nat
         /\ limits.curvature = Limits.curvature /\ Limits.curvature \in Nat
<1>1. Limits \in RobotLimits /\ safety_status \in SafetyChannelState
  BY OutputAssumption, ChannelType
<1> QED BY <1>1, LimitedBy, LimitTypes

\* Whatever else is proposed, an output under a protective stop is a stop.
THEOREM StopsProtected == Spec => ProtectiveStop
<1>1. OutputInv /\ [Next]_vars
        => [Output /\ safety_status.protective_stop => published' = Zero]_vars
  <2> SUFFICES ASSUME OutputInv, [Next]_vars, Output, safety_status.protective_stop
               PROVE  published' = Zero
    OBVIOUS
  <2>1. PICK d \in ClockSteps : publish_cmd_vel_rt(d)
    BY OutputIsPublish DEF OutputInv
  <2>2. last_choice' = "SAFETY_STOP"
    BY <2>1, OutputStep DEF OutputInv
  <2> QED BY <2>1, <2>2, OutputTracks
<1> QED BY <1>1, OutputInvariant, PTL DEF Spec, ProtectiveStop

\* The robot speeds up, slows down and turns back within its accelerations, for any
\* of its limits and any sequence of commands and hand-overs.
THEOREM MovesSmoothly == Spec => SmoothMotion
<1> DEFINE A == Output /\ last_choice' \notin {"OVERRIDE", "SAFETY_STOP"} =>
                  LET v == published.linear
                      w == published'.linear
                  IN
                  /\ Abs(w) <= Abs(v) + Limits.max_linear_acc * elapsed'
                  /\ Abs(w) >= Abs(v) - Limits.max_linear_decel * elapsed'
                  /\ ~(v > 0 /\ w < 0) /\ ~(v < 0 /\ w > 0)
<1>1. OutputInv /\ [Next]_vars => A
  <2> SUFFICES ASSUME OutputInv, [Next]_vars,
                      Output, last_choice' \notin {"OVERRIDE", "SAFETY_STOP"}
               PROVE  A
    OBVIOUS
  <2> DEFINE limits == limited_by(Limits, safety_status)
  <2>1. PICK d \in ClockSteps : publish_cmd_vel_rt(d)
    BY OutputIsPublish DEF OutputInv
  <2>2. /\ elapsed' \in Nat
        /\ \E target \in Twist : \/ published' = published
                                 \/ published' = step(published, target, elapsed', limits)
    BY <2>1, SmoothOutput
  <2>3. PICK target \in Twist : \/ published' = published
                                \/ published' = step(published, target, elapsed', limits)
    BY <2>2
  <2>4. /\ limits \in RobotLimits
        /\ limits.max_linear_acc = Limits.max_linear_acc /\ Limits.max_linear_acc \in Nat
        /\ limits.max_linear_decel = Limits.max_linear_decel /\ Limits.max_linear_decel \in Nat
    BY BoundsOfChannel DEF OutputInv
  <2>5. published \in Twist /\ published.linear \in Int
    BY TwistType DEF OutputInv, TypeOK
  <2> HIDE DEF limits
  <2>6. CASE published' = published
    <3>1. Limits.max_linear_acc * elapsed' \in Nat /\ Limits.max_linear_decel * elapsed' \in Nat
      BY <2>2, <2>4, ProductType
    <3> QED BY <2>5, <2>6, <3>1, AbsType
  <2>7. CASE published' = step(published, target, elapsed', limits)
    BY <2>2, <2>4, <2>5, <2>7, Step
  <2> QED BY <2>3, <2>6, <2>7
<1>2. OutputInv /\ [Next]_vars => [A]_vars
  BY <1>1
<1> QED BY <1>2, OutputInvariant, PTL DEF Spec, SmoothMotion

\* Nothing leaves the smoother beyond the limits of the moment unless it brakes, nor
\* turns more tightly than the robot can: for any limits and any channel.
THEOREM StaysWithinLimits == Spec => WithinLimits
<1> DEFINE A == Output /\ last_choice' # "OVERRIDE" =>
                  LET fastest == Least(Limits.max_linear_vel, safety_status.max_linear_vel)
                      backwards == Greatest(Limits.min_linear_vel, -safety_status.max_linear_vel)
                      brake == Limits.max_linear_decel * elapsed'
                  IN
                  /\ published'.linear <= Greatest(fastest, published.linear - brake)
                  /\ published'.linear >= Least(backwards, published.linear + brake)
                  /\ Limits.curvature # 0
                       => Abs(published'.angular) <= Abs(published'.linear) * Limits.curvature
<1>1. OutputInv /\ [Next]_vars => A
  <2> SUFFICES ASSUME OutputInv, [Next]_vars, Output, last_choice' # "OVERRIDE"
               PROVE  A
    OBVIOUS
  <2> DEFINE limits == limited_by(Limits, safety_status)
  <2>1. PICK d \in ClockSteps : publish_cmd_vel_rt(d)
    BY OutputIsPublish DEF OutputInv
  <2>2. /\ limits \in RobotLimits
        /\ limits.max_linear_vel = Least(Limits.max_linear_vel, safety_status.max_linear_vel)
        /\ limits.min_linear_vel
             = Greatest(Limits.min_linear_vel, -safety_status.max_linear_vel)
        /\ limits.max_linear_decel = Limits.max_linear_decel
        /\ limits.curvature = Limits.curvature
    BY BoundsOfChannel DEF OutputInv
  <2> HIDE DEF limits
  <2>3. /\ limits.max_linear_vel \in Nat /\ limits.min_linear_vel \in Int
        /\ limits.min_linear_vel <= 0 /\ limits.curvature \in Nat
        /\ limits.max_linear_decel \in Nat
    BY <2>2, LimitTypes
  <2>4. published \in Twist /\ published.linear \in Int
    BY TwistType DEF OutputInv, TypeOK
  <2> DEFINE brake == limits.max_linear_decel * elapsed'
             Within(cmd) ==
               /\ cmd.linear <= Greatest(limits.max_linear_vel, published.linear - brake)
               /\ cmd.linear >= Least(limits.min_linear_vel, published.linear + brake)
               /\ limits.curvature # 0 => Abs(cmd.angular) <= Abs(cmd.linear) * limits.curvature
  <2>5. Within(published') => A
    BY <2>2
  <2>6. elapsed' \in Nat /\ brake \in Nat
    <3>1. elapsed' \in Nat
      BY NextTypes, OutputAssumption DEF OutputInv, TypeOK
    <3> QED BY <3>1, <2>3, ProductType
  <2>7. CASE last_choice' = "SAFETY_STOP"
    <3>1. published' = Zero
      BY <2>1, <2>7, OutputTracks
    <3>2. Abs(0) = 0 /\ 0 * limits.curvature = 0
      BY <2>3, AbsType
    <3> HIDE DEF brake
    <3>3. Within(Zero)
      BY <2>3, <2>4, <2>6, <3>2, TwistType DEF Greatest, Least
    <3> QED BY <2>5, <3>1, <3>3
  <2>8. CASE last_choice' # "SAFETY_STOP"
    <3>1. PICK target \in Twist :
            \/ published' = published /\ published = clamp(target, limits)
            \/ published' = step(published, target, elapsed', limits)
      BY <2>1, <2>8, SmoothOutput DEF limits
    <3>2. CASE published' = published /\ published = clamp(target, limits)
      <4>1. /\ published'.linear \in limits.min_linear_vel .. limits.max_linear_vel
            /\ limits.curvature # 0
                 => Abs(published'.angular) <= Abs(published'.linear) * limits.curvature
        BY <2>2, <3>2, ClampType
      <4> HIDE DEF brake
      <4>2. Within(published')
        BY <2>3, <2>4, <2>6, <4>1 DEF Greatest, Least
      <4> QED BY <2>5, <4>2
    <3>3. CASE published' = step(published, target, elapsed', limits)
      <4>1. Within(published')
        BY <2>2, <2>4, <2>6, <3>3, Step
      <4> QED BY <2>5, <4>1
    <3> QED BY <3>1, <3>2, <3>3
  <2> QED BY <2>7, <2>8
<1>2. OutputInv /\ [Next]_vars => [A]_vars
  BY <1>1
<1> QED BY <1>2, OutputInvariant, PTL DEF Spec, WithinLimits

\* A cycle that sends nothing has sent something less than a keepalive period ago.
THEOREM DriverKeptAlive == Spec => KeptAlive
<1> DEFINE A == Output /\ keepalive_period > 0 => since_publish' \in 0 .. keepalive_period - 1
<1>1. OutputInv /\ [Next]_vars => A
  <2> SUFFICES ASSUME OutputInv, [Next]_vars, Output, keepalive_period > 0
               PROVE  since_publish' \in 0 .. keepalive_period - 1
    OBVIOUS
  <2>1. PICK d \in ClockSteps : publish_cmd_vel_rt(d)
    BY OutputIsPublish DEF OutputInv
  <2>2. \/ since_publish' = 0
        \/ /\ ~keepalive_due(d)
           /\ since_publish' = Aged(since_publish, d, keepalive_period)
    BY <2>1 DEF publish_cmd_vel_rt, publish
  <2> QED BY <2>2, OutputAssumption DEF keepalive_due
<1>2. OutputInv /\ [Next]_vars => [A]_vars
  BY <1>1
<1> QED BY <1>2, OutputInvariant, PTL DEF Spec, KeptAlive

-----------------------------------------------------------------------------
(* The command timeout.                                                    *)

\* The guard has counted at least as long as nobody commanded the robot, if the
\* last command was to move.
Counting ==
  last_target # Zero
    => timed_out \/ (since_proposal # Never /\ since_proposal >= silence)

Somebody == \E s \in Sources : Taken(s) # NoCmd

\* What is selected when nobody commands anything.
LEMMA NobodyCommands ==
  ASSUME TypeOK, ~Somebody
  PROVE  select.cmd = Zero \/ (select.cmd = last_target /\ ~select.fresh)
<1>1. Taken("OVERRIDE") = NoCmd /\ Taken("TAKEOVER") = NoCmd /\ Taken("CONTROLLER") = NoCmd
  BY DEF Somebody, Sources
<1> QED BY <1>1 DEF select

\* A command that is not fresh is the last one, or a stop.
LEMMA OldCommand ==
  ASSUME TypeOK, ~select.fresh
  PROVE  select.cmd \in {Zero, last_target}
BY DEF select, Fresh

LEMMA SilenceStep ==
  ASSUME TypeOK, NEW d \in ClockSteps, publish_cmd_vel_rt(d)
  PROVE  silence' = IF Somebody \/ d < 0 THEN 0 ELSE Least(silence + d, cmd_timeout + 1)
<1>1. Somebody <=> {Taken(s) : s \in Sources} # {NoCmd}
  BY DEF Somebody, Sources
<1> QED BY <1>1 DEF publish_cmd_vel_rt

\* The count of the guard keeps up with the silence.
LEMMA AgesTogether ==
  ASSUME TypeOK, NEW d \in Int, since_proposal # Never, since_proposal >= silence
  PROVE  /\ ProposalAge(d) # Never /\ ProposalAge(d) \in Nat
         /\ ~(d < 0) => ProposalAge(d) >= Least(silence + d, cmd_timeout + 1)
<1>1. since_proposal \in Int /\ silence \in Nat /\ cmd_timeout \in Nat /\ Never \notin Int
  BY OutputAssumption DEF TypeOK, Age
<1>2. Aged(since_proposal, d, cmd_timeout) = Least(since_proposal + d, cmd_timeout + 1)
  BY <1>1 DEF Aged
<1>3. Least(since_proposal + d, cmd_timeout + 1) \in Int
  BY <1>1 DEF Least
<1>4. ProposalAge(d) = IF Least(since_proposal + d, cmd_timeout + 1) < 0 THEN 0
                       ELSE Least(since_proposal + d, cmd_timeout + 1)
  BY <1>1, <1>2, <1>3 DEF ProposalAge
<1> QED BY <1>1, <1>4 DEF Least

LEMMA OutputCounts ==
  ASSUME TypeOK, Counting, NEW d \in ClockSteps, publish_cmd_vel_rt(d)
  PROVE  Counting'
<1>1. d \in Int /\ cmd_timeout \in Nat /\ silence \in Nat /\ Never \notin Int
  BY OutputAssumption DEF TypeOK
<1>2. /\ last_target' = select.cmd
      /\ since_proposal' = IF select.fresh THEN 0 ELSE ProposalAge(d)
      /\ timed_out' = (~select.fresh /\ (timed_out \/ Expires(select, d)))
  BY DEF publish_cmd_vel_rt
<1>3. silence' = IF Somebody \/ d < 0 THEN 0 ELSE Least(silence + d, cmd_timeout + 1)
  BY SilenceStep
<1> SUFFICES ASSUME select.cmd # Zero, ~timed_out'
             PROVE  since_proposal' # Never /\ since_proposal' >= silence'
  BY <1>2 DEF Counting
<1>4. CASE select.fresh
  BY <1>1, <1>2, <1>3, <1>4, NobodyCommands
<1>5. CASE ~select.fresh
  <2>1. since_proposal # Never /\ since_proposal >= silence
    BY <1>2, <1>5, OldCommand DEF Counting
  <2>2. /\ ProposalAge(d) # Never /\ ProposalAge(d) \in Nat
        /\ ~(d < 0) => ProposalAge(d) >= Least(silence + d, cmd_timeout + 1)
    BY <1>1, <2>1, AgesTogether
  <2>3. since_proposal' = ProposalAge(d)
    BY <1>2, <1>5
  <2> QED BY <1>1, <1>3, <2>2, <2>3
<1> QED BY <1>4, <1>5

LEMMA NextCounts == OutputInv /\ Counting /\ [Next]_vars => Counting'
<1> SUFFICES ASSUME OutputInv, Counting, [Next]_vars PROVE Counting'
  OBVIOUS
<1>1. CASE \E d \in ClockSteps : publish_cmd_vel_rt(d)
  BY <1>1, OutputCounts DEF OutputInv
<1>2. ASSUME UNCHANGED <<last_target, timed_out, since_proposal, silence>>
      PROVE  Counting'
  BY <1>2 DEF Counting
<1>3. ASSUME last_target' = Zero PROVE Counting'
  BY <1>3 DEF Counting
<1>4. CASE on_configure
  BY <1>3, <1>4 DEF on_configure, mux_reset, muxVars, OutputInv, Quiet
<1>5. CASE stop_end
  BY <1>3, <1>5 DEF stop_end, mux_reset
<1>6. CASE controller_cycle_rt
  BY <1>2, <1>6 DEF controller_cycle_rt, muxVars
<1>7. CASE recovery_cycle_rt
  BY <1>2, <1>7 DEF recovery_cycle_rt, muxVars, guardVars
<1>8. CASE \/ \E value \in BOOLEAN : pause_navigation(value)
           \/ on_activate \/ activate_system \/ deactivate_system \/ on_deactivate
           \/ on_shutdown \/ stop_step \/ on_cleanup \/ end_loops \/ UNCHANGED vars
  BY <1>2, <1>8 DEF pause_navigation, on_activate, activate_system, deactivate_system,
     on_deactivate, on_shutdown, stop_step, on_cleanup, end_loops, vars, muxVars, guardVars,
     outVars
<1> QED BY <1>1, <1>4, <1>5, <1>6, <1>7, <1>8 DEF Next

LEMMA AbandonedStops ==
  ASSUME TypeOK, Counting, NEW d \in ClockSteps, publish_cmd_vel_rt(d),
         cmd_timeout > 0, silence' > cmd_timeout
  PROVE  supervise(select, d).cmd = Zero
<1>1. d \in Int /\ cmd_timeout \in Nat /\ silence \in Nat
  BY OutputAssumption DEF TypeOK
<1>2. ~Somebody /\ ~(d < 0) /\ Least(silence + d, cmd_timeout + 1) > cmd_timeout
  BY <1>1, SilenceStep
<1>3. CASE select.cmd = Zero
  BY <1>3, Supervised, Selected
<1>4. CASE select.cmd # Zero
  <2>1. select.cmd = last_target /\ ~select.fresh /\ select \in Selection
    BY <1>2, <1>4, NobodyCommands, Selected
  <2>2. CASE timed_out
    BY <2>1, <2>2 DEF supervise, Selection
  <2>3. CASE ~timed_out
    <3>1. /\ ProposalAge(d) # Never /\ ProposalAge(d) \in Nat
          /\ ProposalAge(d) >= Least(silence + d, cmd_timeout + 1)
      BY <1>1, <1>2, <1>4, <2>1, <2>3, AgesTogether DEF Counting
    <3>2. ProposalAge(d) > cmd_timeout
      BY <1>1, <1>2, <3>1 DEF Least
    <3>3. Expires(select, d)
      BY <1>4, <3>1, <3>2 DEF Expires
    <3> QED BY <2>1, <2>3, <3>3 DEF supervise, Selection
  <2> QED BY <2>2, <2>3
<1> QED BY <1>3, <1>4

\* A robot that nobody commands for longer than the timeout brakes as hard as it may,
\* whatever the clock did meanwhile and whoever commanded it last.
THEOREM AbandonedRobotBrakes == Spec => AbandonedBrakes
<1> DEFINE A == Output /\ cmd_timeout > 0 /\ silence' > cmd_timeout =>
                  Abs(published'.linear)
                    <= Greatest(0, Abs(published.linear) - Limits.max_linear_decel * elapsed')
<1>1. Init => Counting
  BY DEF Init, Counting
<1>2. OutputInv /\ Counting /\ [Next]_vars => A
  <2> SUFFICES ASSUME OutputInv, Counting, [Next]_vars,
                      Output, cmd_timeout > 0, silence' > cmd_timeout
               PROVE  A
    OBVIOUS
  <2> DEFINE limits == limited_by(Limits, safety_status)
             brake == Limits.max_linear_decel * elapsed'
  <2>1. PICK d \in ClockSteps : publish_cmd_vel_rt(d)
    BY OutputIsPublish DEF OutputInv
  <2>2. current = published /\ published \in Twist /\ published.linear \in Int
    BY <2>1, TwistType DEF OutputInv, TypeOK, Running, SmootherTracks, publish_cmd_vel_rt
  <2>3. limits \in RobotLimits /\ limits.max_linear_decel = Limits.max_linear_decel
        /\ Limits.max_linear_decel \in Nat
    BY BoundsOfChannel DEF OutputInv
  <2> HIDE DEF limits
  <2>4. elapsed' \in Nat /\ brake \in Int
    <3>1. elapsed' \in Nat
      BY NextTypes, OutputAssumption DEF OutputInv, TypeOK
    <3> QED BY <3>1, <2>3, ProductType
  <2>5. CASE published' = Zero
    <3>1. Abs(0) = 0
      BY AbsType
    <3> HIDE DEF brake
    <3>2. Abs(published'.linear) <= Greatest(0, Abs(published.linear) - brake)
      BY <2>2, <2>4, <2>5, <3>1, AbsType, TwistType DEF Greatest
    <3> QED BY <3>2 DEF brake
  <2>6. CASE published' # Zero
    <3>1. supervise(select, d).cmd = Zero
      BY <2>1, AbandonedStops DEF OutputInv
    <3>2. last_choice' # "SAFETY_STOP"
      BY <2>1, <2>6, OutputTracks
    <3>3. RampStart(last_choice') = published
      BY <2>2, <3>2 DEF RampStart
    <3>4. \/ reached(published, Zero, limits) /\ published' = published
          \/ published' = step(published, Zero, elapsed', limits)
          \/ published' = Zero
      BY <2>1, <3>1, <3>3, OutputStep DEF OutputInv, limits, publish
    <3>5. published' = step(published, Zero, elapsed', limits)
      BY <2>3, <2>6, <3>4, ClampType, TwistType DEF reached
    <3> QED BY <2>2, <2>3, <2>4, <3>5, StepBrakes
  <2> QED BY <2>5, <2>6
<1>3. OutputInv /\ Counting /\ [Next]_vars => [A]_vars
  BY <1>2
<1>4. OutputInv /\ Counting /\ [Next]_vars => Counting'
  BY NextCounts
<1> QED BY <1>1, <1>3, <1>4, OutputInvariant, PTL DEF Spec, AbandonedBrakes

=============================================================================
