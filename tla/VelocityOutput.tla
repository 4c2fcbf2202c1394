---------------------------- MODULE VelocityOutput --------------------------
(***************************************************************************)
(* From the sources that want to move the robot to the command its driver  *)
(* gets: the proposals in NavState, easynav_controller's VelocityMux and   *)
(* CommandGuard, and ControllerNode, which smooths and publishes.  The     *)
(* real-time (RT) thread runs the three parts of system_cycle_rt() under a *)
(* mutex; the other thread configures, activates, deactivates and shuts    *)
(* the node down.  A driver keeps executing the last command it was sent.  *)
(*                                                                         *)
(* Times are kept as ages, moved by what the clock does between two cycles *)
(* (it may jump back) and capped where nothing tells them apart.           *)
(***************************************************************************)
EXTENDS VelocitySmoother

CONSTANTS Limits,            \* the configured robot limits
          Commands,          \* the twists that each source may propose
          NonFinite,         \* a twist with a NaN or an infinity
          NoCmd, Never,      \* no command; a time that is not set
          Channels,          \* what the safety channel may impose
          NoChannel,         \* SafetyChannelState(): it imposes nothing
          ClockSteps,        \* what the clock may do between two cycles
          cmd_timeout, keepalive_period,
          MaxSmootherStep, StopPeriod

ASSUME OutputAssumption ==
  /\ Limits \in RobotLimits
  /\ Commands \in [{"OVERRIDE", "TAKEOVER", "CONTROLLER"} -> SUBSET Twist]
  /\ NonFinite \notin Twist /\ NoCmd \notin Twist /\ NonFinite # NoCmd
  /\ Never \notin Int
  /\ Channels \subseteq SafetyChannelState /\ NoChannel \in Channels
  /\ NoChannel.protective_stop = FALSE
  /\ ClockSteps \subseteq Int
  /\ cmd_timeout \in Nat /\ keepalive_period \in Nat
  /\ MaxSmootherStep \in Nat /\ StopPeriod \in Nat

VARIABLES
  \* NavState: the key the controller plugin writes, each source's pending
  \* command, and what the others impose.
  cmd_vel, proposal, navigation_paused, safety_status, inhibit_motion,
  \* VelocityMux.
  last_target, last_choice,
  \* CommandGuard: cmd_vel is last_controller_cmd_; ages of last_proposal_ and
  \* last_publish_.
  known, since_proposal, timed_out, since_publish,
  \* ControllerNode and its smoother.
  current, safety_channel, stepped, last_published_zero, publisher, node,
  \* SystemNode: active_, the RT loop of main() runs, where its cycle is.
  active, loop, rt,
  \* What the driver executes.
  published,
  \* History: how long ago somebody commanded the robot; somebody asked it to
  \* move since it was activated; the time step of the last output.
  silence, asked, elapsed

navVars == <<cmd_vel, proposal, navigation_paused, safety_status, inhibit_motion>>
muxVars == <<last_target, last_choice>>
guardVars == <<known, since_proposal, timed_out, since_publish>>
nodeVars == <<current, safety_channel, stepped, last_published_zero, publisher, node>>
systemVars == <<active, loop, rt>>
outVars == <<published, silence, asked, elapsed>>
vars == <<navVars, muxVars, guardVars, nodeVars, systemVars, outVars>>

Sources == {"OVERRIDE", "TAKEOVER", "CONTROLLER"}
Choices == Sources \cup {"SAFETY_STOP", "INHIBITED", "PAUSED", "NONE"}
Written == (UNION {Commands[s] : s \in Sources}) \cup {Zero, NonFinite, NoCmd}
Age == Int \cup {Never}

TypeOK ==
  /\ cmd_vel \in Written
  /\ proposal \in [Sources -> Written]
  /\ navigation_paused \in BOOLEAN
  /\ safety_status \in Channels
  /\ inhibit_motion \in BOOLEAN
  /\ last_target \in Twist
  /\ last_choice \in Choices
  /\ known \in BOOLEAN
  /\ since_proposal \in Age
  /\ timed_out \in BOOLEAN
  /\ since_publish \in Age
  /\ current \in Twist
  /\ safety_channel \in Channels
  /\ stepped \in BOOLEAN
  /\ last_published_zero \in BOOLEAN
  /\ publisher \in BOOLEAN
  /\ node \in {"unconfigured", "inactive", "active", "deactivating",
              "shutting_down", "finalized"}
  /\ active \in BOOLEAN
  /\ loop \in BOOLEAN
  /\ rt \in {"idle", "recovery", "publish"}
  /\ published \in Twist
  /\ silence \in Nat
  /\ asked \in BOOLEAN
  /\ elapsed \in 0 .. MaxSmootherStep

Init ==
  /\ cmd_vel = NoCmd
  /\ proposal = [s \in Sources |-> NoCmd]
  /\ navigation_paused = FALSE /\ safety_status = NoChannel /\ inhibit_motion = FALSE
  /\ last_target = Zero /\ last_choice = "NONE"
  /\ known = FALSE /\ timed_out = FALSE
  /\ since_proposal = Never /\ since_publish = Never
  /\ current = Zero /\ safety_channel = NoChannel /\ stepped = FALSE
  /\ last_published_zero = FALSE /\ publisher = FALSE /\ node = "unconfigured"
  /\ active = FALSE /\ loop = TRUE /\ rt = "idle"
  /\ published = Zero /\ silence = 0 /\ asked = FALSE /\ elapsed = 0

-----------------------------------------------------------------------------
(* system_cycle_rt(): the controller, the recovery system, the output.     *)

\* What the supervisor found out about the safety channel and the pose.
SafetyReports ==
  /\ safety_status' \in Channels
  /\ inhibit_motion' \in BOOLEAN

\* The plugin may write another command (a zero when it throws), and runs or
\* not; a command that is not the last one it proposed is proposed.
controller_cycle_rt ==
  /\ rt = "idle" /\ active /\ loop
  /\ rt' = "recovery"
  /\ SafetyReports
  /\ \E cmd \in Commands["CONTROLLER"] \cup {Zero, NonFinite, cmd_vel}, written, ran \in BOOLEAN :
       LET new == written \/ ~known IN
       /\ ran \/ ~written
       /\ written => cmd # NoCmd
       /\ ~written => cmd = cmd_vel
       /\ cmd_vel' = cmd
       /\ IF ran /\ new /\ cmd # NoCmd
          THEN /\ proposal' = [proposal EXCEPT !["CONTROLLER"] = cmd]
               /\ known' = TRUE
               /\ asked' = (asked \/ (written /\ cmd \notin {Zero, NonFinite}))
          ELSE UNCHANGED <<proposal, known, asked>>
  /\ elapsed' = 0
  /\ UNCHANGED <<navigation_paused, muxVars, since_proposal, timed_out, since_publish,
                 nodeVars, active, loop, published, silence>>

\* The recovery manager takes the motion over, overrides it (with a stop when
\* it throws), or leaves it alone.
recovery_cycle_rt ==
  /\ rt = "recovery"
  /\ rt' = "publish"
  /\ \E takeover \in Commands["TAKEOVER"] \cup {NonFinite, NoCmd},
        override \in Commands["OVERRIDE"] \cup {Zero, NonFinite, NoCmd} :
       /\ proposal' = [s \in Sources |->
            IF s = "TAKEOVER" /\ takeover # NoCmd THEN takeover
            ELSE IF s = "OVERRIDE" /\ override # NoCmd THEN override
            ELSE proposal[s]]
       /\ asked' = (asked \/ {takeover, override} \ {Zero, NonFinite, NoCmd} # {})
  /\ UNCHANGED <<cmd_vel, navigation_paused, safety_status, inhibit_motion, muxVars,
                 guardVars, nodeVars, active, loop, published, silence, elapsed>>

-----------------------------------------------------------------------------
(* publish_cmd_vel_rt().                                                   *)

\* Mutant: an override is not checked.
TakenUnchecked(s) ==
  IF s # "OVERRIDE" /\ proposal[s] = NonFinite THEN NoCmd ELSE proposal[s]

\* discard_non_finite(), and then take() of each proposal.
Taken(s) == IF proposal[s] = NonFinite THEN NoCmd ELSE proposal[s]

Fresh(choice) == Taken("CONTROLLER") # NoCmd \/ last_choice # choice

\* VelocityMux::select(), by priority.
select ==
  IF safety_status.protective_stop THEN
    [cmd |-> Zero, choice |-> "SAFETY_STOP", fresh |-> Fresh("SAFETY_STOP"), smooth |-> TRUE]
  ELSE IF inhibit_motion THEN
    [cmd |-> Zero, choice |-> "INHIBITED", fresh |-> Fresh("INHIBITED"), smooth |-> TRUE]
  ELSE IF Taken("OVERRIDE") # NoCmd THEN
    [cmd |-> Taken("OVERRIDE"), choice |-> "OVERRIDE", fresh |-> TRUE, smooth |-> FALSE]
  ELSE IF Taken("TAKEOVER") # NoCmd THEN
    [cmd |-> Taken("TAKEOVER"), choice |-> "TAKEOVER", fresh |-> TRUE, smooth |-> TRUE]
  ELSE IF navigation_paused THEN
    [cmd |-> Zero, choice |-> "PAUSED", fresh |-> Taken("CONTROLLER") # NoCmd, smooth |-> TRUE]
  ELSE IF Taken("CONTROLLER") # NoCmd THEN
    [cmd |-> Taken("CONTROLLER"), choice |-> "CONTROLLER", fresh |-> TRUE, smooth |-> TRUE]
  ELSE
    [cmd |-> last_target, choice |-> "NONE", fresh |-> FALSE, smooth |-> TRUE]

\* An age d later, capped one above the longest that matters.
Aged(age, d, longest) == IF age = Never THEN Never ELSE Least(age + d, longest + 1)

\* Mutant: the timeout of a clock that jumped back counts from its future.
ProposalAgeFuture(d) == Aged(since_proposal, d, cmd_timeout)

\* The proposal ages, and a clock that jumped back counts from now.
ProposalAge(d) ==
  LET age == Aged(since_proposal, d, cmd_timeout)
  IN IF age # Never /\ age < 0 THEN 0 ELSE age

Expires(selection, d) ==
  /\ cmd_timeout > 0 /\ ProposalAge(d) # Never
  /\ selection.cmd # Zero
  /\ ProposalAge(d) > cmd_timeout

\* CommandGuard::supervise(): a command that nobody renews becomes a stop.
supervise(selection, d) ==
  IF selection.fresh THEN selection
  ELSE IF timed_out THEN [selection EXCEPT !.cmd = Zero]
  ELSE IF Expires(selection, d) THEN [selection EXCEPT !.cmd = Zero, !.fresh = TRUE]
  ELSE selection

\* Mutant: due one cycle too late.
keepalive_dueLate(d) ==
  /\ keepalive_period > 0
  /\ Aged(since_publish, d, keepalive_period) \notin 0 .. keepalive_period

\* Nothing published yet, not for a period, or in the future.
keepalive_due(d) ==
  /\ keepalive_period > 0
  /\ Aged(since_publish, d, keepalive_period) \notin 0 .. keepalive_period - 1

publish(cmd) ==
  /\ published' = cmd
  /\ since_publish' = 0
  /\ last_published_zero' = (cmd = Zero)

\* Mutant: a protective stop ramps down like any other target.
RampStartKept(choice) == current

\* No ramp from what was commanded when the safety channel stops the robot.
RampStart(choice) == IF choice = "SAFETY_STOP" THEN Zero ELSE current

publish_cmd_vel_rt(d) ==
  LET chosen == select
      selection == supervise(chosen, d)
      limits == limited_by(Limits, safety_status)
      from == RampStart(selection.choice)
      dt == IF stepped THEN Clamped(d, 0, MaxSmootherStep) ELSE 0
      at_rest == last_published_zero /\ selection.cmd = Zero
      next == step(from, selection.cmd, dt, limits)
      somebody == {Taken(s) : s \in Sources} # {NoCmd}
  IN
  /\ rt = "publish"
  /\ rt' = "idle"
  /\ proposal' = [s \in Sources |-> NoCmd]
  /\ last_target' = chosen.cmd
  /\ last_choice' = chosen.choice
  /\ since_proposal' = IF chosen.fresh THEN 0 ELSE ProposalAge(d)
  /\ timed_out' = (~chosen.fresh /\ (timed_out \/ Expires(chosen, d)))
  /\ safety_channel' = safety_status
  /\ stepped' = TRUE
  /\ elapsed' = dt
  /\ \/ /\ selection.smooth
        /\ selection.fresh => at_rest
        /\ reached(from, selection.cmd, limits)
        /\ ~keepalive_due(d)
        /\ current' = from
        /\ since_publish' = Aged(since_publish, d, keepalive_period)
        /\ UNCHANGED <<published, last_published_zero>>
     \/ /\ selection.smooth
        /\ \/ selection.fresh /\ ~at_rest
           \/ ~reached(from, selection.cmd, limits)
           \/ keepalive_due(d)
        /\ current' = next
        /\ publish(next)
     \/ /\ ~selection.smooth
        /\ current' = selection.cmd
        /\ publish(selection.cmd)
  /\ silence' = IF somebody \/ d < 0 THEN 0 ELSE Least(silence + d, cmd_timeout + 1)
  /\ UNCHANGED <<cmd_vel, navigation_paused, safety_status, inhibit_motion, known,
                 publisher, node, active, loop, asked>>

-----------------------------------------------------------------------------
(* The other thread.                                                       *)

\* GoalManager::update() tells NavState that the mission is paused or not.
pause_navigation(value) ==
  /\ navigation_paused' = value
  /\ UNCHANGED <<cmd_vel, proposal, safety_status, inhibit_motion, muxVars, guardVars,
                 nodeVars, systemVars, outVars>>

\* CommandGuard::reset().
guard_reset ==
  /\ known' = FALSE /\ timed_out' = FALSE
  /\ since_proposal' = Never /\ since_publish' = Never

mux_reset == last_target' = Zero /\ last_choice' = "NONE"

\* on_configure(): it fails before the publisher is made (invalid timeouts),
\* after it (the plugin or its limits), or not at all.
on_configure ==
  /\ node = "unconfigured"
  /\ safety_channel' = NoChannel
  /\ guard_reset
  /\ \/ UNCHANGED <<muxVars, current, stepped, last_published_zero, publisher, node>>
     \/ /\ mux_reset
        /\ current' = Zero /\ stepped' = FALSE /\ last_published_zero' = FALSE
        /\ publisher' = TRUE
        /\ node' \in {"unconfigured", "inactive"}
  /\ UNCHANGED <<navVars, systemVars, outVars>>

on_activate ==
  /\ node = "inactive"
  /\ node' = "active"
  /\ asked' = FALSE
  /\ UNCHANGED <<navVars, muxVars, guardVars, current, safety_channel, stepped,
                 last_published_zero, publisher, systemVars, published, silence, elapsed>>

\* The last step of SystemNode::on_activate(), once every node is active.
activate_system ==
  /\ node = "active" /\ ~active /\ rt = "idle"
  /\ active' = TRUE
  /\ UNCHANGED <<navVars, muxVars, guardVars, nodeVars, loop, rt, outVars>>

\* Mutant: the RT cycles go on while the nodes are deactivated.
deactivate_systemRunning ==
  /\ active /\ rt = "idle"
  /\ cmd_vel' = Zero /\ known' = FALSE
  /\ node' = "deactivating"
  /\ UNCHANGED <<proposal, navigation_paused, safety_status, inhibit_motion, muxVars,
                 since_proposal, timed_out, since_publish, current, safety_channel,
                 stepped, last_published_zero, publisher, systemVars, outVars>>

\* Mutant: the command of the controller outlives the deactivation.
deactivate_systemStale ==
  /\ active /\ rt = "idle"
  /\ active' = FALSE
  /\ UNCHANGED <<navVars, muxVars, guardVars, nodeVars, loop, rt, outVars>>

\* The first step of SystemNode::on_deactivate(), with the RT mutex.
deactivate_system ==
  /\ active /\ rt = "idle"
  /\ active' = FALSE
  /\ cmd_vel' = Zero /\ known' = FALSE
  /\ UNCHANGED <<proposal, navigation_paused, safety_status, inhibit_motion, muxVars,
                 since_proposal, timed_out, since_publish, nodeVars, loop, rt, outVars>>

\* ControllerNode::on_deactivate(), once no RT cycle will run.
on_deactivate ==
  /\ node = "active" /\ ~active
  /\ node' = "deactivating"
  /\ UNCHANGED <<navVars, muxVars, guardVars, current, safety_channel, stepped,
                 last_published_zero, publisher, systemVars, outVars>>

\* on_shutdown(), with the RT thread joined, from any state: a node that was
\* never configured commanded nothing.
on_shutdown ==
  /\ node \in {"unconfigured", "inactive", "active"} /\ ~loop
  /\ node' = IF publisher THEN "shutting_down" ELSE "finalized"
  /\ UNCHANGED <<navVars, muxVars, guardVars, current, safety_channel, stepped,
                 last_published_zero, publisher, systemVars, outVars>>

\* stop_robot(): one command of the ramp.
stop_step ==
  LET next == step(current, Zero, StopPeriod, limited_by(Limits, safety_channel)) IN
  /\ node \in {"deactivating", "shutting_down"}
  /\ current # Zero
  /\ current' = next
  /\ publish(next)
  /\ UNCHANGED <<navVars, muxVars, known, since_proposal, timed_out, safety_channel,
                 stepped, publisher, node, systemVars, silence, asked, elapsed>>

\* Mutant: the smoother is left where the deadline ended its ramp.
stop_endUnreset ==
  /\ node \in {"deactivating", "shutting_down"}
  /\ published' = Zero /\ last_published_zero' = TRUE
  /\ mux_reset
  /\ guard_reset
  /\ node' = IF node = "deactivating" THEN "inactive" ELSE "finalized"
  /\ publisher' = (node = "deactivating")
  /\ UNCHANGED <<navVars, current, safety_channel, stepped, systemVars, silence, asked, elapsed>>

\* stop_robot() after the ramp, which its deadline may end too early.
stop_end ==
  /\ node \in {"deactivating", "shutting_down"}
  /\ published' = Zero
  /\ last_published_zero' = TRUE
  /\ current' = Zero
  /\ mux_reset
  /\ guard_reset
  /\ node' = IF node = "deactivating" THEN "inactive" ELSE "finalized"
  /\ publisher' = (node = "deactivating")
  /\ UNCHANGED <<navVars, safety_channel, stepped, systemVars, silence, asked, elapsed>>

on_cleanup ==
  /\ node = "inactive" /\ loop
  /\ node' = "unconfigured"
  /\ publisher' = FALSE
  /\ UNCHANGED <<navVars, muxVars, guardVars, current, safety_channel, stepped,
                 last_published_zero, systemVars, outVars>>

\* main() ends its loops: the RT thread is joined after its cycle.
end_loops ==
  /\ loop /\ rt = "idle" /\ node # "deactivating"
  /\ loop' = FALSE
  /\ UNCHANGED <<navVars, muxVars, guardVars, nodeVars, active, rt, outVars>>

Next ==
  \/ controller_cycle_rt
  \/ recovery_cycle_rt
  \/ \E d \in ClockSteps : publish_cmd_vel_rt(d)
  \/ \E value \in BOOLEAN : pause_navigation(value)
  \/ on_configure
  \/ on_activate
  \/ activate_system
  \/ deactivate_system
  \/ on_deactivate
  \/ on_shutdown
  \/ stop_step
  \/ stop_end
  \/ on_cleanup
  \/ end_loops

Spec == Init /\ [][Next]_vars

\* The RT thread loops for ever, and its clock does advance.
FairSpec ==
  /\ Spec
  /\ WF_vars(controller_cycle_rt)
  /\ WF_vars(recovery_cycle_rt)
  /\ SF_vars(\E d \in ClockSteps : d > 0 /\ publish_cmd_vel_rt(d))

-----------------------------------------------------------------------------
\* The robot was sent a stop, and nothing after it, whenever its controller is
\* not active: no RT cycle that was under way and no ramp cut short by its
\* deadline leaves it moving.
StoppedOutside ==
  node \in {"unconfigured", "inactive", "finalized"} => published = Zero

\* The smoother goes on from what the driver executes, after every hand-over: an
\* override, a protective stop, a cycle without a command, a new activation.
SmootherTracks == node = "active" => current = published

\* A robot that was stopped by a deactivation does not move again on a command of
\* before it.
NothingStale == node = "active" /\ published # Zero => asked

\* The output of an RT cycle.
Output == rt = "publish" /\ rt' = "idle"

\* While the safety channel stops the robot, every RT cycle ends with the driver on
\* a stop, without a ramp, whoever proposes what.
ProtectiveStop ==
  [][Output /\ safety_status.protective_stop => published' = Zero]_vars

\* What leaves the smoother is within the limits of the moment, the ones that the
\* safety channel cuts down included, or brakes towards them, and turns within
\* the turning radius.
WithinLimits ==
  [][Output /\ last_choice' # "OVERRIDE" =>
       LET fastest == Least(Limits.max_linear_vel, safety_status.max_linear_vel)
           backwards == Greatest(Limits.min_linear_vel, -safety_status.max_linear_vel)
           brake == Limits.max_linear_decel * elapsed'
       IN
       /\ published'.linear <= Greatest(fastest, published.linear - brake)
       /\ published'.linear >= Least(backwards, published.linear + brake)
       /\ Limits.curvature # 0
            => Abs(published'.angular) <= Abs(published'.linear) * Limits.curvature]_vars

\* Whoever commands the robot and whatever ends, it speeds up and slows down
\* within its limits and stops before it reverses; only an override and a
\* protective stop may jump.
SmoothMotion ==
  [][Output /\ last_choice' \notin {"OVERRIDE", "SAFETY_STOP"} =>
       LET v == published.linear
           w == published'.linear
       IN
       /\ Abs(w) <= Abs(v) + Limits.max_linear_acc * elapsed'
       /\ Abs(w) >= Abs(v) - Limits.max_linear_decel * elapsed'
       /\ ~(v > 0 /\ w < 0) /\ ~(v < 0 /\ w > 0)]_vars

\* A robot that nobody commanded for longer than the timeout brakes.
AbandonedBrakes ==
  [][Output /\ cmd_timeout > 0 /\ silence' > cmd_timeout =>
       Abs(published'.linear)
         <= Greatest(0, Abs(published.linear) - Limits.max_linear_decel * elapsed')]_vars

\* No RT cycle leaves the driver a keepalive period without a message.
KeptAlive ==
  [][Output /\ keepalive_period > 0 => since_publish' \in 0 .. keepalive_period - 1]_vars

\* A robot that is stopped, inhibited, paused or abandoned for good comes to rest,
\* on both axes.
ComesToRest ==
  <>[](active /\ loop /\ last_choice \in {"SAFETY_STOP", "INHIBITED", "PAUSED", "NONE"})
    => <>[](published = Zero)

=============================================================================
