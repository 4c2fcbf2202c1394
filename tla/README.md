# TLA+ models of EasyNavigation

EasyNavigation (EasyNav) is a navigation framework for ROS 2 robots: one process that turns
sensor data into a pose, a map, a plan and a velocity command, within a real-time (RT) cycle, and
that takes missions from any number of clients. This directory holds TLA+ modules translated from
its C++ code, the configurations that check them with TLC, and theorems about them that TLAPS
checks. `PROJECT.json` is the index: components, runs, the lines each definition models, the
hazards, and the theorems.

    tlc -workers 2 -config MCMissionControl.cfg MCMissionControl.tla   # one run
    tlapm MissionProofs.tla                                            # one proof module

## 1. The system

One process (`easynav_system/src/system_main.cpp`) runs two loops over one `SystemNode`, which owns
six subnodes and a blackboard, `NavState`:

* the **RT loop** (its own thread, 200 Hz by default) calls `system_cycle_rt()` under `rt_mutex_`:
  safety supervisor, sensors, localizer, controller, recovery, and then the velocity output;
* the **non-RT loop** (the main thread) calls `system_cycle()`: sensors, localizer, maps manager,
  goal manager, planner, recovery; then `apply_pending_reconfigure()`; then it delivers every
  waiting ROS callback (control messages, parameters, lifecycle services).

Most of what is hard follows from that split: NavState is written by both threads; the lifecycle of
every node is driven by the main thread while the RT thread runs; and the goal manager, a pure
non-RT object, is reached from the RT side through one flag.

| Component | State it keeps | Operations | Interacts with | What is hard | What makes it correct |
|---|---|---|---|---|---|
| **GoalManager** | `state_`, `goals_` and its revision, `paused_`, `current_client_id_`, `progress_held_`, pending end of mission, pending synchronisation of goals, what was last written to NavState | `control_callback` (request, cancel, pause, resume), `comanded_pose_callback`, `update`, `set_finished`/`set_error`, `set_progress_held`, `read_parameters` | control topic with the clients; NavState (planner, controller, recovery read what it wrote); SystemNode (plans are forced by the revision) | preemption by a second client, messages that cross, early returns of `update()`, aborts by the recovery system between two updates, a hold set by the RT thread in the middle of `update()` | an active mission has goals, one holder, no mission inherits a pause, each client is told how its mission begins and ends, NavState and the planner follow, the end is published |
| **GoalManagerClient** (C++ and Python) | state machine of the program's goal, `paused_` | `send_goals`, `cancel`, `pause`, `resume`, `reset`, callback | control topic | answers carry no identity of what they answer | a client that believes to navigate does, or is about to be told; every goal is answered |
| **VelocitySmoother** | the command on its way to the target | `step`, `reached`, `set` | controller node | direction changes, limits that shrink, turning radius | velocities, accelerations and curvature within the limits; it ends on its target |
| **VelocityMux, CommandGuard** | last target and choice; last proposal and publication, timeout latch | `select`, `supervise`, `discard_non_finite`, `keepalive_due`, `reset` | commands proposed in NavState by controller, takeover and override | priorities, a source that falls silent, clocks that jump back | stop wins; an abandoned robot brakes; the driver's keepalive holds |
| **ControllerNode** | the above, its publisher, `last_published_zero_` | lifecycle, `cycle_rt`, `publish_cmd_vel_rt`, `stop_robot` | SystemNode, the driver, the plugin | RT output against deactivation and shutdown by the other thread; a stop ramp with a deadline | nothing moves the robot outside Active; no jump after any hand-over |
| **SystemNode** | own and subnodes' lifecycle states, `active_`, pending reconfiguration, original parameters, shutdown latch | lifecycle callbacks, `system_cycle(_rt)`, `request_shutdown`, `request_reconfigure`, `request_restore_parameters`, `apply_pending_reconfigure`, `abort_mission`, `hold_mission_progress` | all components; recovery managers through `SystemActions` | partial failures of transitions over six nodes, restoration after failed changes, shutdown requested from the RT thread | no RT cycle over a node that is not active; parameters all-or-nothing; unrecoverable errors end in Finalized |
| **system_main** | stop flag, signal count, two loops | signal handler, watcher thread, loops, end of both | SystemNode | order of joining, signals that race with the end | both loops end; destruction with a valid context |
| **SafetySupervisor** with RtMonitor, SafetyChannelMonitor, ParameterFreezer | modes, deadline misses, age of the pose, channel status, what was reported last, frozen flag | `check_system`, `on_configured`, `on_activate`, `cycle_rt`, `report_*`, `freeze` | RT cycle, NavState (`safety_status`, `inhibit_motion`), every node's parameters | late, lost or invalid status; a pose without a stamp; reports of changes only, over many activations; parameters set while nodes configure | a robot moves on the word of the channel only; an inhibited one is released by a usable pose only; diagnostics are true; what runs is what was checked |
| **ConfigurationFingerprint** | the file of the dump | dump and hash of the parameters, `save_dump` | supervisor | a crash or a full disk while it is written | a file under its final name was taken by its stream and closed |
| **RealTime** | none | priorities and memory locks of the OS | main | - | - |
| **RecoveryManagerNode** | the loaded manager, its actions | lifecycle, `cycle`, `cycle_rt`, `set_manager` | SystemActions | a manager that is unloaded, or throws, while it holds the mission; cycles in flight | a hold never outlives a manager that was loaded |
| **MethodBase, RateMonitor** | last and next run, window of the rate | `is_time_to_run`, `set_run`, `report` | every plugin | late checks, triggered runs, clocks | rate kept, no burst; a plugin on time is not reported |
| **PluginSwitcher** | loaded plugins, active one | `configure`, `get`, `release` | nodes with a plugin | loading that fails half-way, plugins in use by a cycle | all or nothing, no use after release |
| **LocalizerNode** | its plugin, the pose of the last one | lifecycle, `cycle`, `cycle_rt` | NavState | a new plugin that both loops run | the last known pose is handed over once, first |
| **PlannerNode, MapsManagerNode** | their plugin | lifecycle, `cycle`, `check_path` | NavState | as PluginSwitcher; a path that is not finite | an invalid path is not in NavState, and is reported |
| **SensorsNode** | handlers, ages | `on_configure`, `cycle_rt`, `check_data_age` | NavState | failed configuration leaves handlers; reports of changes only | old data are not valid, and are reported |
| **Perception types** | last message, or a ring of clouds; views over them | `integrate_pending_perceptions`, `filter`, `fuse`, `add`, `collapse`, `downsample` | sensors, TF | clouds out of order, ahead of TF; views over clouds that change | the newest usable cloud is shown; a view's points are in its frame and its bounds |
| **NavState** | typed slots, groups | `set`, `get`, `set_group`, `add_to_group`, `get_group` | everybody | two threads, two mutexes | a value keeps its type; a group lists its members |
| **RTTFBuffer, CircularBuffer** | transforms, ring of items | `lookup_transform` with extrapolation; `push`, `pop` | localizer, sensors | several questions to a buffer that changes; a full ring | the answer is where the frame is; latest items kept in order |
| **easynav_interfaces, easynav_tools, dummy and fault-injection plugins** | message types; terminal tools; stand-ins | - | - | - | - |

`PROJECT.json` lists 40 hazards of this code (interleavings, stale state, protocol sequences,
partial failures, crashes, timeouts, numeric edges), each at its line, with the properties that would catch
it, or the part of it that they leave open.

## 2. The modules

    Mission <---- implemented by ---- MissionControl ----> MCMissionControl (runs)
                                       |     |      \----> MissionProofs (theorems)
                                GoalManager  GoalManagerClient
                                       \     /
                                      ControlTopic

    VelocitySmoother <--- VelocityOutput ---> MCVelocityOutput (runs)
                                         \---> VelocityProofs (theorems)

    Reconfiguration <-- implemented by -- SystemLifecycle ----> MCSystemLifecycle (runs)
               \                            /            \----> LifecycleProofs (theorems)
                \-------> Parameters <-----/

    SafetySupervisor ----------------------> SupervisorProofs (theorems)
    CircularBuffer, TransformBuffer -------> BufferProofs (theorems)
         \--> SensorData, PointCloudView --> PerceptionProofs (theorems, with BufferProofs)
    PlannerNode ---------------------------> PlannerProofs (theorems)
    ConfigurationFreeze, LocalizerNode, NavState \
    all of these side by side: MCComponents (runs) >-> ComponentProofs (theorems, with
                                                       the others)

### 2.1 Mission control

* `ControlTopic`: the `easynav_control` topic. A queue per client and direction: ROS keeps the
  order of one publisher (reliable, depth 100) and nothing orders two. A goal list is a sequence of
  poses; a message otherwise is its type. `told` is a history variable: whether the last word *on a
  mission* sent to a client accepted or ended one.
* `GoalManager`: `control_callback()` (one operator for each type of message), the `goal_pose`
  topic, messages of publishers that follow no protocol, `update()` with its two early returns, the
  part of `SystemNode::system_cycle()` that forces the planner, and what the recovery system may do
  last in the cycle (`abort_mission`) or at any time (`set_progress_held`). An `update()` of a mission is cut in two
  where it tests the hold, as the RT thread may set or release it between that test and the erasure of a goal that
  was reached: `system_cycle` goes up to the test, whose result is `found_held`, and `check_cycle` is the rest, up to
  the planner. The copies `last_synced_*` that `update()` compares with before it writes to NavState are variables, as
  both halves do. `recovery_cycle` comes last; callbacks are delivered only between two cycles (`phase = "spin"`), as both
  belong to one thread. History variables: `pause_ordered` (the last order taken of this mission is a pause), `held_late`
  (the hold came between test and erasure), `taken` (goals taken since the hold). `goals_revision_` is
  used by the code only through its difference with the revision planned last, which is `revised`.
* `GoalManagerClient`: the calls of a program and the callback of each client; the answers that
  each state expects are the functions of `Expected`, everything else is the state `ERROR`.
* `MissionControl`: the composition, the fairness, the properties.
* `Mission`: the abstract specification: at most one client holds the robot; `Grant` tells it
  ACCEPT and tells the one it takes it from that its mission ended; `End` tells the holder. The
  refinement maps the holder to `current_client_id_` while `state_` is ACTIVE.

Abstracted: poses (one model value), distances (whether the robot is at its goal is left open in each
`check_cycle`), the update period (it only throttles feedback, so `publish` is left open), status texts.
`set_failed()` is never called by the program and is left out.

### 2.2 Velocity output

* `VelocitySmoother`: the operators `step_axis`, `within_radius`, `clamp`, `step`, `reached` and
  `limited_by`, over integers of a fine unit. A twist is `linear.x` and `angular.z`, the two axes
  coupled by the turning radius; the other axes of the code are treated like `linear.x` without the
  coupling, and are left out. The radius is given by its inverse so that no value is rounded. The
  tolerance with which the code compares two twists is equality here.
* `VelocityOutput`: the commands proposed in NavState, the mux, the guard, and ControllerNode with
  its lifecycle; the RT cycle in three steps (controller, recovery, output) under `rt_mutex_`, and
  the other thread's configuration, activation, deactivation, shutdown and stop ramp. Times are ages;
  between two outputs the clock moves by any of `ClockSteps`, one of which is negative: it may jump
  back. Ages are capped one above the longest period they are compared with, which nothing tells
  apart.

Left open: which commands the sources propose (within the limits, beyond them, NaN), whether a plugin
runs or throws, and what the supervisor reports (`safety_status`, `inhibit_motion`). A stop ramp may be
cut at any step by its deadline. History variables: `silence` (how long nobody commanded the robot),
`asked` (somebody asked it to move since the activation), `elapsed` (the step of the last output).

### 2.3 System lifecycle

* `Parameters`: partial assignments of the parameters and one of them over another (`Overridden`),
  which is what `std::map` of originals, previous values and changes is used for.
* `Reconfiguration`: the abstract specification: a request applies as a whole (`Apply`) or the first
  values of everything that was changed come back together (`Restore`).
* `SystemLifecycle`: the lifecycle state of SystemNode and of its subnodes (`sys`, `sub`), and the two
  threads. The **main thread** (`main` says where) runs start-up, the non-RT loop,
  `apply_pending_reconfigure()` with `restart_with()`, and the end; a transition it triggers goes
  subnode by subnode (`at`), in the order in which the code's map holds them, one step for each, so that
  the other thread sees every half-way state. The **RT thread** (`rt`) looks at the lifecycle
  state without the mutex, then takes it, tests `active_`, and cycles. A cycle of either thread may ask for
  what a recovery manager can ask for: changes, restoration, a hold, a shutdown. `manager` is `manager_` of the recovery
  node, and `hold` is what the goal manager keeps of a hold: every callback of a manager (`initialize()`, `on_activate()`,
  `on_deactivate()`, its cycles) may set or release it once there is a goal manager (`Holds`), and `set_manager`
  releases it when it unloads one, whoever asked. A manager that throws in `initialize()` was never loaded, so that what
  it asked for stays: that hold is an `"orphan"` until somebody releases it, or a later manager goes away.

A step may fail for some values of the parameters (`Faulty`): *configure* for any subnode or for the
checks before and after them all; *activate* and *deactivate* for the manager of the recovery node, whose exception
takes its node to Unconfigured; *set* for a value that a node refuses. As in the code, a failed
deactivation ends in Active, a failed activation in Inactive, a failed configuration in
Unconfigured. While new values are set and activated, RT cycles may run over values that are taken back
afterwards: `effective` is what the restart has committed to, and the refinement is about that.

Left out: the lifecycle services and parameter services of ROS called from outside the process; requests made from
`initialize()`, `on_activate()` and `on_deactivate()` of a manager, other than holds; the safety mode's refusal of reconfigurations;
second and third signals.

### 2.4 Safety supervision and configuration

* `SafetySupervisor`: SystemNode's transitions as the supervisor sees them (`on_configured`,
  `on_activate`, ...), its RT cycle as one action (`RtMonitor`, heartbeat, safety channel, age of
  the pose, the three reports), statuses that arrive at any time once there is a subscription, poses,
  and two clocks: the steady one, which only advances, and ROS time, which may stand still or jump back.
  `VelocityOutput` leaves `safety_status` and `inhibit_motion` open, which allows more than what
  this module puts there. History variable: `permitted` (what the last status said).
* `ConfigurationFreeze`: the main thread's configuration in the code's order (checks, fingerprint,
  dump, freezing) with parameters that anyone sets, or a plugin declares, between two steps; a
  configuration that fails is tried again; the process may crash anywhere and start again over the files it
  left. A hash is the dump it is taken of, so that a collision of SHA-256 is left out.
  A file has a `content`: `"open"` while its stream is (and for ever if the process dies meanwhile), then `"whole"` or
  `"cut"`. The code asks the stream whether it failed before it is closed, and what is still to be flushed then may be
  lost unseen, so that `written` goes on to the rename with either.

### 2.5 Data

* `CircularBuffer`: the ring as a record, one operator per operation (each holds the mutex throughout).
* `SensorData`: the handlers that SensorsNode keeps, which a failed configuration does not remove; the ring in
  which a point perception keeps clouds until TF can transform them; `check_data_age()` and the report of what changed.
  A cloud is its stamp. Two history variables: `arrived`, for each perception, is what was in its ring when it last
  lost a cloud because it was full, and all that arrived since; `expired` says that the age check refused what is shown
  and nothing arrived since.
* `PointCloudView`: `PointPerceptionsOpsView` over perceptions that the RT thread replaces and invalidates meanwhile:
  eager and lazy filters, fusion into any frame, any number of times, downsampling, collapse, additions, in any order. A
  fusion keeps the indices and a filter that was kept for later. A frame is where it is on the axis along which transforms
  move points. History variable: `last`, for each perception, is the last filter it was given and in which frame,
  while the cloud is the one it was given for.
  Points have two coordinates, one of which transforms shift, and the other collapses.
* `NavState`: every section under `state_mutex_` is an action; `group_mutex_` is held over several of them, so that
  `set_group`, `add_to_group`, `get_group` and `get_no_group` are steps of a thread.
* `TransformBuffer`: `lookup_transform` with tf2's failures, `canTransform`, the timeout and the extrapolation from
  two further answers of tf2, each a step, while the listener adds transforms and tf2 forgets. Frames are
  a chain on one axis, so that a twist is a speed.

### 2.6 Plugins

* `PlannerNode`: the node, `PluginSwitcher::configure()`/`release()` (all listed plugins or none),
  MethodBase's schedule (`is_time_to_run`, `set_run`, runs triggered between two), `RateMonitor`, and
  `check_path()` with its diagnostics. Points of time are kept relative to now. The other nodes have the
  same lifecycle, and their plugins the same schedule.
* `LocalizerNode`: both loops run the plugin while the main thread loads, releases and replaces it; a loop
  keeps the one it runs alive. `check_last_known_pose()` is in the code's steps. The cycles run whatever the
  state of the node is, which allows more than SystemNode does.

Left out of 2.4 to 2.6: texts and logs; `has()` and `has_group()`, which take no lock; what NavState keeps of a
handler that was released, SensorsNode's groups and the `new_data` flag; rotations, fields and conversions of
clouds; what a thread reads of a cloud while another one writes it (here the old or the new cloud); parameters that
a released plugin leaves declared.

## 3. The runs

| Run | Question | Bounds |
|---|---|---|
| `mission` | Two clients, every order of messages: is each told the truth (`ImplementsMission`, `NavigatingHolds`), is a mission paused by its own orders only (`PauseIsOrdered`)? | 2 clients (symmetric), 4 messages to the manager, lists of 1 or 2 goals, 1 unread word before feedback is withheld |
| `mission_cycle` | One client and publishers outside the protocol, a recovery system that aborts, and holds from the RT thread at any step, both preemption policies: do cycle, NavState and planner keep up; is every goal answered and every end published? | 3 messages, 2 unread words |
| `end_published_first`, `client_pause`, `unlocalized` | What the repository says and the code does not do (section 5) | 1 client, 4 messages |
| `velocity` | What reaches the driver under every interleaving of controller, recovery, safety channel, pause and lifecycle | limits of 2 units, 3 kinds of command up to 3 units, 3 channel states, clock steps -1 and 2, timeout 2, keepalive 3 |
| `velocity_rest` | Does a robot that is stopped for good come to rest? | fewer commands and channel states; clock steps 0 and 1 |
| `lifecycle` | Start-up, reconfigurations, restorations, shutdowns and signals at any time, with every step that may fail: what do the cycles run over, what becomes of parameters and holds, does it end? | 3 subnodes with the recovery node in the middle, 2 parameters, 3 values, 3 requests |
| `components` | Do the components of 2.4 to 2.6 keep what they promise, each with its threads, clocks, failures and restarts? `part` says which one a behaviour is about, so that the run is nine searches, one after the other | 711,393 states; bounds below |
| `expired_data` | What the repository says and the code does not do (section 5) | the sensors alone |
| `shutdown`, `restoration` | What the repository says and the code does not do (section 5) | failures of deactivation only, of activation only; 2 requests |

Why these bounds are enough. *Missions*: every conflict of the protocol is between the current client and one other
user; 4 messages hold a goal, its preemption, an order that crosses it and one more goal, and two
waypoints are the shortest list whose first goal does not end the mission. `MaxUnread` only bounds
how many FEEDBACK words pile up for a client that does not read; accepts and endings are never
withheld. *Velocities*: limits of 2 units with steps of 1 leave a speed strictly between rest and
the limit on either side, 3 is beyond it, a channel limit of 1 is below it; the timeout and the keepalive
differ, so that each expires alone. *Lifecycle*: a failure is at the first, a middle or the last subnode, which
three subnodes tell apart, and the one that fails by itself in the middle has one before
and one after it; three requests are a change, a second one over the same parameter or beyond it, and a restoration;
one of the requests names a parameter that does not exist, one value may be refused and one request
changes both parameters, so that a request may be half set.

*Components* share no state, so that they are searched apart and not in all combinations. Ages are capped one
above what they are compared with. *Supervisor*: late cycles up to the second, statuses that move, stop, limit and are
invalid; poses are explored apart from statuses and from late cycles (`SupervisorPart`), since none of the reports reads
another's state; the theorems of section 4 do without that. *Freeze*: the safety mode and one parameter of a plugin, two values each; files of at most two configurations in the directory, since a
file says nothing of one with another name.
*Sensors*: one point perception, one that keeps its last message, one whose handler shows no perception, two configurations of which
one may fail after its first handler; a ring of two, stamps up to 3, so that a full ring and clouds out of order occur.
*NavState*: two threads, a group and two keys. *Transforms*: two frames that move, one of which sets off on the way, and a fixed
one, stamps up to 5, a window of 2, a cache of 3. *Views*: two frames, two perceptions, of which the first starts in one of the frames while any may be fused into, two
clouds, of which one is empty, two bounds. *Planner*: a period of 3 steps, which a check may miss; `schedule` explores
the windows of the RateMonitor without paths, little more than one window long or long enough to count as several, and
`path` paths without windows; without plugins no time is counted, since to load one starts everything anew. The window has 3 runs where the code has 10 (`kWindowPeriods`): with 2, an edge that
cuts a run makes a plugin on time look slow, and one of 9 has four million states; the theorem of section 4 is about
any window of 9 runs or more. *Localizer*: three plugins, each loaded
once, so that one is replaced, and its successor too.

Fairness. `mission_cycle`: the executor delivers every waiting message between two cycles and
cycles for ever (`exe_nort.spin_all` in the loop of `main`), hence strong fairness of `Receive`, which is
disabled during a cycle, and weak fairness of the cycle; the clients spin. Nothing is assumed of
programs, of the recovery system or of the robot reaching a goal. `velocity_rest`: the RT thread loops (weak fairness
of its steps) and its clock advances infinitely often (strong fairness of an output with `d > 0`); the antecedent of
`ComesToRest` says that the system stays active. `lifecycle`: each thread runs (weak fairness of its
steps). The mutex needs no more: the main thread waits for it only in transitions that leave
the state in which the RT thread would enter another cycle. Nothing is assumed of requests,
failures or signals.

CHECK_DEADLOCK is off where a bounded number of messages or the end of the process stops the model.

`components` has no liveness: what these components owe is said of each cycle, and who runs the cycles is
`lifecycle`'s matter. `LastPoseFirst` is checked there as a part of `TypeOK`.

Each property has a mutant: a plausible bug in a mapped definition (its comment in the module starts
with "Mutant") with which TLC finds that property violated in the same run.

## 4. The proofs

`MissionProofs` proves for every set of clients, every set of goals and goal lists, and every value of
the bounds (assumptions: `TopicAssumption` and `ManagerAssumption`, which say that the ids differ and
that a requested list has goals):

* `TypesAndGoals`, `MissionTypes`: `Spec => [](TypeOK /\ ActiveHasGoals /\ ToldIsHeld)`;
* `BelievesToNavigate`: `Spec => []NavigatingHolds`;
* `MissionImplemented`: `Spec => ImplementsMission`, that is, the whole of the manager, its topic and its
  clients implements `Mission`;
* `PauseFollowsOrders`, `HoldKeepsGoals`, `CycleSyncs`: `PauseIsOrdered`, `HeldKeepsGoals` and
  `CycleSyncsMission`;
* `PlanFollowsGoals`: `PlanIsCurrent`, for a robot that has a pose from the start (`Localized`); without that it
  does not hold (section 5).

The inductive invariant is `TypeOK /\ ActiveHasGoals /\ ToldIsHeld`. `ActiveHasGoals` (active if and only
if there are goals) is needed since `update()` ends a mission when no goal is left, and `check_goals()`
reads the first one. `ToldIsHeld` (the last word on a mission that a client was sent is an
accept if and only if it holds the robot) is what lets a step of the manager map to a step of
`Mission`: without it, a step that tells a client what it was told already could not be told from
one that changes its mission. The refinement then takes one lemma for each way in which
a handler publishes: nothing on a mission (stutter), an accept (`Grant`), an end (`End`). The others take
`CycleInv` besides: goals that were taken out of NavState (`goals_synced_empty`) are those of no mission (`Synced`),
NavState has what `update()` remembers to have written (`LastSynced`), the mission in the middle of its `update()` is the one
NavState was given (`CheckSynced`), and a hold that the test of this `update()` did not see came after it and cost no goal yet
(`HoldSeen`).
`NavigatingHolds` takes `BelievesRight`, over the contents of the queues: a client that navigates without holding the
robot has an ending among its unread words, and every ACCEPT among them that no longer stands has one behind it. A
client that reads a word keeps that, since what it becomes is decided by the word alone.

`VelocityProofs` proves for any limits that the node accepts, any commands of the sources, any states of the safety
channel, any steps of the clock and any timeouts (`OutputAssumption`):

* `OutputSafe`: `Spec => [](TypeOK /\ StoppedOutside /\ SmootherTracks /\ NothingStale)`, and each part of it by
  itself (`VelocityTypes`, `SmootherKeepsTrack`, `NothingStaleMoves`);
* `StopsProtected`, `MovesSmoothly`, `StaysWithinLimits`, `AbandonedRobotBrakes`, `DriverKeptAlive`: the action properties
  `ProtectiveStop`, `SmoothMotion`, `WithinLimits`, `AbandonedBrakes` and `KeptAlive`.

They rest on lemmas about the smoother's operators (`StepAxis`, `WithinRadius`, `ClampType`, `Step`, `StepBrakes`) over
all integers, and on one lemma that says what an output is (`OutputStep`). The invariant, `OutputInv`, adds to the
properties: `Running` (an RT cycle is under way only with `active_`, and then the controller is
Active with its publisher), `Tracking` (`last_published_zero_` and the last choice tell the truth of a robot that is
executing a stop: without it a cycle that sends nothing under a protective stop could leave the robot moving) and
`Quiet` (what a robot that nobody asked to move has in NavState and in the mux). `AbandonedRobotBrakes` takes `Counting`:
the guard's age of the last proposal is never behind the silence of the sources, whatever the clock does.

`LifecycleProofs` proves for any number of subnodes, any parameters, values and changes, and any steps
that may fail (assumption: `LifecycleAssumption`, which says that changes are assignments of values and that
the recovery node is one of the subnodes):

* `LifecycleSafe`: `Spec => [](TypeOK /\ CyclesOverActive /\ UnconfiguredIsClean)`, and `LifecycleTypes` and
  `UnconfiguredStaysClean` by themselves;
* `HoldIsOwned`: `Spec => []HoldHasOwner`;
* `ReconfigurationImplemented`: `Spec => ImplementsReconfiguration`.

The first takes the invariant `SafetyInv`: `Stage` (which transition the main thread can be waiting for at each
place), `Progress` (which subnodes a transition under way has already taken along) and `Gate` (`active_` is open
only while every subnode is active, and closed with the mutex before the first one is not). Neither
is enough alone: that a finished activation may open the gate is `Progress`, and that nothing but a deactivation
follows while it is open is `Stage`. `HoldHasOwner` is inductive: that the
recovery node has a manager exactly while it is configured is what says of every unloading that it releases. The refinement takes `Restart`, which says
what a restart has set and what it replaced: the parameters that are being tried are
exactly those that `effective` hides (`OverriddenHides`), until all of them are set and active (`OverriddenApplied`).

`SupervisorProofs` proves for any thresholds, statuses and steps of the clocks (`SupervisorAssumption`), without the
constraint of the run: `MovesOnWordOnly` (`LostIsStopped`), `ReleasedByPoseOnly` (`InhibitedUntilUsable`) and
`DiagnosticsAreTrue` (`ReportsAreTrue`). The invariant, `SupervisorInv`, adds to the types that the monitor's
last status is the one of `permitted` (`WordKept`), that safety mode is frozen and a robot is inhibited in safety mode
only (`ModeKept`), and that what was reported last is what the diagnostics say, or was forgotten
(`RtReportKept`, `ReportsKept`): reports of changes only are true because of that. `DiagnosticsAreTrue` is about both directions of
the RT cycle and of the safety channel, and about poses that cannot be used; a pose that can be used may leave an earlier ERROR
(section 5), and nothing is stated of it.

`ComponentProofs` proves, each for any value of its module's constants:

* `ConfigurationFrozen` (`FrozenConfiguration`) from `FreezeInv`: besides the property, what was fingerprinted is what the nodes
  have from the fingerprint on (`Fingerprinted`), and the frozen values are those that the nodes declared;
* `DumpIsClosed` (`RenamedOnceClosed`) from `SavedInv`: what is renamed was closed; that it is whole does not hold (section 5);
* `PoseHandedOver` (`LastPoseFirst`) from `LocalizerInv`: `HandOver` adds that a localizer whose check has not begun was told nothing, and that
  the one that left the last pose has its own check behind it. It says that the pose is handed over at most once and before
  any update, not that it is handed over;
* `GroupsStayConsistent` (`GroupsAgree`) from `NavInv`: a thread inside an operation on groups holds the mutex
  (`HoldsLock`), and nobody else leaves a list half-updated (`StoredElseAgrees`). A member of a group may have no value: `set_group` and
  `add_to_group` take any keys;
* `ComponentsTyped` (`TypeOK` of `MCComponents`): a behaviour of the run's composition, of which each step is one of a single
  component, is a behaviour of every component (`EachComponentBehaves`), so that what is proved of each one holds in it.

`BufferProofs` proves for any capacity and items that `push()` adds behind the others, dropping the oldest item of a full
buffer (`PushIsEnqueue`), and that `pop()` gives and removes the oldest (`PopIsDequeue`), both keeping `IsRing`: the next slot
to write is behind the items. A new buffer is empty (`NewIsEmpty`). They rest on lemmas about indices modulo the
capacity. It proves besides, for any number of frames, any motions, windows, caches and maxima (`TransformAssumption`):

* `TransformTypes`: every state of a lookup is of its types;
* `AnswersAlwaysTrue` (`AnswersAreTrue`) from `TransformInv`, which says of a lookup that goes on from tf2's latest transform
  that this transform is still known, and is behind the time that is asked by no more than the maximum (`Found`): the
  listener only adds, and what tf2 forgets is asked for again, and then refused. That the prediction is exact takes two lemmas:
  positions under one speed are a progression (`Progression`), so that the division by the window is exact (`Divides`).

`PerceptionProofs` proves for any clouds, frames, bounds and sensors, any capacity of the ring, any order of arrival
and any window of TF (`ViewAssumption`, `SensorAssumption`):

* `ViewTypes`, and `ViewInFrameAndBounds` (`InFrameAndBounds`) from `ViewInv`: a perception that had data at the last fusion is
  in the target frame of that fusion or has an entry for its transform (`Framed`), and the points that its indices leave of the
  cloud as it is now are within the last filter given, in the frame it was given in, or that filter is still to be applied
  (`Filtered`). A filter that is kept says nothing of a frame until `as_points()` applies it, in the frame of the last fusion; one
  that was applied at once holds in its own frame whatever the view is fused into later. Neither the RT thread, nor a lazy
  operation, nor a second fusion can be shown to keep the property without this distinction;
* `SensorsTypes`, and `StaleIsAlwaysReported` (`StaleIsReported`) from `SensorsInv`: the diagnostics are those of the states
  that were found last, unless none was reported since the configuration, and a sensor that exposes nothing counts as one
  without data (`Diagnosed`). An unconfigured node is left out: a configuration that fails leaves more handlers than states;
* `NewestUsableShown` (`NewestUsable`) from the same invariant: whatever arrived is in the ring, or is older than something there
  that TF knows already (`Covered`), so that it would not be shown any more. `RebuiltHolds` and `SelectedIsNewest` say
  what draining and filling the ring again leaves.

An earlier form of `NewestUsable` said so of the last `BufferSize` arrivals. TLC found it true of a ring of two; its proof
failed, since it is false of larger ones, in which older clouds that arrive late may push out newer ones that have no transform
yet. What is promised is what `arrived` says now.

`PlannerProofs` proves for any period and jumps of the clock of any length, ahead or to before the last run:

* `PluginsRunOnTime` (`RunsOnTime`) from `ScheduleInv`: the next run is at most a period behind the last one
  (`NextIsNear`), and what the runs lag behind since one was triggered is how late the next one is (`LagIsLate`);
* `PlannerReports` (`PlannerReportsAreTrue`), for windows of nine periods or more (the code has ten), from `RateInv` and
  `ReportInv`. `RateInv` says of a window under way that its age, and what is left until the next run, are accounted for
  by its runs and one more (`OnSchedule`); so a window can lack what an edge cuts and what a last run is late, which
  is less than the tenth that RateMonitor tolerates as soon as nine runs are expected. `ReportInv` says that the last thing
  that went wrong is what the diagnostics say;
* `PlannerTypes`, from `PlannerInv`, which takes the bounds of `ScheduleInv` and of a window under way together: the runs, ages and slow windows
  that are counted stay in the ranges that the runs were bounded to.

Induction. The provers cannot use a rule that takes an operator as a parameter, as the library's induction theorems do, but the
library also states that every nonempty set has a minimal element under a well-founded relation (`WFMin`).
`NatSetInduction` and `NatLeast` (`BufferProofs`) follow from it, over *sets* of naturals. The sums along a chain, the
rebuilt ring and the newest of the drained items are recursive functions or `CHOOSE`s over finite ranges, and their
lemmas take the set of the lengths for which they hold.

Only model-checked: the liveness properties (`EveryGoalAnswered`, `EndIsPublished`, `ComesToRest`, `ShutdownEnds`,
`ReconfigureAnswered`), which are out of the prover's reach, as it knows nothing of `ENABLED`, of which fairness is made. Every
invariant and action property of a passing run is stated by a theorem.

## 5. What the code does not do

* `end_published_first`: a mission cancelled, aborted or preempted, and followed by another one
  before the next `update()`, never has its end published on the information topic: `accept_request()` replaces
  the information of the last mission. Its comment says that the end of a mission "will be published, however it
  ends".
* `client_pause`: a client that replaces a goal it had paused believes for ever that it is paused
  (`is_paused()`), while the manager resumed with the new goal.
* `unlocalized`: a goal taken before the robot has a pose forces the planner in a cycle in which
  NavState does not have the goal (`update()` returned early), and does not force it once it has.
  `PlanIsCurrent` holds with a pose (`mission_cycle`).
* `shutdown`: `on_deactivate()` fails at the first subnode that does not become Inactive, before it asks whether
  a shutdown was requested. A recovery manager that throws when it is deactivated leaves SystemNode
  Active, and the process ends without the Finalized that its header announces.
* `restoration`: when a subnode does not activate with the new values, the subnodes before it stay Active, the
  cleanup that should precede the previous values fails over them, and the process shuts down instead of restoring
  them.
* `expired_data`: a point perception that `check_data_age()` invalidated, "Nothing uses it until new data arrives",
  is valid again when the other thread fuses a view: `integrate_pending_perceptions()` sets `valid` whenever its ring
  holds anything, and what was shown stays in the ring.

Without a run of their own, and in the models as the code has it, three statements of the repository that hold in part:

* "While held, ... no goal is taken as reached" (`SystemActions.hpp:58`): a hold that the RT thread sets after `update()`
  tested it (`GoalManager.cpp:508`) and before a reached goal is erased is too late for that goal.
  `HeldKeepsGoals` allows for that one and for no other.
* A recovery system that goes away releases its hold (`RecoveryManagerNode.cpp:157`; "unloading the recovery system
  releases the hold", `docs/recoveries_easynav.md:459`): a manager that holds in its `initialize()` and then throws was never
  handed to `set_manager()`, so that nothing releases its hold (`initialize_failed`). `HoldHasOwner` is about those that were.
* "Written aside and renamed: never a half-written file under the final name" (`ConfigurationFingerprint.cpp:231`): the stream is
  tested before it is closed, so that a flush that fails at its closing gives a cut file its final name; and as
  the name exists then, `save_dump()` never writes it again. `RenamedOnceClosed` says what does hold.

Met while modelling, and in the models as the code has it, without a property that a document states: a filter that is kept
for later is not bound to the frame for which it was given, and a second `fuse()` into another frame takes it along, to be applied
there (`InFrameAndBounds` says so); a pose's
ERROR diagnostic is not cleared by a usable pose after an activation has reset `last_pose_stale_`
(`ReportsAreTrue` says so only of unusable poses); an eager filter empties the indices of a perception whose
transform failed, and a later fusion that succeeds does not bring them back; points added with `add()` after
`fuse()` are taken to be in the target frame; `collapse()` that is not lazy changes the clouds of the container the view
was given; time 0 asks tf2 for its latest transform, so that an extrapolation from a window that begins at 0
uses two equal transforms (`AnswersAreTrue` excludes that stamp); a REJECT does not say which message it answers, so
that a client may take the answer to an early pause for that to its goal; a run that is triggered when the scheduled one
was late starts the schedule anew, so that a plugin to which that happens again and again runs less often than its
frequency and is reported as slow (`prompt` leaves it out of `PlannerReportsAreTrue`).

Hazards that the properties cover in part (`PROJECT.json` says which part): the hold of a manager that fails to initialize, a flush
that fails unseen, a usable pose after an activation, and a last pose that is not handed over at all. Two conditions do
not occur in the runs: in `velocity` the angular limits never bind (the theorems are for any limits), and in `PlannerNode` a
clock that jumps back always lands before the last run of the plugin, so that a shorter jump, which the code takes for a check
that comes early, is left out of the run and of the theorems.

## 6. Not modelled

* RealTime: calls of the operating system, without a state of its own. easynav_tools: presentation. Dummy and
  fault-injection plugins: what any plugin may do is left open in the models.
* MapsManagerNode's cycle: one plugin after the other, each with the schedule of `PlannerNode`.
* What section 2 names as left out, and the hazard at `GoalManagerClient.cpp:88`, for which the protocol has no
  identity that a property could refer to.

## 7. Plan

1. Mission control: modelled and checked, refinement and safety proved.
2. Velocity output: modelled and checked, all but its liveness proved.
3. System lifecycle: modelled, checked; its safety invariants and its refinement proved.
4. Safety supervision and configuration: modelled, checked and proved.
5. Data and plugins: modelled, checked and proved: NavState, the hand-over between localizers, the ring, the sensors and
   their views, the lookups, the schedule of the plugins and their reports.

Left: the second and third signals of `system_main`; the groups of SensorsNode and the `new_data` flag; one model of
`SafetySupervisor` composed with `VelocityOutput`, in place of the open `safety_status`, and a theorem that a lost
channel stops the robot through both; that `RTTFBuffer`'s answers are those that `SensorData` assumes of TF.
