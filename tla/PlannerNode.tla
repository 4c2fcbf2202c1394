----------------------------- MODULE PlannerNode ---------------------------
(***************************************************************************)
(* easynav_planner's PlannerNode and what it is made of: the PluginSwitcher *)
(* that loads its plugin, the schedule that MethodBase gives a plugin, and *)
(* the RateMonitor that watches if it is kept.  The other nodes of plugins *)
(* have the same lifecycle and their plugins the same schedule.            *)
(*                                                                         *)
(* The clock is ROS time: it moves one step at a time, jumps forward and   *)
(* jumps back.  Points of time are kept relative to now: "next_in" is      *)
(* next_ts - now, and so on.                                               *)
(***************************************************************************)
EXTENDS Integers, Sequences

CONSTANTS Types,             \* the lists that planner_types may hold
          Working,           \* the plugins that can be loaded and initialized
          Period,            \* 1 / frequency
          WindowPeriods, Jump

ASSUME PlannerAssumption ==
  /\ \A list \in Types : \A i \in DOMAIN list : list[i] \in STRING
  /\ Period \in Nat \ {0} /\ WindowPeriods \in Nat \ {0} /\ Jump \in Nat

RateStatus == {"OK", "WARN", "ERROR"}
MaxSlowWindows == 3
MaxPlugins == 1
RateWindow == WindowPeriods * Period

VARIABLES
  planner_node, plugins_,
  next_in, since_run,                      \* Cycle
  monitor, reported,                       \* its RateMonitor and the last report
  path, last_path_finite_, path_level,     \* NavState: the path, diagnostics.path
  rate_level,                              \* and diagnostics.<plugin>.rate
  checking,                                \* cycle() has yet to check the path
  since_check, prompt, tracked, lag        \* history

scheduleVars == <<next_in, since_run>>
historyVars == <<since_check, prompt, tracked, lag>>
pathVars == <<path, last_path_finite_, path_level>>
plannerVars == <<planner_node, plugins_, scheduleVars, monitor, reported, pathVars, rate_level,
                 checking, historyVars>>

\* "prompt": since the activation, the schedule was checked at least once a
\* period, the clock did not jump ahead, and no run was triggered that was late:
\* the schedule starts anew from that one.  "tracked": since the last run that was
\* triggered, the schedule was checked at least once a period and the clock did not
\* jump.  "lag": the time since then that the scheduled runs after it, a period
\* each, do not account for.

\* Ages and runs beyond which nothing changes, and how far back the clock may be.
MaxRuns == MaxSlowWindows * WindowPeriods
Cap(age) == IF age > MaxSlowWindows * RateWindow THEN MaxSlowWindows * RateWindow ELSE age
Ages == -Jump .. MaxSlowWindows * RateWindow

MonitorReset ==
  [started |-> FALSE, elapsed |-> 0, since_update |-> 0, runs |-> 0, slow_windows |-> 0, status |-> "OK"]

PlannerTypeOK ==
  /\ planner_node \in {"unconfigured", "inactive", "active"}
  /\ Len(plugins_) <= MaxPlugins
  /\ planner_node = "unconfigured" => plugins_ = << >>
  /\ next_in \in Int /\ since_run \in -Jump .. 0
  /\ monitor \in [started : BOOLEAN, elapsed : Ages, since_update : -Jump .. 0, runs : 0 .. MaxRuns,
                  slow_windows : 0 .. MaxSlowWindows, status : RateStatus]
  /\ reported \in RateStatus \cup {"none"}
  /\ path \in {"none", "finite", "non_finite"}
  /\ last_path_finite_ \in {"none", "finite", "non_finite"}
  /\ path_level \in {"none", "OK", "ERROR"} /\ rate_level \in {"none", "OK", "WARN"}
  /\ checking \in BOOLEAN
  /\ since_check \in 0 .. Period /\ prompt \in BOOLEAN /\ tracked \in BOOLEAN /\ lag \in Int

PlannerInit ==
  /\ planner_node = "unconfigured" /\ plugins_ = << >>
  /\ next_in = 0 /\ since_run = 0
  /\ monitor = MonitorReset /\ reported = "none"
  /\ path = "none" /\ last_path_finite_ = "none" /\ path_level = "none"
  /\ rate_level = "none"
  /\ checking = FALSE
  /\ since_check = 0 /\ prompt = FALSE /\ tracked = FALSE /\ lag = 0

-----------------------------------------------------------------------------
(* The lifecycle.                                                          *)

\* PluginSwitcher: everything that is listed is loaded, or nothing is kept.
\* MethodBase::initialize() starts the schedule.
configure ==
  /\ planner_node = "unconfigured"
  /\ \E list \in Types :
       IF Len(list) <= MaxPlugins /\ \A i \in DOMAIN list : list[i] \in Working
       THEN plugins_' = list /\ planner_node' = "inactive"
       ELSE UNCHANGED <<plugins_, planner_node>>
  /\ IF plugins_' # << >>
     THEN next_in' = Period /\ since_run' = 0 /\ monitor' = MonitorReset /\ reported' = "none"
     ELSE UNCHANGED <<scheduleVars, monitor, reported>>
  /\ UNCHANGED <<pathVars, rate_level, checking, historyVars>>

\* The time inactive is not slowness.
activate ==
  /\ planner_node = "inactive" /\ planner_node' = "active"
  /\ monitor' = IF plugins_ # << >> THEN MonitorReset ELSE monitor
  /\ since_check' = 0 /\ prompt' = TRUE /\ tracked' = FALSE /\ lag' = 0
  /\ UNCHANGED <<plugins_, scheduleVars, reported, pathVars, rate_level, checking>>

deactivate ==
  /\ planner_node = "active" /\ planner_node' = "inactive"
  /\ UNCHANGED <<plugins_, scheduleVars, monitor, reported, pathVars, rate_level, checking,
                 historyVars>>

release ==
  /\ planner_node = "inactive" /\ planner_node' = "unconfigured"
  /\ plugins_' = << >>
  /\ UNCHANGED <<scheduleVars, monitor, reported, pathVars, rate_level, checking, historyVars>>

-----------------------------------------------------------------------------
(* RateMonitor.                                                            *)

start_window(m) == [m EXCEPT !.started = TRUE, !.elapsed = 0, !.since_update = 0, !.runs = 0]

\* Mutant: a window edge that cuts a run makes the window slow.
slowAtEdge(m) == 10 * Period * m.runs < 9 * m.elapsed

\* Fewer runs than 90 % of those expected, one more for the edge of the window.
slow(m) == 10 * Period * (m.runs + 1) < 9 * m.elapsed

\* A long gap counts as every window it spans.
slow_windows(m) ==
  IF ~slow(m) THEN 0
  ELSE LET n == m.slow_windows + m.elapsed \div RateWindow
       IN IF n > MaxSlowWindows THEN MaxSlowWindows ELSE n

update(m) ==
  IF ~m.started \/ m.since_update < 0 THEN start_window(m)
  ELSE IF m.elapsed < RateWindow THEN [m EXCEPT !.since_update = 0]
  ELSE LET n == slow_windows(m)
       IN [m EXCEPT !.slow_windows = n, !.elapsed = 0, !.since_update = 0, !.runs = 0,
                    !.status = IF n = MaxSlowWindows THEN "ERROR" ELSE IF n > 0 THEN "WARN" ELSE "OK"]

run(m) ==
  LET started == IF ~m.started \/ m.elapsed < 0 THEN start_window(m) ELSE m
  IN [started EXCEPT !.runs = IF @ < MaxRuns THEN @ + 1 ELSE @]

\* report(): an ERROR is a WARN for the others; only changes are written.
report(status) ==
  /\ reported' = status
  /\ rate_level' = IF reported = status THEN rate_level
                   ELSE IF status = "OK" THEN "OK" ELSE "WARN"

-----------------------------------------------------------------------------
(* The schedule.                                                           *)

Due == IF since_run < 0 THEN 0 ELSE next_in
is_time_to_run == Due <= 0

\* Mutant: a late run delays all the others.
scheduled_nextLate == Period

\* From the scheduled time; what is missed is lost.
scheduled_next == IF Due + Period <= 0 THEN Period ELSE Due + Period

-----------------------------------------------------------------------------
(* PlannerNode::cycle(), in two steps: the path is in NavState between      *)
(* them.  is_time_to_run() and set_run() take the same time for now.        *)

\* The plugin sets a path or none, and whatever it throws is caught.
update_path == path' \in {path, "finite", "non_finite"}

Cycling ==
  /\ planner_node = "active" /\ plugins_ # << >> /\ ~checking
  /\ checking' = TRUE
  /\ UNCHANGED <<planner_node, plugins_, last_path_finite_, path_level>>

internal_update ==
  /\ Cycling
  /\ since_check' = 0 /\ UNCHANGED prompt
  /\ report(update(monitor).status)
  /\ IF is_time_to_run
     THEN /\ next_in' = scheduled_next /\ since_run' = 0
          /\ monitor' = run(update(monitor))
          /\ update_path
          /\ lag' = IF tracked THEN lag - Period ELSE 0
          /\ UNCHANGED tracked
     ELSE /\ next_in' = Due
          /\ monitor' = update(monitor)
          /\ UNCHANGED <<since_run, path, lag, tracked>>

\* Triggered: the next run is a period from now, and nothing is reported.
force_update ==
  /\ Cycling
  /\ next_in' = Period /\ since_run' = 0
  /\ monitor' = run(monitor)
  /\ update_path
  /\ lag' = -Period /\ tracked' = TRUE /\ since_check' = 0
  /\ prompt' = (prompt /\ next_in >= 0)
  /\ UNCHANGED <<reported, rate_level>>

\* A path that is not finite is emptied.  Nothing to report until something goes
\* wrong; then, only changes.
check_path ==
  /\ checking /\ checking' = FALSE
  /\ path' = IF path = "none" THEN "none" ELSE "finite"
  /\ IF path = "none" \/ last_path_finite_ = path \/ (last_path_finite_ = "none" /\ path = "finite")
     THEN UNCHANGED <<last_path_finite_, path_level>>
     ELSE last_path_finite_' = path /\ path_level' = IF path = "finite" THEN "OK" ELSE "ERROR"
  /\ UNCHANGED <<planner_node, plugins_, scheduleVars, monitor, reported, rate_level, historyVars>>

-----------------------------------------------------------------------------
(* The clock.                                                              *)

clock_moves(by) ==
  /\ next_in' = IF next_in - by < -Period THEN -Period ELSE next_in - by
  /\ since_run' = IF since_run + by > 0 THEN 0 ELSE since_run + by
  /\ monitor' = [monitor EXCEPT !.elapsed = Cap(@ + by),
                                !.since_update = IF @ + by > 0 THEN 0 ELSE @ + by]
  /\ UNCHANGED <<planner_node, plugins_, reported, pathVars, rate_level, checking>>

clock_ticks ==
  /\ clock_moves(1)
  /\ LET late == since_check + 1 >= Period
     IN /\ since_check' = IF late THEN Period ELSE since_check + 1
        /\ prompt' = (prompt /\ ~late)
        /\ tracked' = (tracked /\ ~late)
        /\ lag' = IF tracked' THEN lag + 1 ELSE 0

\* Ahead of all that is remembered, or back to before the last run: by less, it is
\* a check that comes early.
jump ==
  /\ \E by \in {-Jump, MaxSlowWindows * RateWindow} :
       /\ by < 0 => since_run = 0 /\ monitor.since_update = 0
       /\ clock_moves(by)
       /\ prompt' = (prompt /\ by < 0)
  /\ tracked' = FALSE /\ lag' = 0
  /\ UNCHANGED since_check

PlannerNext ==
  \/ configure \/ activate \/ deactivate \/ release
  \/ internal_update \/ force_update \/ check_path
  \/ clock_ticks \/ jump

PlannerSpec == PlannerInit /\ [][PlannerNext]_plannerVars

-----------------------------------------------------------------------------
(* As long as its schedule is checked at least once a period, the runs of  *)
(* a plugin neither fall behind by a period, however late each of them is, *)
(* nor come before their time; and after any check, also when the clock    *)
(* has jumped, the next run is at most a period away (is_time_to_run(),    *)
(* set_run()).                                                             *)
RunsOnTime ==
  [][/\ tracked' => lag' \in -Period .. Period - 1
     /\ internal_update \/ force_update => next_in' \in 1 .. Period]_plannerVars

\* After a cycle the path in NavState is finite and its diagnostic says if it
\* was, whatever was reported before; a plugin whose schedule is checked in time
\* is never reported as slow, also when runs are triggered or the clock jumps back,
\* and the status that is reported is the monitor's (check_path(), report(),
\* RateMonitor).
PlannerReportsAreTrue ==
  [][/\ check_path => /\ path' # "non_finite"
                      /\ path_level' = "ERROR" <=> path = "non_finite"
     /\ internal_update => /\ prompt => update(monitor).status = "OK"
                           /\ rate_level' = "OK" <=> update(monitor).status = "OK"]_plannerVars
=============================================================================
