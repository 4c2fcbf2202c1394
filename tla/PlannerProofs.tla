---------------------------- MODULE PlannerProofs ---------------------------
(***************************************************************************)
(* For any period and jumps of the clock ahead or to before the last run,  *)
(* whatever their length: what the schedule of a plugin promises, and that *)
(* what is reported of it is true.                                         *)
(***************************************************************************)
EXTENDS PlannerNode, TLAPS

ScheduleTypes ==
  /\ next_in \in Int /\ since_run \in Int /\ since_run <= 0
  /\ since_check \in 0 .. Period /\ lag \in Int

\* The next run is at most a period behind the last one, as long as the last one
\* is not ahead of the clock.
NextIsNear == next_in + since_run <= Period

\* While the runs are tracked, what they lag behind is how late the next one is,
\* and less than what has passed since the last check.
LagIsLate ==
  tracked => /\ lag \in -Period .. since_check - 1 /\ since_check < Period
             /\ planner_node = "active" => next_in = -lag /\ since_run = 0

ScheduleInv == ScheduleTypes /\ NextIsNear /\ LagIsLate

LEMMA PeriodType == Period \in Nat \ {0} /\ Jump \in Nat /\ MaxSlowWindows * RateWindow \in Nat
<1>1. Period \in Nat /\ WindowPeriods \in Nat /\ MaxSlowWindows = 3
  BY PlannerAssumption DEF MaxSlowWindows
<1>2. RateWindow \in Nat
  BY <1>1 DEF RateWindow
<1> QED BY <1>1, <1>2, PlannerAssumption

LEMMA ScheduleInvInit == PlannerInit => ScheduleInv
<1> SUFFICES ASSUME PlannerInit PROVE ScheduleInv
  OBVIOUS
<1>1. ScheduleTypes /\ NextIsNear
  BY PeriodType DEF PlannerInit, ScheduleTypes, NextIsNear
<1>2. LagIsLate
  <2>1. ~tracked
    BY DEF PlannerInit
  <2> QED BY <2>1 DEF LagIsLate
<1> QED BY <1>1, <1>2 DEF ScheduleInv

\* The age of the last run grows to nothing, and the next one comes nearer.
LEMMA Moves ==
  ASSUME NEW by \in Int, ScheduleTypes, NextIsNear, clock_moves(by)
  PROVE  /\ next_in' \in Int /\ since_run' \in Int /\ since_run' <= 0 /\ NextIsNear'
         /\ next_in - by >= -Period => next_in' = next_in - by
         /\ since_run + by >= 0 => since_run' = 0
         /\ planner_node' = planner_node
BY PeriodType DEF clock_moves, ScheduleTypes, NextIsNear

LEMMA TicksKeep == ScheduleInv /\ clock_ticks => ScheduleInv'
<1> SUFFICES ASSUME ScheduleInv, clock_ticks PROVE ScheduleInv'
  OBVIOUS
<1>1. clock_moves(1)
  BY DEF clock_ticks
<1>2. /\ next_in' \in Int /\ since_run' \in Int /\ since_run' <= 0 /\ NextIsNear'
      /\ next_in - 1 >= -Period => next_in' = next_in - 1
      /\ since_run + 1 >= 0 => since_run' = 0
      /\ planner_node' = planner_node
  BY <1>1, Moves DEF ScheduleInv
<1>3. CASE since_check + 1 >= Period
  <2>1. ~tracked' /\ lag' = 0 /\ since_check' = Period
    BY <1>3 DEF clock_ticks
  <2>2. ScheduleTypes'
    BY <1>2, <2>1, PeriodType DEF ScheduleTypes
  <2>3. LagIsLate'
    BY <2>1 DEF LagIsLate
  <2> QED BY <1>2, <2>2, <2>3 DEF ScheduleInv
<1>4. CASE ~(since_check + 1 >= Period)
  <2>1. /\ since_check' = since_check + 1 /\ (tracked' => tracked)
        /\ lag' = IF tracked' THEN lag + 1 ELSE 0
    BY <1>4 DEF clock_ticks
  <2>2. ScheduleTypes'
    BY <1>2, <1>4, <2>1, PeriodType DEF ScheduleInv, ScheduleTypes
  <2>3. LagIsLate'
    BY <1>2, <1>4, <2>1, PeriodType DEF ScheduleInv, ScheduleTypes, LagIsLate
  <2> QED BY <1>2, <2>2, <2>3 DEF ScheduleInv
<1> QED BY <1>3, <1>4

LEMMA JumpKeeps == ScheduleInv /\ jump => ScheduleInv'
<1> SUFFICES ASSUME ScheduleInv, jump PROVE ScheduleInv'
  OBVIOUS
<1>1. PICK by \in {-Jump, MaxSlowWindows * RateWindow} : clock_moves(by)
  BY DEF jump
<1>2. by \in Int
  BY <1>1, PeriodType
<1>3. next_in' \in Int /\ since_run' \in Int /\ since_run' <= 0 /\ NextIsNear'
  BY <1>1, <1>2, Moves DEF ScheduleInv
<1>4. ~tracked' /\ lag' = 0 /\ since_check' = since_check
  BY DEF jump
<1>5. ScheduleTypes'
  BY <1>3, <1>4 DEF ScheduleInv, ScheduleTypes
<1>6. LagIsLate'
  BY <1>4 DEF LagIsLate
<1> QED BY <1>3, <1>5, <1>6 DEF ScheduleInv

\* A check finds or leaves the next run within a period.
LEMMA ChecksKeep == ScheduleInv /\ internal_update => ScheduleInv' /\ next_in' \in 1 .. Period
<1> SUFFICES ASSUME ScheduleInv, internal_update PROVE ScheduleInv' /\ next_in' \in 1 .. Period
  OBVIOUS
<1>1. planner_node = "active" /\ planner_node' = planner_node /\ since_check' = 0 /\ tracked' = tracked
  BY DEF internal_update, Cycling
<1>2. PICK due \in Int : due = Due /\ due = IF since_run < 0 THEN 0 ELSE next_in
  BY DEF Due, ScheduleInv, ScheduleTypes
<1>3. due <= Period
  BY <1>2, PeriodType DEF ScheduleInv, ScheduleTypes, NextIsNear
<1>4. tracked => due = next_in /\ due = -lag /\ due > -Period
  BY <1>1, <1>2, PeriodType DEF ScheduleInv, ScheduleTypes, LagIsLate
<1>5. CASE due <= 0
  <2>1. /\ next_in' = scheduled_next /\ since_run' = 0
        /\ lag' = IF tracked THEN lag - Period ELSE 0
    BY <1>2, <1>5 DEF internal_update, is_time_to_run
  <2>2. next_in' = IF due + Period <= 0 THEN Period ELSE due + Period
    BY <1>2, <2>1 DEF scheduled_next
  <2>3. next_in' \in 1 .. Period
    BY <1>5, <2>2, PeriodType
  <2>4. ScheduleTypes' /\ NextIsNear'
    BY <1>1, <2>1, <2>3, PeriodType DEF ScheduleInv, ScheduleTypes, NextIsNear
  <2>5. LagIsLate'
    BY <1>1, <1>4, <1>5, <2>1, <2>2, PeriodType DEF ScheduleInv, ScheduleTypes, LagIsLate
  <2> QED BY <2>3, <2>4, <2>5 DEF ScheduleInv
<1>6. CASE ~(due <= 0)
  <2>1. next_in' = due /\ since_run' = since_run /\ lag' = lag
    BY <1>2, <1>6 DEF internal_update, is_time_to_run
  <2>2. since_run = 0
    BY <1>2, <1>6 DEF ScheduleInv, ScheduleTypes
  <2>3. ScheduleTypes' /\ NextIsNear' /\ next_in' \in 1 .. Period
    BY <1>1, <1>3, <1>6, <2>1, <2>2, PeriodType DEF ScheduleInv, ScheduleTypes, NextIsNear
  <2>4. LagIsLate'
    BY <1>1, <1>4, <1>6, <2>1, <2>2, PeriodType DEF ScheduleInv, ScheduleTypes, LagIsLate
  <2> QED BY <2>3, <2>4 DEF ScheduleInv
<1> QED BY <1>5, <1>6

LEMMA TriggersKeep == ScheduleInv /\ force_update => ScheduleInv' /\ next_in' \in 1 .. Period
BY PeriodType DEF ScheduleInv, ScheduleTypes, NextIsNear, LagIsLate, force_update, Cycling

LEMMA ScheduleStays ==
  ScheduleInv /\ (configure \/ activate \/ deactivate \/ release \/ check_path) => ScheduleInv'
<1> SUFFICES ASSUME ScheduleInv PROVE configure \/ activate \/ deactivate \/ release \/ check_path
                                        => ScheduleInv'
  OBVIOUS
<1>1. ASSUME configure PROVE ScheduleInv'
  <2>1. \/ next_in' = Period /\ since_run' = 0
        \/ next_in' = next_in /\ since_run' = since_run
    BY <1>1 DEF configure, scheduleVars
  <2>2. since_check' = since_check /\ tracked' = tracked /\ lag' = lag
    BY <1>1 DEF configure, historyVars
  <2>3. planner_node' # "active"
    BY <1>1 DEF configure
  <2>4. ScheduleTypes' /\ NextIsNear'
    BY <2>1, <2>2, PeriodType DEF ScheduleInv, ScheduleTypes, NextIsNear
  <2>5. LagIsLate'
    BY <2>2, <2>3 DEF ScheduleInv, LagIsLate
  <2> QED BY <2>4, <2>5 DEF ScheduleInv
<1>2. ASSUME activate PROVE ScheduleInv'
  <2>1. /\ next_in' = next_in /\ since_run' = since_run /\ since_check' = 0 /\ lag' = 0
        /\ ~tracked'
    BY <1>2 DEF activate, scheduleVars
  <2>2. ScheduleTypes' /\ NextIsNear'
    BY <2>1, PeriodType DEF ScheduleInv, ScheduleTypes, NextIsNear
  <2>3. LagIsLate'
    BY <2>1 DEF LagIsLate
  <2> QED BY <2>2, <2>3 DEF ScheduleInv
<1>3. ASSUME deactivate \/ release \/ check_path PROVE ScheduleInv'
  <2>1. /\ next_in' = next_in /\ since_run' = since_run
        /\ planner_node' = "active" => planner_node = "active"
        /\ since_check' = since_check /\ tracked' = tracked /\ lag' = lag
    BY <1>3 DEF deactivate, release, check_path, scheduleVars, historyVars
  <2> QED BY <2>1 DEF ScheduleInv, ScheduleTypes, NextIsNear, LagIsLate
<1> QED BY <1>1, <1>2, <1>3

LEMMA ScheduleInvNext == ScheduleInv /\ [PlannerNext]_plannerVars => ScheduleInv'
<1>1. ScheduleInv /\ UNCHANGED plannerVars => ScheduleInv'
  BY DEF plannerVars, scheduleVars, historyVars, ScheduleInv, ScheduleTypes, NextIsNear, LagIsLate
<1> QED BY <1>1, TicksKeep, JumpKeeps, ChecksKeep, TriggersKeep, ScheduleStays DEF PlannerNext

-----------------------------------------------------------------------------
(* The monitor.                                                            *)

Monitors == [started : BOOLEAN, elapsed : Int, since_update : Int, runs : Nat,
             slow_windows : Int, status : RateStatus]

LEMMA RateConstants ==
  /\ Period \in Nat \ {0} /\ RateWindow \in Nat \ {0} /\ WindowPeriods \in Nat \ {0}
  /\ MaxRuns \in Nat \ {0} /\ MaxSlowWindows = 3
<1>1. Period \in Nat \ {0} /\ WindowPeriods \in Nat \ {0} /\ MaxSlowWindows = 3
  BY PlannerAssumption DEF MaxSlowWindows
<1>2. RateWindow \in Nat \ {0}
  BY <1>1 DEF RateWindow
<1> QED BY <1>1, <1>2 DEF MaxRuns

LEMMA MonitorFields ==
  ASSUME NEW m \in Monitors
  PROVE  /\ [m EXCEPT !.elapsed = 0] \in Monitors
         /\ [m EXCEPT !.since_update = 0] \in Monitors
<1>1. PICK t \in Int : t = 0
  OBVIOUS
<1>2. [m EXCEPT !.elapsed = t] \in Monitors
  BY DEF Monitors
<1>3. [m EXCEPT !.since_update = t] \in Monitors
  BY DEF Monitors
<1> QED BY <1>1, <1>2, <1>3

LEMMA StartWindowIs ==
  ASSUME NEW m \in Monitors
  PROVE  /\ start_window(m) \in Monitors
         /\ start_window(m).started = TRUE /\ start_window(m).elapsed = 0
         /\ start_window(m).since_update = 0 /\ start_window(m).runs = 0
         /\ start_window(m).slow_windows = m.slow_windows
         /\ start_window(m).status = m.status
<1>1. PICK a \in Monitors : a = [m EXCEPT !.started = TRUE]
  BY DEF Monitors
<1>2. PICK b \in Monitors : b = [a EXCEPT !.elapsed = 0]
  BY MonitorFields, Zenon
<1>5. PICK c \in Monitors : c = [b EXCEPT !.since_update = 0]
  BY MonitorFields, Zenon
<1>6. PICK d \in Monitors : d = [c EXCEPT !.runs = 0]
  BY DEF Monitors
<1>3. start_window(m) = d
  BY <1>1, <1>2, <1>5, <1>6 DEF start_window
<1>4. /\ start_window(m).started = TRUE /\ start_window(m).elapsed = 0
      /\ start_window(m).since_update = 0 /\ start_window(m).runs = 0
      /\ start_window(m).slow_windows = m.slow_windows
      /\ start_window(m).status = m.status
  BY DEF start_window, Monitors
<1> QED BY <1>3, <1>4

\* A window that is over has a status of its own, and the next one begins.
LEMMA UpdateIs ==
  ASSUME NEW m \in Monitors
  PROVE  /\ update(m) \in Monitors /\ update(m).started = TRUE /\ update(m).since_update = 0
         /\ \/ update(m).elapsed = 0 /\ update(m).runs = 0
            \/ /\ m.started = TRUE /\ m.since_update >= 0
               /\ update(m).elapsed = m.elapsed /\ update(m).runs = m.runs
         /\ \/ update(m).status = m.status
            \/ /\ m.started = TRUE /\ m.since_update >= 0 /\ m.elapsed >= RateWindow
               /\ ~slow(m) => update(m).status = "OK"
         /\ \/ update(m).slow_windows = m.slow_windows
            \/ m.elapsed >= RateWindow /\ update(m).slow_windows = slow_windows(m)
<1>1. CASE ~m.started \/ m.since_update < 0
  <2>1. update(m) = start_window(m)
    BY <1>1 DEF update
  <2> QED BY <2>1, StartWindowIs
<1>2. CASE m.started /\ ~(m.since_update < 0) /\ m.elapsed < RateWindow
  <2>1. PICK u : u = update(m) /\ u = [m EXCEPT !.since_update = 0]
    BY <1>2 DEF update
  <2>2. /\ u \in Monitors /\ u.started = m.started /\ u.elapsed = m.elapsed
        /\ u.since_update = 0 /\ u.runs = m.runs /\ u.status = m.status
        /\ u.slow_windows = m.slow_windows
    BY <2>1 DEF Monitors
  <2>3. m.started = TRUE /\ m.since_update >= 0
    BY <1>2 DEF Monitors
  <2> QED BY <2>1, <2>2, <2>3
<1>3. CASE m.started /\ ~(m.since_update < 0) /\ ~(m.elapsed < RateWindow)
  <2>1. PICK n : n = slow_windows(m)
    OBVIOUS
  <2>2. n \in Int /\ (~slow(m) => n = 0)
    BY <2>1, RateConstants DEF slow_windows, Monitors
  <2>3. PICK st \in RateStatus : st = IF n = MaxSlowWindows THEN "ERROR" ELSE IF n > 0 THEN "WARN" ELSE "OK"
    BY <2>2 DEF RateStatus
  <2>4. PICK u : u = update(m)
                 /\ u = [m EXCEPT !.slow_windows = n, !.elapsed = 0, !.since_update = 0, !.runs = 0, !.status = st]
    BY <1>3, <2>1, <2>3 DEF update
  <2>5. /\ u.started = m.started /\ u.elapsed = 0
        /\ u.since_update = 0 /\ u.runs = 0 /\ u.status = st /\ u.slow_windows = n
    BY <2>4 DEF Monitors
  <2>8. u \in Monitors
    <3>1. PICK a \in Monitors : a = [m EXCEPT !.slow_windows = n]
      BY <2>2 DEF Monitors
    <3>2. PICK b \in Monitors : b = [a EXCEPT !.elapsed = 0]
      BY MonitorFields, Zenon
    <3>3. PICK c \in Monitors : c = [b EXCEPT !.since_update = 0]
      BY MonitorFields, Zenon
    <3>4. PICK d \in Monitors : d = [c EXCEPT !.runs = 0]
      BY DEF Monitors
    <3>5. PICK e \in Monitors : e = [d EXCEPT !.status = st]
      BY DEF Monitors
    <3> QED BY <2>4, <3>1, <3>2, <3>3, <3>4, <3>5
  <2>6. m.started = TRUE /\ m.since_update >= 0 /\ m.elapsed >= RateWindow
    BY <1>3, RateConstants DEF Monitors
  <2>7. n = 0 => st = "OK"
    BY <2>3, RateConstants
  <2> QED BY <2>1, <2>2, <2>4, <2>5, <2>6, <2>7, <2>8
<1> QED BY <1>1, <1>2, <1>3

\* The runs of a window are counted up to the bound.
LEMMA RunIs ==
  ASSUME NEW m \in Monitors
  PROVE  /\ run(m) \in Monitors /\ run(m).started = TRUE /\ run(m).status = m.status
         /\ run(m).slow_windows = m.slow_windows
         /\ \/ run(m).elapsed = 0 /\ run(m).runs = 1 /\ run(m).since_update = 0
            \/ /\ m.started = TRUE
               /\ run(m).elapsed = m.elapsed /\ run(m).since_update = m.since_update
               /\ run(m).runs = IF m.runs < MaxRuns THEN m.runs + 1 ELSE m.runs
<1>1. PICK s \in Monitors : /\ s = IF ~m.started \/ m.elapsed < 0 THEN start_window(m) ELSE m
                           /\ s.started = TRUE /\ s.status = m.status
                           /\ s.slow_windows = m.slow_windows
                           /\ \/ s.elapsed = 0 /\ s.runs = 0 /\ s.since_update = 0
                              \/ m.started = TRUE /\ s = m
  <2>1. m.started \in BOOLEAN
    BY DEF Monitors
  <2> QED BY <2>1, StartWindowIs
<1>2. PICK n \in Nat : n = IF s.runs < MaxRuns THEN s.runs + 1 ELSE s.runs
  BY DEF Monitors
<1>3. PICK r : r = run(m) /\ r = [s EXCEPT !.runs = n]
  BY <1>1, <1>2 DEF run
<1>4. /\ r \in Monitors /\ r.started = s.started /\ r.elapsed = s.elapsed
      /\ r.since_update = s.since_update /\ r.runs = n /\ r.status = s.status
      /\ r.slow_windows = s.slow_windows
  BY <1>3 DEF Monitors
<1>5. s.runs = 0 => n = 1
  BY <1>2, RateConstants
<1> QED BY <1>1, <1>2, <1>3, <1>4, <1>5

MonitorBounds(m) ==
  m \in Monitors /\ m.elapsed <= MaxSlowWindows * RateWindow /\ m.runs <= MaxRuns

\* With the schedule kept, a window lacks no more than the run that it cuts.
OnSchedule(m, next, age, since) ==
  /\ m.status = "OK"
  /\ m.started = TRUE => /\ since < Period /\ next >= 1 - since
                         /\ m.runs < MaxRuns => m.elapsed + next <= (m.runs + 1) * Period
                         /\ m.since_update <= age

LEMMA Products ==
  ASSUME NEW k \in Nat
  PROVE  /\ k * Period \in Nat /\ (k + 1) * Period = k * Period + Period
         /\ \A n \in Nat : k >= n => k * Period >= n * Period
<1>1. Period \in Nat
  BY RateConstants
<1>2. k * Period \in Nat /\ (k + 1) * Period = k * Period + Period
  BY <1>1, SMT
<1>3. ASSUME NEW n \in Nat, k >= n PROVE k * Period >= n * Period
  <2>1. PICK d \in Nat : k = n + d
    <3>1. k - n \in Nat /\ k = n + (k - n)
      BY <1>3
    <3> QED BY <3>1
  <2>2. (n + d) * Period = n * Period + d * Period /\ d * Period \in Nat /\ n * Period \in Nat
    BY <1>1, SMT
  <2> QED BY <2>1, <2>2
<1> QED BY <1>2, <1>3

LEMMA WindowIsNotSlow ==
  ASSUME WindowPeriods >= 9, NEW m, MonitorBounds(m), m.elapsed >= RateWindow,
         NEW next \in Int, NEW since \in Nat, since < Period, next >= 1 - since,
         m.runs < MaxRuns => m.elapsed + next <= (m.runs + 1) * Period
  PROVE  ~slow(m)
<1>1. PICK r \in Nat : r = m.runs
  BY DEF MonitorBounds, Monitors
<1>2. PICK e \in Int : e = m.elapsed
  BY DEF MonitorBounds, Monitors
<1>3. PICK full \in Nat : /\ full = (r + 1) * Period
                          /\ (r + 1 + 1) * Period = full + Period
                          /\ \A n \in Nat : r + 1 >= n => full >= n * Period
  <2>1. r + 1 \in Nat
    OBVIOUS
  <2> QED BY <2>1, Products
<1>4. 10 * Period * (r + 1) = 10 * full
  <2>1. \A x, y \in Nat : 10 * x * y = 10 * (y * x)
    BY SMT
  <2> QED BY <1>3, <2>1, RateConstants
<1>5. CASE r < MaxRuns
  <2>1. e + next <= full /\ e <= full + Period - 2
    BY <1>1, <1>2, <1>3, <1>5, RateConstants
  <2>2. r + 1 >= 9
    <3>1. SUFFICES ASSUME ~(r + 1 >= WindowPeriods) PROVE FALSE
      BY RateConstants
    <3>2. PICK d \in Nat : d = r + 1 /\ d + 1 <= WindowPeriods
      BY <3>1, RateConstants
    <3>3. WindowPeriods * Period >= (d + 1) * Period
      BY <3>2, Products, RateConstants
    <3>4. e >= full + Period
      BY <1>2, <1>3, <3>2, <3>3, RateConstants DEF RateWindow
    <3> QED BY <2>1, <3>4, RateConstants
  <2>3. full >= 9 * Period
    BY <1>3, <2>2
  <2>4. ~(10 * full < 9 * e)
    BY <2>1, <2>3, RateConstants
  <2> QED BY <1>1, <1>2, <1>4, <2>4 DEF slow
<1>6. CASE ~(r < MaxRuns)
  <2>1. r = MaxRuns /\ MaxRuns = 3 * WindowPeriods
    BY <1>1, <1>6, RateConstants DEF MonitorBounds, MaxRuns
  <2>2. full >= MaxRuns * Period
    BY <1>3, <2>1, RateConstants
  <2>3. MaxRuns * Period = MaxSlowWindows * RateWindow
    <3>1. \A x, y \in Nat : (3 * x) * y = 3 * (x * y)
      BY SMT
    <3> QED BY <3>1, <2>1, RateConstants DEF RateWindow
  <2>4. full >= e
    BY <1>2, <2>2, <2>3, RateConstants DEF MonitorBounds
  <2>5. ~(10 * full < 9 * e)
    BY <1>3, <2>4
  <2> QED BY <1>1, <1>2, <1>4, <2>5 DEF slow
<1> QED BY <1>1, <1>5, <1>6, RateConstants

LEMMA BoundsKept ==
  ASSUME NEW m, MonitorBounds(m)
  PROVE  MonitorBounds(update(m)) /\ MonitorBounds(run(m))
<1>1. m \in Monitors /\ m.elapsed <= MaxSlowWindows * RateWindow /\ m.runs <= MaxRuns
  BY DEF MonitorBounds
<1>2. 0 <= MaxSlowWindows * RateWindow /\ 1 <= MaxRuns /\ MaxRuns \in Nat
  BY PeriodType, RateConstants
<1>3. MonitorBounds(update(m))
  <2>1. PICK u : /\ u = update(m) /\ u \in Monitors
                 /\ (u.elapsed = 0 /\ u.runs = 0) \/ (u.elapsed = m.elapsed /\ u.runs = m.runs)
    BY <1>1, UpdateIs
  <2>2. u.elapsed <= MaxSlowWindows * RateWindow /\ u.runs <= MaxRuns
    BY <1>1, <1>2, <2>1
  <2> QED BY <2>1, <2>2 DEF MonitorBounds
<1>4. m.runs < MaxRuns => m.runs + 1 <= MaxRuns
  BY <1>1, <1>2 DEF Monitors
<1>5. MonitorBounds(run(m))
  BY <1>1, <1>2, <1>4, RunIs DEF MonitorBounds
<1> QED BY <1>3, <1>5

\* A check of the rate finds nothing, and a new window begins with a run that
\* is at most a period away.
LEMMA UpdateOnSchedule ==
  ASSUME WindowPeriods >= 9, NEW m, MonitorBounds(m),
         NEW next \in Int, NEW age \in Int, age <= 0, next + age <= Period, NEW since \in Nat,
         OnSchedule(m, next, age, since),
         NEW due \in Int, due = IF age < 0 THEN 0 ELSE next
  PROVE  /\ update(m).status = "OK" /\ update(m).started = TRUE /\ update(m).since_update = 0
         /\ update(m).runs < MaxRuns => update(m).elapsed + due <= (update(m).runs + 1) * Period
<1>1. m \in Monitors
  BY DEF MonitorBounds
<1>2. PICK u : u = update(m)
  OBVIOUS
<1>3. /\ u \in Monitors /\ u.started = TRUE /\ u.since_update = 0
      /\ \/ u.elapsed = 0 /\ u.runs = 0
         \/ /\ m.started = TRUE /\ m.since_update >= 0
            /\ u.elapsed = m.elapsed /\ u.runs = m.runs
      /\ \/ u.status = m.status
         \/ /\ m.started = TRUE /\ m.since_update >= 0 /\ m.elapsed >= RateWindow
            /\ ~slow(m) => u.status = "OK"
  BY <1>1, <1>2, UpdateIs
<1>4. u.status = "OK"
  <2>1. CASE u.status = m.status
    BY <2>1 DEF OnSchedule
  <2>2. CASE m.started = TRUE /\ m.elapsed >= RateWindow /\ (~slow(m) => u.status = "OK")
    <3>1. /\ since < Period /\ next >= 1 - since
          /\ m.runs < MaxRuns => m.elapsed + next <= (m.runs + 1) * Period
      BY <2>2, Zenon DEF OnSchedule
    <3>2. ~slow(m)
      BY <2>2, <3>1, WindowIsNotSlow
    <3> QED BY <2>2, <3>2
  <2> QED BY <1>3, <2>1, <2>2
<1>5. u.runs < MaxRuns => u.elapsed + due <= (u.runs + 1) * Period
  <2>1. CASE u.elapsed = 0 /\ u.runs = 0
    <3>1. due <= Period
      BY RateConstants
    <3>2. (0 + 1) * Period = Period
      BY RateConstants
    <3> QED BY <2>1, <3>1, <3>2
  <2>2. CASE m.started = TRUE /\ m.since_update >= 0 /\ u.elapsed = m.elapsed /\ u.runs = m.runs
    <3>1. /\ m.since_update <= age
          /\ m.runs < MaxRuns => m.elapsed + next <= (m.runs + 1) * Period
      BY <2>2, Zenon DEF OnSchedule
    <3>2. due = next
      BY <1>1, <2>2, <3>1 DEF Monitors
    <3> QED BY <2>2, <3>1, <3>2
  <2> QED BY <1>3, <2>1, <2>2
<1> QED BY <1>2, <1>3, <1>4, <1>5

\* A run that is counted accounts for a period.
LEMMA RunOnSchedule ==
  ASSUME NEW m, MonitorBounds(m), m.status = "OK", NEW next \in 1 .. Period,
         m.started = TRUE =>
           /\ m.since_update <= 0
           /\ m.runs < MaxRuns => m.elapsed + next - Period <= (m.runs + 1) * Period
  PROVE  OnSchedule(run(m), next, 0, 0)
<1>1. m \in Monitors
  BY DEF MonitorBounds
<1>2. PICK r : r = run(m)
  OBVIOUS
<1>3. /\ r \in Monitors /\ r.started = TRUE /\ r.status = m.status
      /\ \/ r.elapsed = 0 /\ r.runs = 1 /\ r.since_update = 0
         \/ /\ m.started = TRUE
            /\ r.elapsed = m.elapsed /\ r.since_update = m.since_update
            /\ r.runs = IF m.runs < MaxRuns THEN m.runs + 1 ELSE m.runs
  BY <1>1, <1>2, RunIs
<1>4. PICK e \in Int, n \in Nat : e = m.elapsed /\ n = m.runs
  BY <1>1 DEF Monitors
<1>5. r.since_update <= 0 /\ (r.runs < MaxRuns => r.elapsed + next <= (r.runs + 1) * Period)
  <2>1. CASE r.elapsed = 0 /\ r.runs = 1 /\ r.since_update = 0
    <3>1. (1 + 1) * Period = Period + Period
      BY RateConstants
    <3>2. 0 + next <= (1 + 1) * Period
      BY <3>1, RateConstants
    <3> QED BY <2>1, <3>2
  <2>2. CASE /\ m.started = TRUE
             /\ r.elapsed = m.elapsed /\ r.since_update = m.since_update
             /\ r.runs = IF m.runs < MaxRuns THEN m.runs + 1 ELSE m.runs
    <3>1. m.since_update <= 0 /\ (n < MaxRuns => e + next - Period <= (n + 1) * Period)
      BY <1>4, <2>2
    <3>2. PICK full \in Nat : full = (n + 1) * Period /\ (n + 1 + 1) * Period = full + Period
      <4>1. n + 1 \in Nat
        OBVIOUS
      <4> QED BY <4>1, Products
    <3>3. CASE n < MaxRuns
      <4>1. e + next <= full + Period
        BY <3>1, <3>2, <3>3, RateConstants
      <4> QED BY <1>4, <2>2, <3>1, <3>2, <3>3, <4>1
    <3>4. CASE ~(n < MaxRuns)
      BY <1>4, <2>2, <3>1, <3>4
    <3> QED BY <3>3, <3>4
  <2> QED BY <1>3, <2>1, <2>2
<1>6. 0 < Period /\ next >= 1 - 0
  BY RateConstants
<1> QED BY <1>2, <1>3, <1>5, <1>6 DEF OnSchedule

RateInv ==
  /\ MonitorBounds(monitor)
  /\ prompt /\ planner_node = "active" /\ plugins_ # << >> =>
       OnSchedule(monitor, next_in, since_run, since_check)

LEMMA MonitorMoves ==
  ASSUME NEW by \in Int, clock_moves(by), MonitorBounds(monitor)
  PROVE  /\ MonitorBounds(monitor')
         /\ monitor'.started = monitor.started /\ monitor'.status = monitor.status
         /\ monitor'.runs = monitor.runs /\ monitor'.slow_windows = monitor.slow_windows
         /\ monitor'.elapsed = Cap(monitor.elapsed + by)
         /\ monitor'.elapsed <= monitor.elapsed + by
         /\ monitor'.since_update =
              IF monitor.since_update + by > 0 THEN 0 ELSE monitor.since_update + by
<1>1. PICK m \in Monitors : /\ m = monitor /\ m.elapsed <= MaxSlowWindows * RateWindow
                            /\ m.runs <= MaxRuns
  BY DEF MonitorBounds
<1>2. PICK e \in Int : e = Cap(m.elapsed + by) /\ e <= MaxSlowWindows * RateWindow
                       /\ e <= m.elapsed + by
  BY PeriodType DEF Cap, Monitors
<1>3. PICK g \in Int : g = IF m.since_update + by > 0 THEN 0 ELSE m.since_update + by
  BY DEF Monitors
<1>4. PICK n : n = monitor' /\ n = [m EXCEPT !.elapsed = e, !.since_update = g]
  BY <1>1, <1>2, <1>3 DEF clock_moves
<1>5. /\ n.started = m.started /\ n.status = m.status /\ n.runs = m.runs
      /\ n.slow_windows = m.slow_windows
      /\ n.elapsed = e /\ n.since_update = g
  BY <1>4 DEF Monitors
<1>6. n \in Monitors
  <2>1. PICK a \in Monitors : a = [m EXCEPT !.elapsed = e]
    BY DEF Monitors
  <2>2. PICK b \in Monitors : b = [a EXCEPT !.since_update = g]
    BY DEF Monitors
  <2> QED BY <1>4, <2>1, <2>2
<1>7. MonitorBounds(n)
  BY <1>1, <1>2, <1>5, <1>6 DEF MonitorBounds
<1> QED BY <1>1, <1>2, <1>3, <1>4, <1>5, <1>7

LEMMA RateInvTicks == ScheduleInv /\ RateInv /\ clock_ticks => RateInv'
<1> SUFFICES ASSUME ScheduleInv, RateInv, clock_ticks PROVE RateInv'
  OBVIOUS
<1>1. /\ MonitorBounds(monitor')
      /\ monitor'.started = monitor.started /\ monitor'.status = monitor.status
      /\ monitor'.runs = monitor.runs
      /\ monitor'.elapsed <= monitor.elapsed + 1
      /\ monitor'.since_update =
           IF monitor.since_update + 1 > 0 THEN 0 ELSE monitor.since_update + 1
  BY MonitorMoves DEF clock_ticks, RateInv
<1>2. ASSUME prompt', planner_node' = "active", plugins_' # << >>
      PROVE  OnSchedule(monitor', next_in', since_run', since_check')
  <2>1. /\ prompt /\ since_check + 1 < Period /\ since_check' = since_check + 1
        /\ planner_node = "active" /\ plugins_ # << >>
    <3>1. /\ planner_node = "active" /\ plugins_ # << >>
      BY <1>2 DEF clock_ticks, clock_moves
    <3>2. prompt /\ ~(since_check + 1 >= Period)
      BY <1>2, Zenon DEF clock_ticks
    <3>3. since_check' = since_check + 1
      BY <3>2 DEF clock_ticks
    <3>4. since_check + 1 < Period
      BY <3>2, PeriodType DEF ScheduleInv, ScheduleTypes
    <3> QED BY <3>1, <3>2, <3>3, <3>4
  <2>2. OnSchedule(monitor, next_in, since_run, since_check)
    BY <2>1 DEF RateInv
  <2>3. ASSUME monitor'.started = TRUE
        PROVE  /\ since_check' < Period /\ next_in' >= 1 - since_check'
               /\ monitor'.runs < MaxRuns => monitor'.elapsed + next_in' <= (monitor'.runs + 1) * Period
               /\ monitor'.since_update <= since_run'
    <3>1. /\ next_in >= 1 - since_check
          /\ monitor.runs < MaxRuns => monitor.elapsed + next_in <= (monitor.runs + 1) * Period
          /\ monitor.since_update <= since_run
      BY <1>1, <2>2, <2>3 DEF OnSchedule
    <3>2. next_in' = next_in - 1 /\ since_run' = IF since_run + 1 > 0 THEN 0 ELSE since_run + 1
      BY <2>1, <3>1, PeriodType DEF clock_ticks, clock_moves, ScheduleInv, ScheduleTypes
    <3>3. /\ monitor.elapsed \in Int /\ monitor'.elapsed \in Int /\ monitor.since_update \in Int
          /\ monitor.runs \in Nat /\ next_in \in Int /\ since_run \in Int /\ since_check \in Int
      BY <1>1 DEF RateInv, MonitorBounds, Monitors, ScheduleInv, ScheduleTypes
    <3>4. monitor'.runs < MaxRuns => monitor'.elapsed + next_in' <= (monitor'.runs + 1) * Period
      <4>1. PICK full \in Int : full = (monitor.runs + 1) * Period
        BY <3>3, RateConstants
      <4> QED BY <1>1, <3>1, <3>2, <3>3, <4>1
    <3> QED BY <1>1, <2>1, <3>1, <3>2, <3>3, <3>4
  <2> QED BY <1>1, <2>2, <2>3 DEF OnSchedule
<1> QED BY <1>1, <1>2 DEF RateInv

LEMMA RateInvJump == ScheduleInv /\ RateInv /\ jump => RateInv'
<1> SUFFICES ASSUME ScheduleInv, RateInv, jump PROVE RateInv'
  OBVIOUS
<1>1. PICK by \in {-Jump, MaxSlowWindows * RateWindow} :
        /\ by < 0 => since_run = 0 /\ monitor.since_update = 0
        /\ clock_moves(by)
        /\ prompt' = (prompt /\ by < 0)
  BY DEF jump
<1>2. by \in Int
  BY <1>1, PeriodType
<1>3. /\ MonitorBounds(monitor')
      /\ monitor'.started = monitor.started /\ monitor'.status = monitor.status
      /\ monitor'.runs = monitor.runs
      /\ monitor'.elapsed <= monitor.elapsed + by
      /\ monitor'.since_update =
           IF monitor.since_update + by > 0 THEN 0 ELSE monitor.since_update + by
  BY <1>1, <1>2, MonitorMoves DEF RateInv
<1>4. ASSUME prompt', planner_node' = "active", plugins_' # << >>
      PROVE  OnSchedule(monitor', next_in', since_run', since_check')
  <2>1. prompt /\ by < 0
    BY <1>1, <1>4
  <2>2. /\ planner_node = "active" /\ plugins_ # << >> /\ since_check' = since_check
        /\ since_run = 0 /\ monitor.since_update = 0
    BY <1>1, <1>4, <2>1 DEF jump, clock_moves
  <2>3. OnSchedule(monitor, next_in, since_run, since_check)
    BY <2>1, <2>2 DEF RateInv
  <2>4. ASSUME monitor'.started = TRUE
        PROVE  /\ since_check' < Period /\ next_in' >= 1 - since_check'
               /\ monitor'.runs < MaxRuns => monitor'.elapsed + next_in' <= (monitor'.runs + 1) * Period
               /\ monitor'.since_update <= since_run'
    <3>1. /\ next_in >= 1 - since_check /\ since_check < Period
          /\ monitor.runs < MaxRuns => monitor.elapsed + next_in <= (monitor.runs + 1) * Period
      BY <1>3, <2>3, <2>4 DEF OnSchedule
    <3>2. next_in' = next_in - by /\ since_run' = by
      BY <1>1, <1>2, <2>1, <2>2, <3>1, PeriodType DEF clock_moves, ScheduleInv, ScheduleTypes
    <3>3. /\ monitor.elapsed \in Int /\ monitor'.elapsed \in Int
          /\ monitor.runs \in Nat /\ next_in \in Int /\ since_check \in Int
      BY <1>3 DEF RateInv, MonitorBounds, Monitors, ScheduleInv, ScheduleTypes
    <3>4. monitor'.runs < MaxRuns => monitor'.elapsed + next_in' <= (monitor'.runs + 1) * Period
      <4>1. PICK full \in Int : full = (monitor.runs + 1) * Period
        BY <3>3, RateConstants
      <4> QED BY <1>2, <1>3, <3>1, <3>2, <3>3, <4>1
    <3>5. monitor'.since_update = by
      BY <1>2, <1>3, <2>1, <2>2
    <3>6. next_in' >= 1 - since_check'
      BY <1>2, <2>1, <2>2, <3>1, <3>2, <3>3
    <3> QED BY <1>2, <2>2, <3>1, <3>2, <3>4, <3>5, <3>6
  <2> QED BY <1>3, <2>3, <2>4 DEF OnSchedule
<1> QED BY <1>3, <1>4 DEF RateInv

LEMMA RateInvUpdate ==
  ASSUME WindowPeriods >= 9
  PROVE  ScheduleInv /\ RateInv /\ internal_update =>
           RateInv' /\ (prompt => update(monitor).status = "OK")
<1> SUFFICES ASSUME ScheduleInv, RateInv, internal_update
             PROVE RateInv' /\ (prompt => update(monitor).status = "OK")
  OBVIOUS
<1>1. /\ planner_node = "active" /\ plugins_ # << >> /\ since_check' = 0
      /\ MonitorBounds(monitor) /\ MonitorBounds(update(monitor))
  BY BoundsKept DEF internal_update, Cycling, RateInv
<1>2. PICK due \in Int : due = Due /\ due = IF since_run < 0 THEN 0 ELSE next_in
  BY DEF Due, ScheduleInv, ScheduleTypes
<1>3. next_in' \in 1 .. Period
  BY ChecksKeep
<1>4. MonitorBounds(monitor')
  <2>1. monitor' = run(update(monitor)) \/ monitor' = update(monitor)
    BY DEF internal_update
  <2> QED BY <1>1, <2>1, BoundsKept
<1>5. prompt' = prompt
  BY DEF internal_update
<1>6. ASSUME prompt
      PROVE  update(monitor).status = "OK" /\ OnSchedule(monitor', next_in', since_run', since_check')
  <2>1. OnSchedule(monitor, next_in, since_run, since_check)
    BY <1>1, <1>6 DEF RateInv
  <2>2. /\ next_in \in Int /\ since_run \in Int /\ since_run <= 0 /\ next_in + since_run <= Period
        /\ since_check \in Nat
    BY PeriodType DEF ScheduleInv, ScheduleTypes, NextIsNear
  <2>3. PICK u : u = update(monitor)
    OBVIOUS
  <2>4. /\ u.status = "OK" /\ u.started = TRUE /\ u.since_update = 0
        /\ u.runs < MaxRuns => u.elapsed + due <= (u.runs + 1) * Period
    BY <1>1, <1>2, <2>1, <2>2, <2>3, UpdateOnSchedule
  <2>5. u \in Monitors
    BY <1>1, <2>3 DEF MonitorBounds
  <2>6. CASE due <= 0
    <3>1. /\ next_in' = IF due + Period <= 0 THEN Period ELSE due + Period
          /\ since_run' = 0 /\ monitor' = run(u)
      BY <1>2, <2>3, <2>6 DEF internal_update, is_time_to_run, scheduled_next
    <3>2. u.runs < MaxRuns => u.elapsed + next_in' - Period <= (u.runs + 1) * Period
      <4>1. monitor.started = TRUE => next_in >= 1 - since_check /\ since_check < Period
        BY <2>1 DEF OnSchedule
      <4>2. CASE due + Period > 0
        <5>1. next_in' = due + Period
          BY <3>1, <4>2, RateConstants
        <5>2. PICK e \in Int, full \in Int : e = u.elapsed /\ full = (u.runs + 1) * Period
          BY <2>5, RateConstants DEF Monitors
        <5> QED BY <2>4, <5>1, <5>2, RateConstants
      <4>3. CASE ~(due + Period > 0)
        <5>1. ~(monitor.started = TRUE)
          BY <1>2, <2>2, <4>1, <4>3, RateConstants
        <5>2. u.elapsed = 0 /\ u.runs = 0
          <6>1. monitor \in Monitors
            BY <1>1 DEF MonitorBounds
          <6> QED BY <2>3, <5>1, <6>1, UpdateIs
        <5>3. (0 + 1) * Period = Period
          BY RateConstants
        <5>4. 0 + next_in' - Period <= Period
          <6>1. PICK x \in 1 .. Period : x = next_in'
            BY <1>3
          <6>2. 0 + x - Period <= Period
            BY RateConstants
          <6> QED BY <6>1, <6>2
        <5> QED BY <5>2, <5>3, <5>4
      <4> QED BY <1>2, <4>2, <4>3, RateConstants
    <3>3. MonitorBounds(u) /\ u.since_update <= 0
      BY <1>1, <2>3, <2>4
    <3>4. OnSchedule(run(u), next_in', 0, 0)
      BY <1>3, <2>4, <3>2, <3>3, RunOnSchedule
    <3> QED BY <1>1, <2>3, <2>4, <3>1, <3>4
  <2>7. CASE ~(due <= 0)
    <3>1. next_in' = due /\ since_run' = since_run /\ monitor' = u /\ since_run = 0
      BY <1>2, <2>2, <2>3, <2>7 DEF internal_update, is_time_to_run
    <3>2. 0 < Period /\ next_in' >= 1 - 0
      BY <1>3, RateConstants
    <3>3. OnSchedule(u, due, 0, 0)
      BY <2>4, <3>1, <3>2 DEF OnSchedule
    <3> QED BY <1>1, <2>3, <2>4, <3>1, <3>3
  <2> QED BY <1>2, <2>6, <2>7
<1> QED BY <1>4, <1>5, <1>6 DEF RateInv

LEMMA RateInvForce == ScheduleInv /\ RateInv /\ force_update => RateInv'
<1> SUFFICES ASSUME ScheduleInv, RateInv, force_update PROVE RateInv'
  OBVIOUS
<1>1. /\ planner_node = "active" /\ plugins_ # << >> /\ since_check' = 0
      /\ next_in' = Period /\ since_run' = 0 /\ monitor' = run(monitor)
      /\ MonitorBounds(monitor)
  BY DEF force_update, Cycling, RateInv
<1>2. MonitorBounds(monitor')
  BY <1>1, BoundsKept
<1>3. ASSUME prompt' PROVE OnSchedule(run(monitor), Period, 0, 0)
  <2>1. prompt /\ next_in >= 0
    BY <1>3 DEF force_update
  <2>2. OnSchedule(monitor, next_in, since_run, since_check)
    BY <1>1, <2>1 DEF RateInv
  <2>3. PICK m \in Monitors : m = monitor
    BY <1>1 DEF MonitorBounds
  <2>4. Period \in 1 .. Period /\ m.status = "OK"
    BY <2>2, <2>3, RateConstants DEF OnSchedule
  <2>5. ASSUME m.started = TRUE
        PROVE  /\ m.since_update <= 0
               /\ m.runs < MaxRuns => m.elapsed + Period - Period <= (m.runs + 1) * Period
    <3>1. /\ m.runs < MaxRuns => m.elapsed + next_in <= (m.runs + 1) * Period
          /\ m.since_update <= since_run
      BY <2>2, <2>3, <2>5 DEF OnSchedule
    <3>2. PICK e \in Int, full \in Int, g \in Int :
            e = m.elapsed /\ full = (m.runs + 1) * Period /\ g = m.since_update
      BY <2>3, RateConstants DEF Monitors
    <3>3. next_in \in Int /\ since_run \in Int /\ since_run <= 0
      BY DEF ScheduleInv, ScheduleTypes
    <3> QED BY <2>1, <3>1, <3>2, <3>3, RateConstants
  <2> QED BY <1>1, <2>3, <2>4, <2>5, RunOnSchedule
<1> QED BY <1>1, <1>2, <1>3 DEF RateInv

LEMMA RateInvInit == PlannerInit => RateInv
<1>1. ASSUME PlannerInit PROVE MonitorBounds(monitor) /\ ~prompt
  <2>1. MonitorBounds(MonitorReset)
    BY PeriodType, RateConstants DEF MonitorBounds, MonitorReset, Monitors, RateStatus
  <2>2. ~prompt
    BY <1>1 DEF PlannerInit
  <2> QED BY <1>1, <2>1, <2>2 DEF PlannerInit
<1> QED BY <1>1 DEF RateInv

LEMMA RateInvLifecycle ==
  RateInv /\ (configure \/ activate \/ deactivate \/ release \/ check_path) => RateInv'
<1> SUFFICES ASSUME RateInv PROVE configure \/ activate \/ deactivate \/ release \/ check_path
                                    => RateInv'
  OBVIOUS
<1>1. MonitorBounds(MonitorReset) /\ MonitorReset.status = "OK" /\ ~(MonitorReset.started = TRUE)
  BY PeriodType, RateConstants DEF MonitorBounds, MonitorReset, Monitors, RateStatus
<1>2. ASSUME configure PROVE RateInv'
  <2>1. (monitor' = MonitorReset \/ monitor' = monitor) /\ planner_node' # "active"
    BY <1>2 DEF configure
  <2> QED BY <1>1, <2>1 DEF RateInv
<1>3. ASSUME activate PROVE RateInv'
  <2>1. CASE plugins_ # << >>
    <3>1. monitor' = MonitorReset
      BY <1>3, <2>1 DEF activate
    <3>2. OnSchedule(monitor', next_in', since_run', since_check')
      BY <1>1, <3>1 DEF OnSchedule
    <3> QED BY <1>1, <3>1, <3>2 DEF RateInv
  <2>2. CASE plugins_ = << >>
    <3>1. monitor' = monitor /\ plugins_' = << >>
      BY <1>3, <2>2 DEF activate
    <3> QED BY <3>1 DEF RateInv
  <2> QED BY <2>1, <2>2
<1>4. ASSUME deactivate \/ release PROVE RateInv'
  <2>1. monitor' = monitor /\ planner_node' # "active"
    BY <1>4 DEF deactivate, release
  <2> QED BY <2>1 DEF RateInv
<1>5. ASSUME check_path PROVE RateInv'
  <2>1. /\ monitor' = monitor /\ planner_node' = planner_node /\ plugins_' = plugins_
        /\ next_in' = next_in /\ since_run' = since_run /\ since_check' = since_check
        /\ prompt' = prompt
    BY <1>5 DEF check_path, scheduleVars, historyVars
  <2> QED BY <2>1 DEF RateInv
<1> QED BY <1>2, <1>3, <1>4, <1>5

LEMMA RateInvNext ==
  ASSUME WindowPeriods >= 9
  PROVE  ScheduleInv /\ RateInv /\ [PlannerNext]_plannerVars => RateInv'
<1>1. RateInv /\ UNCHANGED plannerVars => RateInv'
  <2> SUFFICES ASSUME RateInv, UNCHANGED plannerVars PROVE RateInv'
    OBVIOUS
  <2>1. /\ monitor' = monitor /\ planner_node' = planner_node /\ plugins_' = plugins_
        /\ next_in' = next_in /\ since_run' = since_run /\ since_check' = since_check
        /\ prompt' = prompt
    BY DEF plannerVars, scheduleVars, historyVars
  <2> QED BY <2>1 DEF RateInv
<1> QED BY <1>1, RateInvTicks, RateInvJump, RateInvUpdate, RateInvForce, RateInvLifecycle
        DEF PlannerNext

-----------------------------------------------------------------------------
(* The diagnostics.                                                        *)

\* A level is written with the first thing that goes wrong, and says what the
\* last change was.
ReportInv ==
  /\ last_path_finite_ = "non_finite" <=> path_level = "ERROR"
  /\ last_path_finite_ = "none" <=> path_level = "none"
  /\ path = "none" => path_level = "none"
  /\ path \in {"none", "finite", "non_finite"}
  /\ last_path_finite_ \in {"none", "finite", "non_finite"}
  /\ reported # "none" => (rate_level = "OK" <=> reported = "OK")

LEMMA ReportInvInit == PlannerInit => ReportInv
BY DEF PlannerInit, ReportInv

LEMMA UpdateReports ==
  RateInv /\ ReportInv /\ internal_update =>
    ReportInv' /\ (rate_level' = "OK" <=> update(monitor).status = "OK")
<1> SUFFICES ASSUME RateInv, ReportInv, internal_update
             PROVE ReportInv' /\ (rate_level' = "OK" <=> update(monitor).status = "OK")
  OBVIOUS
<1>1. PICK st : st = update(monitor).status
  OBVIOUS
<1>2. reported' = st /\ rate_level' = IF reported = st THEN rate_level
                                      ELSE IF st = "OK" THEN "OK" ELSE "WARN"
  BY <1>1 DEF internal_update, report
<1>3. /\ path' = path \/ path' \in {"finite", "non_finite"}
      /\ last_path_finite_' = last_path_finite_ /\ path_level' = path_level
  BY DEF internal_update, update_path, Cycling
<1>4. st # "none"
  <2>1. update(monitor) \in Monitors
    BY BoundsKept DEF RateInv, MonitorBounds
  <2>2. st \in RateStatus
    BY <1>1, <2>1 DEF Monitors
  <2> QED BY <2>2 DEF RateStatus
<1> QED BY <1>1, <1>2, <1>3, <1>4 DEF ReportInv

LEMMA CheckReports ==
  ReportInv /\ check_path =>
    ReportInv' /\ path' # "non_finite" /\ (path_level' = "ERROR" <=> path = "non_finite")
<1> SUFFICES ASSUME ReportInv, check_path
             PROVE ReportInv' /\ path' # "non_finite" /\ (path_level' = "ERROR" <=> path = "non_finite")
  OBVIOUS
<1>1. /\ path' = IF path = "none" THEN "none" ELSE "finite"
      /\ reported' = reported /\ rate_level' = rate_level
  BY DEF check_path
<1>2. \/ /\ path = "none" \/ last_path_finite_ = path \/ (last_path_finite_ = "none" /\ path = "finite")
         /\ last_path_finite_' = last_path_finite_ /\ path_level' = path_level
      \/ /\ path # "none" /\ last_path_finite_' = path
         /\ path_level' = IF path = "finite" THEN "OK" ELSE "ERROR"
  BY DEF check_path
<1> QED BY <1>1, <1>2 DEF ReportInv

LEMMA ReportInvNext == RateInv /\ ReportInv /\ [PlannerNext]_plannerVars => ReportInv'
<1> SUFFICES ASSUME RateInv, ReportInv, [PlannerNext]_plannerVars PROVE ReportInv'
  OBVIOUS
<1>1. ASSUME configure PROVE ReportInv'
  <2>1. /\ reported' = "none" \/ (reported' = reported /\ rate_level' = rate_level)
        /\ path' = path /\ last_path_finite_' = last_path_finite_ /\ path_level' = path_level
    BY <1>1 DEF configure, pathVars
  <2> QED BY <2>1 DEF ReportInv
<1>2. ASSUME activate \/ deactivate \/ release \/ clock_ticks \/ jump \/ UNCHANGED plannerVars
      PROVE  ReportInv'
  <2>1. /\ reported' = reported /\ rate_level' = rate_level
        /\ path' = path /\ last_path_finite_' = last_path_finite_ /\ path_level' = path_level
    BY <1>2 DEF activate, deactivate, release, clock_ticks, jump, clock_moves, plannerVars, pathVars
  <2> QED BY <2>1 DEF ReportInv
<1>3. ASSUME force_update PROVE ReportInv'
  <2>1. /\ reported' = reported /\ rate_level' = rate_level
        /\ path' = path \/ path' \in {"finite", "non_finite"}
        /\ last_path_finite_' = last_path_finite_ /\ path_level' = path_level
    BY <1>3 DEF force_update, Cycling, update_path
  <2> QED BY <2>1 DEF ReportInv
<1> QED BY <1>1, <1>2, <1>3, UpdateReports, CheckReports DEF PlannerNext

\* The path in NavState is finite after every check, a plugin that is checked in
\* time is never reported as slow, and the diagnostics say what was found last
\* (check_path(), report(), RateMonitor), if a window has nine periods or more:
\* the code has ten.
THEOREM PlannerReports ==
  ASSUME WindowPeriods >= 9
  PROVE  PlannerSpec => PlannerReportsAreTrue
<1>1. PlannerInit => ScheduleInv /\ RateInv /\ ReportInv
  BY ScheduleInvInit, RateInvInit, ReportInvInit
<1>2. ScheduleInv /\ RateInv /\ ReportInv /\ [PlannerNext]_plannerVars
        => ScheduleInv' /\ RateInv' /\ ReportInv'
  BY ScheduleInvNext, RateInvNext, ReportInvNext
<1>3. ScheduleInv /\ RateInv /\ ReportInv /\ [PlannerNext]_plannerVars =>
        [/\ check_path => /\ path' # "non_finite"
                          /\ path_level' = "ERROR" <=> path = "non_finite"
         /\ internal_update => /\ prompt => update(monitor).status = "OK"
                               /\ rate_level' = "OK" <=> update(monitor).status = "OK"]_plannerVars
  BY RateInvUpdate, UpdateReports, CheckReports
<1> QED BY <1>1, <1>2, <1>3, PTL DEF PlannerSpec, PlannerReportsAreTrue

\* The runs of a plugin that is checked once a period neither fall behind nor
\* come early, and after a check the next one is at most a period away
\* (is_time_to_run(), set_run()).
THEOREM PluginsRunOnTime == PlannerSpec => RunsOnTime
<1>1. ScheduleInv /\ ScheduleInv' /\ [PlannerNext]_plannerVars =>
        [/\ tracked' => lag' \in -Period .. Period - 1
         /\ internal_update \/ force_update => next_in' \in 1 .. Period]_plannerVars
  <2> SUFFICES ASSUME ScheduleInv, ScheduleInv'
               PROVE  /\ tracked' => lag' \in -Period .. Period - 1
                      /\ internal_update \/ force_update => next_in' \in 1 .. Period
    OBVIOUS
  <2>1. tracked' => lag' \in -Period .. Period - 1
    <3>1. tracked' => lag' \in -Period .. since_check' - 1 /\ since_check' < Period
      BY DEF ScheduleInv, LagIsLate
    <3>2. since_check' \in 0 .. Period
      BY DEF ScheduleInv, ScheduleTypes
    <3>3. ASSUME tracked' PROVE lag' \in -Period .. Period - 1
      BY <3>1, <3>2, <3>3, PeriodType
    <3> QED BY <3>3
  <2> QED BY <2>1, ChecksKeep, TriggersKeep
<1> QED BY <1>1, ScheduleInvInit, ScheduleInvNext, PTL DEF PlannerSpec, RunsOnTime

-----------------------------------------------------------------------------
(* The types.                                                              *)

\* The monitor's window is never older than its last check is ahead of the clock.
Fine(m) ==
  /\ MonitorBounds(m)
  /\ m.since_update \in -Jump .. 0 /\ m.elapsed >= m.since_update
  /\ m.slow_windows \in 0 .. MaxSlowWindows

OthersTyped ==
  /\ planner_node \in {"unconfigured", "inactive", "active"}
  /\ Len(plugins_) <= MaxPlugins
  /\ planner_node = "unconfigured" => plugins_ = << >>
  /\ since_run \in -Jump .. 0
  /\ reported \in RateStatus \cup {"none"}
  /\ path \in {"none", "finite", "non_finite"}
  /\ last_path_finite_ \in {"none", "finite", "non_finite"}
  /\ path_level \in {"none", "OK", "ERROR"} /\ rate_level \in {"none", "OK", "WARN"}
  /\ checking \in BOOLEAN /\ prompt \in BOOLEAN /\ tracked \in BOOLEAN

PlannerInv == ScheduleInv /\ Fine(monitor) /\ OthersTyped

LEMMA ResetIsFine == Fine(MonitorReset)
<1>1. MonitorBounds(MonitorReset)
  BY PeriodType, RateConstants DEF MonitorBounds, MonitorReset, Monitors, RateStatus
<1>2. /\ MonitorReset.since_update = 0 /\ MonitorReset.elapsed = 0 /\ MonitorReset.slow_windows = 0
  BY DEF MonitorReset
<1> QED BY <1>1, <1>2, PeriodType, RateConstants DEF Fine

LEMMA SlowWindows ==
  ASSUME NEW m, Fine(m), m.elapsed >= RateWindow
  PROVE  slow_windows(m) \in 0 .. MaxSlowWindows
<1>1. PICK e \in Nat, w \in Nat \ {0}, k \in Nat :
        e = m.elapsed /\ w = RateWindow /\ k = m.slow_windows
  BY RateConstants DEF Fine, MonitorBounds, Monitors
<1>2. e \div w \in Nat
  BY <1>1
<1>3. slow_windows(m) = IF ~slow(m) THEN 0
                        ELSE IF k + e \div w > MaxSlowWindows THEN MaxSlowWindows ELSE k + e \div w
  BY <1>1 DEF slow_windows
<1>4. PICK n \in Nat : n = k + e \div w
  BY <1>1, <1>2
<1> QED BY <1>3, <1>4, RateConstants

LEMMA FineKept ==
  ASSUME NEW m, Fine(m)
  PROVE  Fine(update(m)) /\ Fine(run(m))
<1>1. /\ MonitorBounds(m) /\ m \in Monitors
      /\ m.since_update \in -Jump .. 0 /\ m.elapsed >= m.since_update
      /\ m.slow_windows \in 0 .. MaxSlowWindows
  BY DEF Fine, MonitorBounds
<1>2. Fine(update(m))
  <2>1. PICK u : /\ u = update(m) /\ u.since_update = 0
                 /\ (u.elapsed = 0 \/ (m.since_update >= 0 /\ u.elapsed = m.elapsed))
                 /\ \/ u.slow_windows = m.slow_windows
                    \/ m.elapsed >= RateWindow /\ u.slow_windows = slow_windows(m)
    BY <1>1, UpdateIs
  <2>2. MonitorBounds(u)
    BY <1>1, <2>1, BoundsKept
  <2>3. u.slow_windows \in 0 .. MaxSlowWindows
    BY <1>1, <2>1, SlowWindows
  <2>4. u.since_update \in -Jump .. 0 /\ u.elapsed >= u.since_update
    BY <1>1, <2>1, PeriodType
  <2> QED BY <2>1, <2>2, <2>3, <2>4 DEF Fine
<1>3. Fine(run(m))
  <2>1. PICK r : /\ r = run(m) /\ r.slow_windows = m.slow_windows
                 /\ \/ r.elapsed = 0 /\ r.since_update = 0
                    \/ r.elapsed = m.elapsed /\ r.since_update = m.since_update
    BY <1>1, RunIs
  <2>2. MonitorBounds(r)
    BY <1>1, <2>1, BoundsKept
  <2>3. r.since_update \in -Jump .. 0 /\ r.elapsed >= r.since_update
    BY <1>1, <2>1, PeriodType
  <2> QED BY <1>1, <2>1, <2>2, <2>3 DEF Fine
<1> QED BY <1>2, <1>3

LEMMA FineMoves ==
  ASSUME NEW by \in Int, clock_moves(by), Fine(monitor),
         by >= 0 \/ (by = -Jump /\ monitor.since_update = 0)
  PROVE  Fine(monitor')
<1>1. /\ MonitorBounds(monitor') /\ monitor'.slow_windows = monitor.slow_windows
      /\ monitor'.elapsed = Cap(monitor.elapsed + by)
      /\ monitor'.since_update =
           IF monitor.since_update + by > 0 THEN 0 ELSE monitor.since_update + by
  BY MonitorMoves DEF Fine
<1>2. PICK e \in Int, g \in Int : e = monitor.elapsed /\ g = monitor.since_update
                                /\ g \in -Jump .. 0 /\ e >= g
  BY PeriodType DEF Fine, MonitorBounds, Monitors
<1>3. PICK top \in Nat : top = MaxSlowWindows * RateWindow
  BY PeriodType
<1>4. monitor'.since_update \in -Jump .. 0
  BY <1>1, <1>2, PeriodType
<1>5. monitor'.elapsed >= monitor'.since_update
  BY <1>1, <1>2, <1>3 DEF Cap
<1> QED BY <1>1, <1>4, <1>5 DEF Fine

LEMMA PlannerInvInit == PlannerInit => PlannerInv
<1> SUFFICES ASSUME PlannerInit PROVE PlannerInv
  OBVIOUS
<1>1. Fine(monitor)
  BY ResetIsFine DEF PlannerInit
<1>2. Len(plugins_) <= MaxPlugins /\ since_run \in -Jump .. 0
  BY PeriodType DEF PlannerInit, MaxPlugins
<1>3. OthersTyped
  BY <1>2 DEF PlannerInit, OthersTyped
<1> QED BY <1>1, <1>3, ScheduleInvInit DEF PlannerInv

LEMMA MonitorStaysFine ==
  Fine(monitor) /\ [PlannerNext]_plannerVars => Fine(monitor')
<1> SUFFICES ASSUME Fine(monitor), [PlannerNext]_plannerVars PROVE Fine(monitor')
  OBVIOUS
<1>1. CASE clock_ticks
  BY <1>1, FineMoves DEF clock_ticks
<1>2. CASE jump
  <2>1. PICK by \in {-Jump, MaxSlowWindows * RateWindow} :
          clock_moves(by) /\ (by < 0 => monitor.since_update = 0)
    BY <1>2 DEF jump
  <2>2. by \in Int /\ (by >= 0 \/ (by = -Jump /\ monitor.since_update = 0))
    BY <2>1, PeriodType
  <2> QED BY <2>1, <2>2, FineMoves
<1>3. CASE internal_update \/ force_update
  <2>1. \/ monitor' = run(update(monitor)) \/ monitor' = update(monitor)
        \/ monitor' = run(monitor)
    BY <1>3 DEF internal_update, force_update
  <2> QED BY <2>1, FineKept
<1>4. CASE configure \/ activate \/ deactivate \/ release \/ check_path \/ UNCHANGED plannerVars
  <2>1. monitor' = MonitorReset \/ monitor' = monitor
    BY <1>4 DEF configure, activate, deactivate, release, check_path, plannerVars
  <2> QED BY <2>1, ResetIsFine
<1> QED BY <1>1, <1>2, <1>3, <1>4 DEF PlannerNext

LEMMA OthersStayTyped ==
  PlannerInv /\ [PlannerNext]_plannerVars => OthersTyped'
<1> SUFFICES ASSUME PlannerInv, [PlannerNext]_plannerVars PROVE OthersTyped'
  OBVIOUS
<1>1. OthersTyped /\ since_run \in Int /\ since_run <= 0 /\ -Jump \in Int /\ -Jump <= 0
      /\ 0 \in -Jump .. 0
  BY PeriodType DEF PlannerInv, ScheduleInv, ScheduleTypes
<1>2. CASE configure
  <2>1. /\ since_run' = 0 \/ since_run' = since_run
        /\ reported' = "none" \/ reported' = reported
        /\ UNCHANGED <<pathVars, rate_level, checking, historyVars>>
    BY <1>2 DEF configure, scheduleVars
  <2>2. \/ planner_node' = "inactive" /\ Len(plugins_') <= MaxPlugins
        \/ UNCHANGED <<planner_node, plugins_>>
    BY <1>2 DEF configure
  <2> QED BY <1>1, <2>1, <2>2 DEF OthersTyped, pathVars, historyVars
<1>3. CASE activate \/ deactivate \/ release
  <2>1. /\ since_run' = since_run /\ reported' = reported
        /\ UNCHANGED <<pathVars, rate_level, checking>>
        /\ prompt' = TRUE \/ prompt' = prompt
        /\ tracked' = FALSE \/ tracked' = tracked
    BY <1>3 DEF activate, deactivate, release, scheduleVars, historyVars
  <2>2. \/ planner_node' \in {"inactive", "active"} /\ plugins_' = plugins_
        \/ planner_node' = "unconfigured" /\ plugins_' = << >>
    BY <1>3 DEF activate, deactivate, release
  <2>3. Len(<< >>) <= MaxPlugins
    BY DEF MaxPlugins
  <2>4. /\ planner_node' \in {"unconfigured", "inactive", "active"}
        /\ Len(plugins_') <= MaxPlugins
        /\ planner_node' = "unconfigured" => plugins_' = << >>
    BY <1>1, <2>2, <2>3 DEF OthersTyped
  <2>5. prompt' \in BOOLEAN /\ tracked' \in BOOLEAN
    BY <1>1, <2>1 DEF OthersTyped
  <2> QED BY <1>1, <2>1, <2>4, <2>5 DEF OthersTyped, pathVars
<1>4. CASE internal_update
  <2>1. /\ UNCHANGED <<planner_node, plugins_, last_path_finite_, path_level, prompt, tracked>>
        /\ checking' = TRUE
        /\ since_run' = 0 \/ since_run' = since_run
        /\ path' \in {path, "finite", "non_finite"}
        /\ report(update(monitor).status)
    BY <1>4 DEF internal_update, Cycling, update_path
  <2>2. update(monitor).status \in RateStatus
    <3>1. update(monitor) \in Monitors
      BY FineKept DEF PlannerInv, Fine, MonitorBounds
    <3> QED BY <3>1 DEF Monitors
  <2>3. reported' \in RateStatus /\ rate_level' \in {rate_level, "OK", "WARN"}
    BY <2>1, <2>2 DEF report
  <2> QED BY <1>1, <2>1, <2>3 DEF OthersTyped
<1>5. CASE force_update
  <2>1. /\ UNCHANGED <<planner_node, plugins_, last_path_finite_, path_level, reported, rate_level>>
        /\ checking' = TRUE /\ since_run' = 0 /\ tracked' = TRUE
        /\ path' \in {path, "finite", "non_finite"} /\ prompt' \in BOOLEAN
    BY <1>1, <1>5 DEF force_update, Cycling, update_path
  <2> QED BY <1>1, <2>1 DEF OthersTyped
<1>6. CASE check_path
  <2>1. /\ UNCHANGED <<planner_node, plugins_, since_run, reported, rate_level, prompt, tracked>>
        /\ checking' = FALSE /\ path' \in {"none", "finite"}
        /\ last_path_finite_' \in {last_path_finite_, path}
        /\ path_level' \in {path_level, "OK", "ERROR"}
    BY <1>6 DEF check_path, scheduleVars, historyVars
  <2> QED BY <1>1, <2>1 DEF OthersTyped
<1>7. CASE clock_ticks
  <2>1. clock_moves(1)
    BY <1>7 DEF clock_ticks
  <2>2. UNCHANGED <<planner_node, plugins_, reported, pathVars, rate_level, checking>>
    BY <2>1 DEF clock_moves
  <2>3. since_run' = IF since_run + 1 > 0 THEN 0 ELSE since_run + 1
    BY <2>1 DEF clock_moves
  <2>4. since_run' \in -Jump .. 0
    <3>1. since_run \in -Jump .. 0
      BY <1>1 DEF OthersTyped
    <3> QED BY <1>1, <2>3, <3>1
  <2>5. prompt' \in BOOLEAN /\ tracked' \in BOOLEAN
    BY <1>7 DEF clock_ticks
  <2> QED BY <1>1, <2>2, <2>4, <2>5 DEF OthersTyped, pathVars
<1>8. CASE jump
  <2>1. PICK by \in {-Jump, MaxSlowWindows * RateWindow} :
          /\ clock_moves(by) /\ (by < 0 => since_run = 0)
          /\ prompt' = (prompt /\ by < 0)
    BY <1>8 DEF jump
  <2>2. UNCHANGED <<planner_node, plugins_, reported, pathVars, rate_level, checking>>
    BY <2>1 DEF clock_moves
  <2>3. since_run' = IF since_run + by > 0 THEN 0 ELSE since_run + by
    BY <2>1 DEF clock_moves
  <2>4. since_run' \in -Jump .. 0
    <3>1. since_run \in -Jump .. 0
      BY <1>1 DEF OthersTyped
    <3>2. by \in Int /\ (by >= 0 \/ (by = -Jump /\ since_run = 0))
      BY <2>1, PeriodType
    <3> QED BY <1>1, <2>3, <3>1, <3>2
  <2>5. prompt' \in BOOLEAN /\ tracked' = FALSE
    BY <1>8, <2>1 DEF jump
  <2> QED BY <1>1, <2>2, <2>4, <2>5 DEF OthersTyped, pathVars
<1>9. CASE UNCHANGED plannerVars
  BY <1>1, <1>9 DEF OthersTyped, plannerVars, scheduleVars, pathVars, historyVars
<1> QED BY <1>2, <1>3, <1>4, <1>5, <1>6, <1>7, <1>8, <1>9 DEF PlannerNext

LEMMA PlannerInvTypes == PlannerInv => PlannerTypeOK
<1> SUFFICES ASSUME PlannerInv PROVE PlannerTypeOK
  OBVIOUS
<1>1. next_in \in Int /\ since_check \in 0 .. Period /\ lag \in Int
  BY DEF PlannerInv, ScheduleInv, ScheduleTypes
<1>2. PICK m \in Monitors : /\ m = monitor /\ m.elapsed <= MaxSlowWindows * RateWindow
                           /\ m.runs <= MaxRuns
                           /\ m.since_update \in -Jump .. 0 /\ m.elapsed >= m.since_update
                           /\ m.slow_windows \in 0 .. MaxSlowWindows
  BY DEF PlannerInv, Fine, MonitorBounds
<1>3. m.elapsed \in Ages
  <2>1. PICK e \in Int, top \in Nat, j \in Nat :
          e = m.elapsed /\ top = MaxSlowWindows * RateWindow /\ j = Jump
    BY PeriodType DEF Monitors
  <2>2. e \in -j .. top
    BY <1>2, <2>1
  <2> QED BY <2>1, <2>2 DEF Ages
<1>4. m.runs \in 0 .. MaxRuns
  BY <1>2, RateConstants DEF Monitors
<1>5. monitor \in [started : BOOLEAN, elapsed : Ages, since_update : -Jump .. 0, runs : 0 .. MaxRuns,
                   slow_windows : 0 .. MaxSlowWindows, status : RateStatus]
  BY <1>2, <1>3, <1>4 DEF Monitors
<1> QED BY <1>1, <1>5 DEF PlannerInv, OthersTyped, PlannerTypeOK

\* The variables of PlannerNode, its schedule and its RateMonitor keep their types,
\* for any period and however the clock moves: in particular the windows that the
\* monitor counts stay in the range of their counter, and no plugin is left when
\* the node is released (PlannerNode, PluginSwitcher, RateMonitor).
THEOREM PlannerTypes == PlannerSpec => []PlannerTypeOK
<1>1. PlannerInv /\ [PlannerNext]_plannerVars => PlannerInv'
  BY ScheduleInvNext, MonitorStaysFine, OthersStayTyped DEF PlannerInv
<1> QED BY <1>1, PlannerInvInit, PlannerInvTypes, PTL DEF PlannerSpec
=============================================================================
