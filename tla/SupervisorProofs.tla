-------------------------- MODULE SupervisorProofs --------------------------
(***************************************************************************)
(* For any periods, timeouts and statuses, and over any configurations and *)
(* activations: on whose word the robot moves, what inhibits it, and that  *)
(* the diagnostics say what the cycles find.                               *)
(***************************************************************************)
EXTENDS SafetySupervisor, TLAPS

-----------------------------------------------------------------------------
(* The types.                                                              *)

\* The assumption, in parts.
LEMMA SupervisorConstants == /\ MaxLate \in Nat /\ MaxLate > 0 /\ 0 \in 0 .. MaxLate /\ 0 \in Nat
                /\ MaxPeriod \in Nat /\ HeartbeatPeriod \in Nat
                /\ StatusTimeout \in Nat /\ MaxPoseAge \in Nat
BY SupervisorAssumption

LEMMA UnsetApart == /\ Unset \notin Int /\ Unset \notin BOOLEAN
                    /\ Unset \notin RtStatus /\ Unset \notin Evaluation
BY SupervisorAssumption

LEMMA EvaluateType ==
  ASSUME SupervisorTypeOK
  PROVE  evaluate \in Evaluation
<1>1. Lost \in State
  BY DEF Lost, State
<1>2. last # NoStatus => last.protective_stop \in BOOLEAN
  BY SupervisorAssumption DEF SupervisorTypeOK, Status
<1>3. last # NoStatus => [status_lost |-> FALSE, protective_stop |-> last.protective_stop,
                          limited |-> last.limit = "valid"] \in State
  BY <1>2 DEF State
<1> HIDE DEF State
<1> QED BY <1>1, <1>3 DEF evaluate, Evaluation

LEMMA OlderType ==
  ASSUME NEW age \in Nat \cup {Unset}, NEW cap \in Nat
  PROVE  /\ Older(age, cap) \in Nat \cup {Unset}
         /\ Older(age, cap) = Unset <=> age = Unset
BY UnsetApart DEF Older

LEMMA LateType ==
  ASSUME SupervisorTypeOK
  PROVE  /\ cycle_started \in 0 .. MaxLate
         /\ rt_status(cycle_started) \in RtStatus
         /\ rt_level(rt_status(cycle_started)) \in Levels
<1>1. cycle_started \in 0 .. MaxLate
  BY SupervisorAssumption DEF SupervisorTypeOK, cycle_started
<1> QED BY <1>1 DEF rt_status, RtStatus, rt_level, Levels

\* What a cycle does to each report.
LEMMA CycleReports ==
  ASSUME SupervisorTypeOK, cycle_rt
  PROVE  /\ last_rt_report' = report_rt_status(rt_status(cycle_started)).last
         /\ diagnostics'.rt_cycle = report_rt_status(rt_status(cycle_started)).level
         /\ last_safety_report' = report_safety_status.last
         /\ diagnostics'.safety_status = report_safety_status.level
         /\ last_pose_stale' = check_pose_age.last
         /\ diagnostics'.robot_pose = check_pose_age.level
         /\ diagnostics' \in [rt_cycle : Levels, safety_status : Levels, robot_pose : Levels]
<1>1. /\ diagnostics' = [rt_cycle |-> report_rt_status(rt_status(cycle_started)).level,
                         safety_status |-> report_safety_status.level,
                         robot_pose |-> check_pose_age.level]
      /\ last_rt_report' = report_rt_status(rt_status(cycle_started)).last
      /\ last_safety_report' = report_safety_status.last
      /\ last_pose_stale' = check_pose_age.last
  BY DEF cycle_rt
<1>2. report_rt_status(rt_status(cycle_started)).level \in Levels
  BY LateType DEF report_rt_status, SupervisorTypeOK
<1>3. report_safety_status.level \in Levels
  BY DEF report_safety_status, safety_level, Levels, SupervisorTypeOK
<1>4. check_pose_age.level \in Levels
  BY DEF check_pose_age, Levels, SupervisorTypeOK
<1> QED BY <1>1, <1>2, <1>3, <1>4

LEMMA SupervisorTypes == SupervisorTypeOK /\ [SupervisorNext]_supervisorVars => SupervisorTypeOK'
<1> SUFFICES ASSUME SupervisorTypeOK, [SupervisorNext]_supervisorVars PROVE SupervisorTypeOK'
  OBVIOUS
<1> USE DEF lifeVars, rtVars, channelVars, reportVars, poseVars, outputVars
<1>1. ASSUME NEW msg \in Statuses, received(msg) PROVE SupervisorTypeOK'
  <2>1. permitted' \in BOOLEAN
    BY <1>1 DEF received
  <2> QED BY <1>1, <2>1 DEF received, SupervisorTypeOK
<1>2. ASSUME supervisor_check_system PROVE SupervisorTypeOK'
  <2>1. strict' \in BOOLEAN /\ receives' \in BOOLEAN
    BY <1>2 DEF supervisor_check_system
  <2>2. last' \in Statuses \cup {NoStatus} /\ since_status' \in Nat
    BY <1>2 DEF supervisor_check_system, SupervisorTypeOK
  <2>3. supervised' \in {"unconfigured", "configuring"}
    BY <1>2 DEF supervisor_check_system
  <2>4. 0 \in 0 .. MaxLate
    BY SupervisorConstants
  <2>5. /\ since_cycle' = Unset /\ consecutive_late' = 0 /\ permitted' = FALSE
        /\ UNCHANGED <<is_frozen, failure, since_heartbeat, reportVars, poseVars, outputVars>>
    BY <1>2 DEF supervisor_check_system
  <2> QED BY <2>1, <2>2, <2>3, <2>4, <2>5, Zenon DEF SupervisorTypeOK
<1>3. ASSUME supervisor_on_configured PROVE SupervisorTypeOK'
  <2>1. safety_status' \in State
    <3>1. evaluate.state \in State
      BY EvaluateType DEF Evaluation
    <3>2. NoRestriction \in State
      BY DEF NoRestriction, State
    <3> QED BY <1>3, <3>1, <3>2 DEF supervisor_on_configured, SupervisorTypeOK
  <2> QED BY <1>3, <2>1 DEF supervisor_on_configured, SupervisorTypeOK
<1>4. ASSUME on_activate \/ deactivate_or_cleanup PROVE SupervisorTypeOK'
  <2>1. 0 \in 0 .. MaxLate
    BY SupervisorConstants
  <2>2. CASE on_activate
    BY <2>1, <2>2 DEF on_activate, SupervisorTypeOK
  <2>3. CASE deactivate_or_cleanup
    BY <2>3 DEF deactivate_or_cleanup, SupervisorTypeOK
  <2> QED BY <1>4, <2>2, <2>3
<1>5. ASSUME cycle_rt PROVE SupervisorTypeOK'
  <2>1. /\ since_cycle' = 0 /\ consecutive_late' \in 0 .. MaxLate /\ failure' \in BOOLEAN
        /\ since_heartbeat' \in Nat \cup {Unset} /\ inhibit_motion' \in BOOLEAN
        /\ UNCHANGED <<lifeVars, channelVars, poseVars>>
    BY <1>5, LateType DEF cycle_rt, SupervisorTypeOK, inhibited, unusable
  <2>2. safety_status' \in State
    BY <1>5, EvaluateType DEF cycle_rt, SupervisorTypeOK, Evaluation
  <2>3. last_rt_report' \in RtStatus \cup {Unset}
    BY <1>5, CycleReports, LateType DEF report_rt_status, SupervisorTypeOK
  <2>4. last_safety_report' \in Evaluation \cup {Unset}
    BY <1>5, CycleReports, EvaluateType DEF report_safety_status, SupervisorTypeOK
  <2>5. last_pose_stale' \in BOOLEAN \cup {Unset}
    BY <1>5, CycleReports DEF check_pose_age, unusable, SupervisorTypeOK
  <2> QED BY <1>5, <2>1, <2>2, <2>3, <2>4, <2>5, CycleReports DEF SupervisorTypeOK
<1>6. ASSUME localized PROVE SupervisorTypeOK'
  BY <1>6 DEF localized, SupervisorTypeOK
<1>7. ASSUME Tick PROVE SupervisorTypeOK'
  <2>1. /\ since_cycle' \in Nat \cup {Unset} /\ since_heartbeat' \in Nat \cup {Unset}
    <3>1. MaxPeriod + 1 \in Nat
      BY SupervisorConstants
    <3> QED BY <1>7, <3>1, OlderType, SupervisorConstants DEF Tick, SupervisorTypeOK
  <2>2. since_status' \in Nat /\ pose_age' \in Nat
    BY <1>7, SupervisorAssumption DEF Tick, SupervisorTypeOK, Older
  <2> QED BY <1>7, <2>1, <2>2 DEF Tick, SupervisorTypeOK
<1>8. ASSUME UNCHANGED supervisorVars PROVE SupervisorTypeOK'
  BY <1>8 DEF supervisorVars, SupervisorTypeOK
<1> QED BY <1>1, <1>2, <1>3, <1>4, <1>5, <1>6, <1>7, <1>8 DEF SupervisorNext

-----------------------------------------------------------------------------
(* What the steps keep true.                                               *)

\* The last status of the safety channel says whether the robot may move.
WordKept == receives /\ last # NoStatus =>
  permitted = (~last.protective_stop /\ last.limit # "invalid")

\* Safety mode, once it is on, is frozen; and only in safety mode is the robot
\* inhibited.
ModeKept ==
  /\ strict /\ supervised \in {"inactive", "active"} => is_frozen
  /\ inhibit_motion => strict /\ is_frozen

\* From the first cycle after an activation on, what was reported last is what
\* that cycle found, and the diagnostics say it.
RtReportKept ==
  /\ since_cycle = Unset => consecutive_late = 0
  /\ last_rt_report = Unset => diagnostics.rt_cycle = "NONE"
  /\ last_rt_report = "OK" => diagnostics.rt_cycle = "OK"
  /\ since_cycle # Unset =>
       IF last_rt_report = Unset THEN consecutive_late = 0
       ELSE /\ last_rt_report = rt_status(consecutive_late)
            /\ diagnostics.rt_cycle = rt_level(last_rt_report)
ReportsKept ==
  /\ last_safety_report # Unset =>
       diagnostics.safety_status = safety_level(last_safety_report)
  /\ last_pose_stale = TRUE => diagnostics.robot_pose = "ERROR"

SupervisorInv == SupervisorTypeOK /\ WordKept /\ ModeKept /\ RtReportKept /\ ReportsKept

LEMMA SupervisorInvInit == SupervisorInit => SupervisorInv
<1> SUFFICES ASSUME SupervisorInit PROVE SupervisorInv
  OBVIOUS
<1>1. SupervisorTypeOK
  <2>1. NoRestriction \in State
    BY DEF NoRestriction, State
  <2>2. [rt_cycle |-> "NONE", safety_status |-> "NONE", robot_pose |-> "NONE"]
          \in [rt_cycle : Levels, safety_status : Levels, robot_pose : Levels]
    BY DEF Levels
  <2>3. 0 \in Nat /\ 0 \in 0 .. MaxLate
    BY SupervisorConstants
  <2> QED BY <2>1, <2>2, <2>3 DEF SupervisorInit, SupervisorTypeOK
<1>2. WordKept /\ ModeKept /\ RtReportKept /\ ReportsKept
  <2>1. Unset # "OK" /\ Unset # TRUE
    BY UnsetApart DEF RtStatus
  <2> QED BY <2>1 DEF SupervisorInit, WordKept, ModeKept, RtReportKept, ReportsKept
<1> QED BY <1>1, <1>2 DEF SupervisorInv

\* A cycle that finds nothing to report has reported it before.
LEMMA RtReported ==
  ASSUME SupervisorInv, cycle_rt
  PROVE  IF last_rt_report' = Unset
         THEN consecutive_late' = 0 /\ diagnostics'.rt_cycle = "NONE"
         ELSE /\ last_rt_report' = rt_status(consecutive_late')
              /\ diagnostics'.rt_cycle = rt_level(last_rt_report')
<1> DEFINE status == rt_status(cycle_started)
<1>1. /\ SupervisorTypeOK /\ RtReportKept
      /\ cycle_started \in 0 .. MaxLate /\ status \in RtStatus
  BY LateType DEF SupervisorInv
<1>2. consecutive_late' = cycle_started
  BY DEF cycle_rt
<1>3. status # Unset
  BY <1>1, UnsetApart
<1>4. status = "OK" <=> cycle_started = 0
  BY <1>1, SupervisorConstants DEF rt_status
<1>5. since_cycle = Unset => status = "OK"
  BY <1>1, <1>4 DEF cycle_started, RtReportKept
<1>6. CASE rt_changed(status)
  <2>1. last_rt_report' = status /\ diagnostics'.rt_cycle = rt_level(status)
    BY <1>1, <1>6, CycleReports DEF report_rt_status
  <2> QED BY <1>2, <1>3, <2>1
<1>7. CASE ~rt_changed(status)
  <2>1. last_rt_report' = last_rt_report /\ diagnostics'.rt_cycle = diagnostics.rt_cycle
    BY <1>1, <1>7, CycleReports DEF report_rt_status
  <2>2. CASE last_rt_report = Unset
    BY <1>1, <1>2, <1>4, <1>7, <2>1, <2>2 DEF rt_changed, RtReportKept
  <2>3. CASE last_rt_report # Unset
    <3>1. last_rt_report = status
      BY <1>7, <2>3 DEF rt_changed
    <3>2. diagnostics.rt_cycle = rt_level(status)
      BY <1>1, <1>5, <2>3, <3>1 DEF RtReportKept, rt_level
    <3> QED BY <1>2, <2>1, <2>3, <3>1, <3>2
  <2> QED BY <2>2, <2>3
<1> QED BY <1>6, <1>7

LEMMA OtherReports ==
  ASSUME SupervisorInv, cycle_rt
  PROVE  /\ ReportsKept'
         /\ receives => diagnostics'.safety_status = safety_level(evaluate)
         /\ pose_checked /\ unusable => diagnostics'.robot_pose = "ERROR"
<1>1. SupervisorTypeOK /\ ReportsKept
  BY DEF SupervisorInv
<1>2. evaluate \in Evaluation /\ evaluate # Unset
  BY <1>1, EvaluateType, UnsetApart
<1>3. /\ last_safety_report' # Unset => diagnostics'.safety_status = safety_level(last_safety_report')
      /\ receives => last_safety_report' = evaluate
  BY <1>1, <1>2, CycleReports DEF report_safety_status, ReportsKept
<1>4. unusable \in BOOLEAN
  BY DEF unusable
<1>5. /\ last_pose_stale' = TRUE => diagnostics'.robot_pose = "ERROR"
      /\ pose_checked /\ unusable => last_pose_stale' = TRUE
  <2>1. CASE pose_checked /\ (IF last_pose_stale = Unset THEN unusable ELSE last_pose_stale # unusable)
    <3>1. last_pose_stale' = unusable /\ diagnostics'.robot_pose = IF unusable THEN "ERROR" ELSE "OK"
      BY <1>1, <2>1, CycleReports DEF check_pose_age
    <3> QED BY <1>4, <3>1
  <2>2. CASE ~(pose_checked /\ (IF last_pose_stale = Unset THEN unusable ELSE last_pose_stale # unusable))
    <3>1. last_pose_stale' = last_pose_stale /\ diagnostics'.robot_pose = diagnostics.robot_pose
      BY <1>1, <2>2, CycleReports DEF check_pose_age
    <3> QED BY <1>1, <1>4, <2>2, <3>1 DEF ReportsKept
  <2> QED BY <2>1, <2>2
<1>6. receives => diagnostics'.safety_status = safety_level(evaluate)
  BY <1>2, <1>3
<1> QED BY <1>3, <1>5, <1>6 DEF ReportsKept, safety_level

LEMMA SupervisorInvNext == SupervisorInv /\ [SupervisorNext]_supervisorVars => SupervisorInv'
<1> SUFFICES ASSUME SupervisorInv, [SupervisorNext]_supervisorVars PROVE SupervisorInv'
  OBVIOUS
<1>1. SupervisorTypeOK'
  BY SupervisorTypes DEF SupervisorInv
<1>2. SUFFICES (WordKept /\ ModeKept /\ RtReportKept /\ ReportsKept)'
  BY <1>1 DEF SupervisorInv
<1> USE DEF lifeVars, rtVars, channelVars, reportVars, poseVars, outputVars
<1>3. ASSUME UNCHANGED <<lifeVars, rtVars, reportVars, outputVars>>,
             (\E msg \in Statuses : received(msg)) \/ UNCHANGED <<last, permitted>>
      PROVE  (WordKept /\ ModeKept /\ RtReportKept /\ ReportsKept)'
  <2>1. WordKept'
    BY <1>3 DEF received, SupervisorInv, WordKept
  <2>2. (ModeKept /\ RtReportKept /\ ReportsKept)'
    BY <1>3 DEF SupervisorInv, ModeKept, RtReportKept, ReportsKept, rt_status, rt_level, safety_level
  <2> QED BY <2>1, <2>2
<1>4. ASSUME supervisor_check_system
      PROVE  (WordKept /\ ModeKept /\ RtReportKept /\ ReportsKept)'
  <2>1. WordKept'
    BY <1>4 DEF supervisor_check_system, WordKept
  <2>2. ModeKept'
    BY <1>4 DEF supervisor_check_system, SupervisorInv, ModeKept
  <2>3. (RtReportKept /\ ReportsKept)'
    BY <1>4 DEF supervisor_check_system, SupervisorInv, RtReportKept, ReportsKept, safety_level
  <2> QED BY <2>1, <2>2, <2>3
<1>5. ASSUME supervisor_on_configured \/ deactivate_or_cleanup
      PROVE  (WordKept /\ ModeKept /\ RtReportKept /\ ReportsKept)'
  <2>1. /\ UNCHANGED <<strict, receives, rtVars, channelVars, reportVars, inhibit_motion>>
        /\ is_frozen' = is_frozen \/ is_frozen' = (is_frozen \/ strict)
        /\ supervised' \in {"inactive", "active"} =>
             supervised \in {"inactive", "active"} \/ is_frozen' = (is_frozen \/ strict)
    BY <1>5 DEF supervisor_on_configured, deactivate_or_cleanup
  <2>2. (WordKept /\ ModeKept)'
    BY <2>1 DEF SupervisorInv, SupervisorTypeOK, WordKept, ModeKept
  <2>3. (RtReportKept /\ ReportsKept)'
    BY <2>1 DEF SupervisorInv, RtReportKept, ReportsKept, rt_status, rt_level, safety_level
  <2> QED BY <2>2, <2>3
<1>6. ASSUME on_activate
      PROVE  (WordKept /\ ModeKept /\ RtReportKept /\ ReportsKept)'
  BY <1>6, UnsetApart DEF on_activate, SupervisorInv, WordKept, ModeKept, RtReportKept, ReportsKept
<1>7. ASSUME cycle_rt
      PROVE  (WordKept /\ ModeKept /\ RtReportKept /\ ReportsKept)'
  <2>1. WordKept'
    BY <1>7 DEF cycle_rt, SupervisorInv, WordKept
  <2>2. ModeKept'
    BY <1>7 DEF cycle_rt, inhibited, SupervisorInv, ModeKept
  <2>3. since_cycle' # Unset
    BY <1>7, UnsetApart DEF cycle_rt
  <2>4. last_rt_report' = "OK" => last_rt_report' # Unset /\ rt_level(last_rt_report') = "OK"
    BY UnsetApart DEF RtStatus, rt_level
  <2>5. rt_level(last_rt_report)' = rt_level(last_rt_report') /\ rt_status(consecutive_late)' = rt_status(consecutive_late')
    BY <1>7 DEF cycle_rt, rt_level, rt_status
  <2>6. RtReportKept'
    BY <1>7, <2>3, <2>4, <2>5, RtReported DEF RtReportKept
  <2> QED BY <1>7, <2>1, <2>2, <2>6, OtherReports
<1>8. ASSUME localized \/ UNCHANGED supervisorVars
      PROVE  (WordKept /\ ModeKept /\ RtReportKept /\ ReportsKept)'
  BY <1>3, <1>8 DEF localized, supervisorVars
<1>9. ASSUME Tick
      PROVE  (WordKept /\ ModeKept /\ RtReportKept /\ ReportsKept)'
  <2>1. since_cycle' = Unset <=> since_cycle = Unset
    <3>1. MaxPeriod + 1 \in Nat
      BY SupervisorConstants
    <3> QED BY <1>9, <3>1, OlderType DEF Tick, SupervisorInv, SupervisorTypeOK
  <2>2. UNCHANGED <<lifeVars, consecutive_late, failure, last, permitted, reportVars, outputVars>>
    BY <1>9 DEF Tick
  <2>3. (WordKept /\ ModeKept)'
    BY <2>2 DEF SupervisorInv, WordKept, ModeKept
  <2>4. (RtReportKept /\ ReportsKept)'
    BY <2>1, <2>2 DEF SupervisorInv, RtReportKept, ReportsKept, rt_status, rt_level, safety_level
  <2> QED BY <2>3, <2>4
<1> QED BY <1>3, <1>4, <1>5, <1>6, <1>7, <1>8, <1>9 DEF SupervisorNext, received

LEMMA SupervisorInvariant == SupervisorSpec => []SupervisorInv
BY SupervisorInvInit, SupervisorInvNext, PTL DEF SupervisorSpec

-----------------------------------------------------------------------------
(* What the supervisor promises.                                           *)

\* Whatever arrives and however often SystemNode is configured: a cycle lets the
\* robot move on the last status only, valid and in time (SafetyChannelMonitor).
THEOREM MovesOnWordOnly == SupervisorSpec => LostIsStopped
<1>1. ASSUME SupervisorInv, cycle_rt, receives, ~safety_status'.protective_stop
      PROVE  permitted /\ since_status <= StatusTimeout
  <2>1. safety_status' = evaluate.state
    BY <1>1 DEF cycle_rt
  <2>2. Lost.protective_stop = TRUE
    BY DEF Lost
  <2>3. evaluate.condition = "VALID" /\ evaluate.state.protective_stop = FALSE
    BY <1>1, <2>1, <2>2 DEF evaluate
  <2>4. /\ last # NoStatus /\ last.limit # "invalid" /\ ~(since_status > StatusTimeout)
        /\ ~last.protective_stop
    BY <1>1, <2>1, <2>2 DEF evaluate, invalid_reason
  <2>5. permitted
    BY <1>1, <2>4 DEF SupervisorInv, WordKept
  <2> QED BY <1>1, <2>4, <2>5, SupervisorConstants DEF SupervisorInv, SupervisorTypeOK
<1> QED BY <1>1, SupervisorInvariant, PTL DEF LostIsStopped

\* A robot inhibited for its pose moves again on a usable pose only, whatever the
\* transitions in between (SafetySupervisor::check_pose_age()).
THEOREM ReleasedByPoseOnly == SupervisorSpec => InhibitedUntilUsable
<1> DEFINE Right == /\ inhibit_motion /\ ~inhibit_motion' =>
                         cycle_rt /\ robot_pose = "finite" /\ pose_age <= MaxPoseAge
                    /\ inhibit_motion' => strict'
                    /\ cycle_rt /\ strict /\ pose_checked /\ unusable => inhibit_motion'
<1>1. ASSUME SupervisorInv, SupervisorInv', [SupervisorNext]_supervisorVars PROVE Right
  <2>1. inhibit_motion' => strict'
    BY <1>1 DEF SupervisorInv, ModeKept
  <2>2. cycle_rt \/ inhibit_motion' = inhibit_motion
    BY <1>1 DEF SupervisorNext, supervisorVars, outputVars, received, supervisor_check_system,
       supervisor_on_configured, on_activate, deactivate_or_cleanup, localized, Tick
  <2>3. ASSUME cycle_rt, inhibit_motion, ~inhibit_motion'
        PROVE  robot_pose = "finite" /\ pose_age <= MaxPoseAge
    <3>1. pose_checked /\ ~unusable
      BY <2>3 DEF cycle_rt, inhibited
    <3> QED BY <1>1, <3>1, SupervisorConstants
            DEF pose_checked, unusable, SupervisorInv, SupervisorTypeOK
  <2>4. cycle_rt /\ strict /\ pose_checked /\ unusable => inhibit_motion'
    BY DEF cycle_rt, inhibited
  <2> QED BY <2>1, <2>2, <2>3, <2>4
<1>2. SupervisorInv /\ SupervisorInv' /\ [SupervisorNext]_supervisorVars => [Right]_supervisorVars
  BY <1>1
<1> QED BY <1>2, SupervisorInvariant, PTL DEF SupervisorSpec, InhibitedUntilUsable

\* Though only changes are written, a cycle leaves in the diagnostics the rate it
\* found and, when it receives a status, what that status says, whether they are
\* good or bad news; and a pose that cannot be used is reported.  A pose that can
\* be used may leave an earlier ERROR reported, when EasyNav was activated between
\* the two: nothing is stated of it (SafetySupervisor's three reports).
THEOREM DiagnosticsAreTrue == SupervisorSpec => ReportsAreTrue
<1>1. ASSUME SupervisorInv, cycle_rt
      PROVE  /\ \/ diagnostics'.rt_cycle = rt_level(rt_status(consecutive_late'))
                \/ diagnostics'.rt_cycle = "NONE" /\ consecutive_late' = 0
             /\ receives => diagnostics'.safety_status = safety_level(evaluate)
             /\ pose_checked /\ unusable => diagnostics'.robot_pose = "ERROR"
  <2>1. \/ /\ last_rt_report' = rt_status(consecutive_late')
           /\ diagnostics'.rt_cycle = rt_level(last_rt_report')
        \/ diagnostics'.rt_cycle = "NONE" /\ consecutive_late' = 0
    BY <1>1, RtReported
  <2>2. last_rt_report' = rt_status(consecutive_late') =>
          rt_level(last_rt_report') = rt_level(rt_status(consecutive_late'))
    OBVIOUS
  <2> QED BY <1>1, <2>1, <2>2, OtherReports
<1> QED BY <1>1, SupervisorInvariant, PTL DEF ReportsAreTrue
=============================================================================
