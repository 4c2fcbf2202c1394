-------------------------- MODULE SafetySupervisor -------------------------
(***************************************************************************)
(* easynav_system's SafetySupervisor with its RtMonitor and its            *)
(* SafetyChannelMonitor: at the start of each real-time (RT) cycle of an   *)
(* active SystemNode it watches the period of the cycle, sends a           *)
(* heartbeat, applies what the safety channel said last, checks the age of *)
(* the robot's pose, and reports what changed.  Statuses of the safety     *)
(* channel and poses arrive at any time; SystemNode is configured and      *)
(* activated again and again.                                              *)
(*                                                                         *)
(* Times are ages, moved by Tick and capped one above what they are        *)
(* compared with.  The pose is as old as the ROS clock says, which may     *)
(* stand still or jump back; everything else follows the steady clock.     *)
(***************************************************************************)
EXTENDS Integers

CONSTANTS MaxPeriod, MaxLate,   \* safety.rt_monitor.*
          HeartbeatPeriod, StatusTimeout, MaxPoseAge,
          Statuses,             \* what the safety channel may send
          NoStatus, Unset       \* no status; an optional that has no value

Status == [protective_stop : BOOLEAN, limit : {"none", "valid", "invalid"}]
RtStatus == {"OK", "LATE", "ERROR"}
State == [status_lost : BOOLEAN, protective_stop : BOOLEAN, limited : BOOLEAN]
Evaluation == [condition : {"NO_STATUS", "INVALID", "STALE", "VALID"}, state : State]

ASSUME SupervisorAssumption ==
  /\ MaxPeriod \in Nat /\ MaxLate \in Nat \ {0}
  /\ HeartbeatPeriod \in Nat /\ StatusTimeout \in Nat /\ MaxPoseAge \in Nat
  /\ Statuses \subseteq Status /\ NoStatus \notin Status
  /\ Unset \notin Int /\ Unset \notin BOOLEAN /\ Unset \notin RtStatus /\ Unset \notin Evaluation

VARIABLES
  \* SystemNode; its parameters safety.mode and safety.status.timeout > 0 as of
  \* the last configure; frozen since a configuration in safety mode.
  supervised, strict, receives, is_frozen,
  \* RtMonitor, and what asked to stop.
  since_cycle, consecutive_late, failure,
  since_heartbeat,
  \* SafetyChannelMonitor: last_ with its age.
  last, since_status,
  \* The last reports.
  last_rt_report, last_safety_report, last_pose_stale,
  \* NavState: the pose with its age, and what the supervisor writes.
  robot_pose, pose_age, safety_status, inhibit_motion, diagnostics,
  \* History: the last status since the last configure allows motion.
  permitted

lifeVars == <<supervised, strict, receives, is_frozen>>
rtVars == <<since_cycle, consecutive_late, failure, since_heartbeat>>
channelVars == <<last, since_status, permitted>>
reportVars == <<last_rt_report, last_safety_report, last_pose_stale, diagnostics>>
poseVars == <<robot_pose, pose_age>>
outputVars == <<safety_status, inhibit_motion>>
supervisorVars == <<lifeVars, rtVars, channelVars, reportVars, poseVars, outputVars>>

Levels == {"NONE", "OK", "WARN", "ERROR"}

NoRestriction == [status_lost |-> FALSE, protective_stop |-> FALSE, limited |-> FALSE]
Lost == [status_lost |-> TRUE, protective_stop |-> TRUE, limited |-> FALSE]

SupervisorTypeOK ==
  /\ supervised \in {"unconfigured", "configuring", "inactive", "active"}
  /\ strict \in BOOLEAN /\ receives \in BOOLEAN /\ is_frozen \in BOOLEAN
  /\ since_cycle \in Nat \cup {Unset}
  /\ consecutive_late \in 0 .. MaxLate
  /\ failure \in BOOLEAN
  /\ since_heartbeat \in Nat \cup {Unset}
  /\ last \in Statuses \cup {NoStatus}
  /\ since_status \in Nat
  /\ last_rt_report \in RtStatus \cup {Unset}
  /\ last_safety_report \in Evaluation \cup {Unset}
  /\ last_pose_stale \in BOOLEAN \cup {Unset}
  /\ robot_pose \in {"none", "unlocalized", "finite", "non_finite"}
  /\ pose_age \in Nat
  /\ safety_status \in State
  /\ inhibit_motion \in BOOLEAN
  /\ diagnostics \in [rt_cycle : Levels, safety_status : Levels, robot_pose : Levels]
  /\ permitted \in BOOLEAN

SupervisorInit ==
  /\ supervised = "unconfigured" /\ strict = FALSE /\ receives = FALSE /\ is_frozen = FALSE
  /\ since_cycle = Unset /\ consecutive_late = 0 /\ failure = FALSE /\ since_heartbeat = Unset
  /\ last = NoStatus /\ since_status = 0 /\ permitted = FALSE
  /\ last_rt_report = Unset /\ last_safety_report = Unset /\ last_pose_stale = Unset
  /\ robot_pose = "none" /\ pose_age = 0
  /\ safety_status = NoRestriction /\ inhibit_motion = FALSE
  /\ diagnostics = [rt_cycle |-> "NONE", safety_status |-> "NONE", robot_pose |-> "NONE"]

-----------------------------------------------------------------------------
(* The safety channel.                                                     *)

\* A limit that is not finite, or negative.
invalid_reason(msg) == msg.limit = "invalid"

\* The RT callback group receives it as soon as there is a subscription.
received(msg) ==
  /\ receives
  /\ last' = msg /\ since_status' = 0
  /\ permitted' = (~msg.protective_stop /\ msg.limit # "invalid")
  /\ UNCHANGED <<lifeVars, rtVars, reportVars, poseVars, outputVars>>

\* Mutant: the age of the last status is not looked at.
evaluateAgeless ==
  LET condition == IF last = NoStatus THEN "NO_STATUS"
                   ELSE IF invalid_reason(last) THEN "INVALID"
                   ELSE "VALID"
  IN [condition |-> condition,
      state |-> IF condition # "VALID" THEN Lost
                ELSE [status_lost |-> FALSE, protective_stop |-> last.protective_stop,
                      limited |-> last.limit = "valid"]]

\* Nothing says the robot may move: a protective stop.
evaluate ==
  LET condition == IF last = NoStatus THEN "NO_STATUS"
                   ELSE IF invalid_reason(last) THEN "INVALID"
                   ELSE IF since_status > StatusTimeout THEN "STALE"
                   ELSE "VALID"
  IN [condition |-> condition,
      state |-> IF condition # "VALID" THEN Lost
                ELSE [status_lost |-> FALSE, protective_stop |-> last.protective_stop,
                      limited |-> last.limit = "valid"]]

-----------------------------------------------------------------------------
(* SystemNode's transitions.                                               *)

\* The parameters are those of the last configure once they are frozen.  In
\* safety mode the status is required.
supervisor_check_system ==
  /\ supervised = "unconfigured"
  /\ \E mode, timeout \in BOOLEAN :
       /\ is_frozen => mode = strict /\ timeout = receives
       /\ strict' = mode /\ receives' = timeout
       /\ IF timeout THEN last' = NoStatus /\ since_status' = 0
                     ELSE UNCHANGED <<last, since_status>>
       /\ supervised' \in {"unconfigured"} \cup (IF mode /\ ~timeout THEN {} ELSE {"configuring"})
  /\ since_cycle' = Unset /\ consecutive_late' = 0
  /\ permitted' = FALSE
  /\ UNCHANGED <<is_frozen, failure, since_heartbeat, reportVars, poseVars, outputVars>>

\* The subnodes configure or not.
supervisor_on_configured ==
  /\ supervised = "configuring"
  /\ \/ supervised' = "unconfigured" /\ UNCHANGED <<is_frozen, safety_status>>
     \/ /\ supervised' = "inactive"
        /\ safety_status' = IF receives THEN evaluate.state ELSE NoRestriction
        /\ is_frozen' = (is_frozen \/ strict)
  /\ UNCHANGED <<strict, receives, rtVars, channelVars, reportVars, poseVars, inhibit_motion>>

on_activate ==
  /\ supervised = "inactive" /\ supervised' = "active"
  /\ since_cycle' = Unset /\ consecutive_late' = 0
  /\ since_heartbeat' = Unset
  /\ last_safety_report' = Unset /\ last_pose_stale' = Unset
  /\ failure' = FALSE
  /\ UNCHANGED <<strict, receives, is_frozen, channelVars, last_rt_report, diagnostics,
                 poseVars, outputVars>>

deactivate_or_cleanup ==
  /\ \/ supervised = "active" /\ supervised' = "inactive"
     \/ supervised = "inactive" /\ supervised' = "unconfigured"
  /\ UNCHANGED <<strict, receives, is_frozen, rtVars, channelVars, reportVars, poseVars, outputVars>>

-----------------------------------------------------------------------------
(* The RT cycle.                                                           *)

\* Consecutive late cycles, this one included; the first one has no period.
\* Capped where nothing tells them apart.
cycle_started ==
  IF since_cycle = Unset THEN consecutive_late
  ELSE IF since_cycle <= MaxPeriod THEN 0
  ELSE IF consecutive_late < MaxLate THEN consecutive_late + 1
  ELSE MaxLate

rt_status(late) == IF late >= MaxLate THEN "ERROR" ELSE IF late > 0 THEN "LATE" ELSE "OK"

rt_level(status) ==
  CASE status = "OK" -> "OK"
    [] status = "LATE" -> "WARN"
    [] status = "ERROR" -> IF strict THEN "ERROR" ELSE "WARN"

\* Mutant: a cycle on time again is nothing to report.
rt_changedLate(status) ==
  IF last_rt_report = Unset THEN status # "OK" ELSE status \notin {"OK", last_rt_report}

\* Nothing to report until something goes wrong; then, only changes.
rt_changed(status) ==
  IF last_rt_report = Unset THEN status # "OK" ELSE status # last_rt_report

report_rt_status(status) ==
  IF rt_changed(status) THEN [last |-> status, level |-> rt_level(status)]
  ELSE [last |-> last_rt_report, level |-> diagnostics.rt_cycle]

safety_level(evaluation) ==
  IF evaluation.condition # "VALID" THEN "ERROR"
  ELSE IF evaluation.state.protective_stop THEN "WARN" ELSE "OK"

\* The first one after an activation is always a change.
report_safety_status ==
  IF ~receives \/ last_safety_report = evaluate
  THEN [last |-> last_safety_report, level |-> diagnostics.safety_status]
  ELSE [last |-> evaluate, level |-> safety_level(evaluate)]

\* A localizer publishes a pose, and it has a stamp.
pose_checked == MaxPoseAge > 0 /\ robot_pose \in {"finite", "non_finite"}

unusable == pose_age > MaxPoseAge \/ robot_pose = "non_finite"

\* Mutant: without a stamp the robot is not inhibited any more.
inhibitedStamped ==
  IF strict THEN pose_checked /\ unusable ELSE inhibit_motion

inhibited == IF pose_checked /\ strict THEN unusable ELSE inhibit_motion

\* Nothing to report until something goes wrong; then, only changes.
check_pose_age ==
  IF pose_checked /\ (IF last_pose_stale = Unset THEN unusable ELSE last_pose_stale # unusable)
  THEN [last |-> unusable, level |-> IF unusable THEN "ERROR" ELSE "OK"]
  ELSE [last |-> last_pose_stale, level |-> diagnostics.robot_pose]

cycle_rt ==
  /\ supervised = "active"
  /\ since_cycle' = 0
  /\ consecutive_late' = cycle_started
  /\ since_heartbeat' = IF /\ HeartbeatPeriod > 0
                           /\ since_heartbeat = Unset \/ since_heartbeat >= HeartbeatPeriod
                        THEN 0 ELSE since_heartbeat
  /\ safety_status' = IF receives THEN evaluate.state ELSE safety_status
  /\ inhibit_motion' = inhibited
  /\ LET rt == report_rt_status(rt_status(cycle_started))
         safety == report_safety_status
         pose == check_pose_age
     IN /\ last_rt_report' = rt.last
        /\ last_safety_report' = safety.last
        /\ last_pose_stale' = pose.last
        /\ diagnostics' = [rt_cycle |-> rt.level, safety_status |-> safety.level,
                           robot_pose |-> pose.level]
  /\ failure' = (failure \/ (strict /\ rt_status(cycle_started) = "ERROR"))
  /\ UNCHANGED <<lifeVars, channelVars, poseVars>>

-----------------------------------------------------------------------------
(* The rest of the system.                                                 *)

\* The localizer publishes a pose stamped now.
localized ==
  /\ robot_pose' \in {"unlocalized", "finite", "non_finite"}
  /\ pose_age' = 0
  /\ UNCHANGED <<lifeVars, rtVars, channelVars, reportVars, outputVars>>

Older(age, cap) == IF age # Unset /\ age < cap THEN age + 1 ELSE age

\* What is not there has no age.
Tick ==
  /\ since_cycle' = Older(since_cycle, MaxPeriod + 1)
  /\ since_heartbeat' = Older(since_heartbeat, HeartbeatPeriod)
  /\ since_status' = IF last = NoStatus THEN since_status ELSE Older(since_status, StatusTimeout + 1)
  /\ IF robot_pose = "none" THEN UNCHANGED pose_age
     ELSE pose_age' \in {Older(pose_age, MaxPoseAge + 1), pose_age} \cup {a \in {pose_age - 1} : a >= 0}
  /\ UNCHANGED <<lifeVars, consecutive_late, failure, last, permitted, reportVars,
                 robot_pose, outputVars>>

SupervisorNext ==
  \/ \E msg \in Statuses : received(msg)
  \/ supervisor_check_system \/ supervisor_on_configured \/ on_activate \/ deactivate_or_cleanup
  \/ cycle_rt
  \/ localized
  \/ Tick

SupervisorSpec == SupervisorInit /\ [][SupervisorNext]_supervisorVars

-----------------------------------------------------------------------------
(* A cycle lets the robot move only on the word of the safety channel: the *)
(* last status since the last configure is valid, does not stop it, and is *)
(* no older than the timeout, whatever arrived before and however often    *)
(* the node was configured (SafetyChannelMonitor, SafetySupervisor).       *)
LostIsStopped ==
  [][cycle_rt /\ receives /\ ~safety_status'.protective_stop =>
       permitted /\ since_status <= StatusTimeout]_supervisorVars

\* A robot inhibited for its pose is released by a usable pose only: not by a
\* pose without a stamp, nor by a transition; and each cycle in safety mode over
\* an unusable pose inhibits it (check_pose_age()).
InhibitedUntilUsable ==
  [][/\ inhibit_motion /\ ~inhibit_motion' =>
          cycle_rt /\ robot_pose = "finite" /\ pose_age <= MaxPoseAge
     /\ inhibit_motion' => strict'
     /\ cycle_rt /\ strict /\ pose_checked /\ unusable => inhibit_motion']_supervisorVars

\* What the diagnostics say after a cycle is what it found, though only changes
\* are written: the RT cycle and the safety channel in both directions, and
\* an unusable pose (report_rt_status(), report_safety_status(), check_pose_age()).
ReportsAreTrue ==
  [][cycle_rt =>
       /\ \/ diagnostics'.rt_cycle = rt_level(rt_status(consecutive_late'))
          \/ diagnostics'.rt_cycle = "NONE" /\ consecutive_late' = 0
       /\ receives => diagnostics'.safety_status = safety_level(evaluate)
       /\ pose_checked /\ unusable => diagnostics'.robot_pose = "ERROR"]_supervisorVars
=============================================================================
