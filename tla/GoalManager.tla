----------------------------- MODULE GoalManager ----------------------------
(***************************************************************************)
(* easynav_system/GoalManager, and the part of SystemNode::system_cycle()  *)
(* that drives it: update(), the planner forced by a change of the goals,  *)
(* and the recovery system that may abort the mission last.  All of it     *)
(* runs in the non-real-time thread, which also delivers the callbacks     *)
(* between two cycles; only the hold on the progress may change at any     *)
(* time, from the real-time thread, in the middle of update() too.         *)
(***************************************************************************)
EXTENDS ControlTopic

CONSTANTS PreemptValues,  \* values of the parameter "allow_preempt_goal"
          RecoveryHolds,  \* the recovery system in use holds the progress
          Localized       \* NavState holds a robot pose from the start

ASSUME ManagerAssumption ==
  /\ PreemptValues \in (SUBSET BOOLEAN) \ {{}} 
  /\ RecoveryHolds \in BOOLEAN
  /\ Localized \in BOOLEAN

VARIABLES
  state,             \* state_: "IDLE" or "ACTIVE"
  goals,             \* goals_
  revised,           \* goals_revision_ differs from planned_goals_revision_
  paused,            \* paused_
  current_client,    \* current_client_id_
  allow_preempt_goal,
  progress_held,     \* progress_held_
  goals_synced_empty,
  info_final_pending,
  planned,           \* the goals in NavState when the planner was last forced
  nav_state,         \* the keys of NavState that only this class writes
  last_synced_navigation_state,  \* what it last wrote to two of these keys
  last_synced_paused,
  robot_pose,        \* NavState has "robot_pose"
  phase,             \* where system_cycle() is: "spin" between two cycles, "check"
                     \* in update() when it has tested the hold, and "recover"
  found_held,        \* what that test found
  pause_ordered,     \* history: the last order taken in this mission is a pause
  held_late,         \* history: the hold came between that test and check_goals()
  taken              \* history: goals taken as reached under this hold

syncVars == <<nav_state, last_synced_navigation_state, last_synced_paused>>
holdVars == <<progress_held, held_late, taken>>
cycleVars == <<phase, found_held>>

managerVars == <<state, goals, revised, paused, current_client,
                 allow_preempt_goal, goals_synced_empty, info_final_pending,
                 planned, robot_pose, pause_ordered,
                 syncVars, holdVars, cycleVars>>

ManagerTypeOK ==
  /\ state \in {"IDLE", "ACTIVE"}
  /\ goals \in Seq(Goal)
  /\ revised \in BOOLEAN
  /\ paused \in BOOLEAN
  /\ current_client \in Users \cup {NoUser}
  /\ allow_preempt_goal \in BOOLEAN
  /\ progress_held \in BOOLEAN
  /\ goals_synced_empty \in BOOLEAN
  /\ info_final_pending \in BOOLEAN
  /\ planned \in Seq(Goal)
  /\ nav_state \in [navigation_state : {"IDLE", "ACTIVE"},
                    navigation_paused : BOOLEAN, goals : Seq(Goal)]
  /\ last_synced_navigation_state \in {"IDLE", "ACTIVE"}
  /\ last_synced_paused \in BOOLEAN
  /\ robot_pose \in BOOLEAN
  /\ phase \in {"spin", "check", "recover"}
  /\ found_held \in BOOLEAN
  /\ pause_ordered \in BOOLEAN
  /\ held_late \in BOOLEAN
  /\ taken \in Nat

\* The constructor writes the initial values to NavState too.
ManagerInit ==
  /\ state = "IDLE"
  /\ goals = <<>>
  /\ revised = FALSE
  /\ paused = FALSE
  /\ current_client = NoUser
  /\ allow_preempt_goal \in PreemptValues
  /\ progress_held = FALSE
  /\ goals_synced_empty = TRUE
  /\ info_final_pending = FALSE
  /\ planned = <<>>
  /\ nav_state = [navigation_state |-> "IDLE", navigation_paused |-> FALSE,
                  goals |-> <<>>]
  /\ last_synced_navigation_state = "IDLE"
  /\ last_synced_paused = FALSE
  /\ robot_pose = Localized
  /\ phase = "spin"
  /\ found_held = FALSE
  /\ pause_ordered = FALSE
  /\ held_late = FALSE
  /\ taken = 0

-----------------------------------------------------------------------------
(* control_callback(), one operator per message type.                      *)

\* Mutant: set_preempted() is forgotten.
accept_requestUntold(u, gs) ==
  /\ state' = "ACTIVE" /\ goals' = gs /\ revised' = TRUE /\ paused' = FALSE
  /\ current_client' = u
  /\ goals_synced_empty' = FALSE /\ info_final_pending' = TRUE
  /\ pause_ordered' = FALSE
  /\ Publish(Says(<<"ACCEPT">>, u))

\* Mutant: a mission that replaces another inherits its pause.
accept_requestPaused(u, gs) ==
  /\ state' = "ACTIVE" /\ goals' = gs /\ revised' = TRUE
  /\ current_client' = u
  /\ goals_synced_empty' = FALSE /\ info_final_pending' = TRUE
  /\ pause_ordered' = FALSE
  /\ Publish([x \in Users |->
       IF x = u THEN <<"ACCEPT">>
       ELSE IF state = "ACTIVE" /\ x = current_client THEN <<"CANCELLED">>
       ELSE <<>>])
  /\ UNCHANGED paused

\* accept_request() of u's message, after set_preempted() when it takes the
\* navigation from another user.
accept_request(u, gs) ==
  /\ state' = "ACTIVE"
  /\ goals' = gs
  /\ revised' = TRUE
  /\ paused' = FALSE
  /\ current_client' = u
  /\ goals_synced_empty' = FALSE
  /\ info_final_pending' = TRUE
  /\ pause_ordered' = FALSE
  /\ Publish([x \in Users |->
       IF x = u THEN <<"ACCEPT">>
       ELSE IF state = "ACTIVE" /\ x = current_client THEN <<"CANCELLED">>
       ELSE <<>>])

answer(u, word) ==
  /\ Publish(Says(<<word>>, u))
  /\ UNCHANGED <<state, goals, revised, paused, current_client,
                 goals_synced_empty, info_final_pending, pause_ordered>>

\* Mutant: a request without goals is accepted.
RequestEmpty(u, gs) ==
  \/ (state = "IDLE" \/ allow_preempt_goal) /\ accept_request(u, gs)
  \/ state = "ACTIVE" /\ ~allow_preempt_goal /\ answer(u, "REJECT")

\* Mutant: a request that may not preempt is dropped, and not rejected.
RequestUnanswered(u, gs) ==
  \/ /\ gs # <<>>
     /\ state = "IDLE" \/ allow_preempt_goal
     /\ accept_request(u, gs)
  \/ /\ gs = <<>> \/ (state = "ACTIVE" /\ ~allow_preempt_goal)
     /\ Publish(Says(<<>>, u))
     /\ UNCHANGED <<state, goals, revised, paused, current_client,
                    goals_synced_empty, info_final_pending, pause_ordered>>

Request(u, gs) ==
  \/ /\ gs # <<>>
     /\ state = "IDLE" \/ allow_preempt_goal
     /\ accept_request(u, gs)
  \/ /\ gs = <<>> \/ (state = "ACTIVE" /\ ~allow_preempt_goal)
     /\ answer(u, "REJECT")

\* How a mission ends: set_finished(), set_error() and CANCEL.
end_mission(words) ==
  /\ state' = "IDLE"
  /\ goals' = <<>>
  /\ paused' = FALSE
  /\ Publish(Says(words, current_client))
  /\ UNCHANGED <<current_client, goals_synced_empty, pause_ordered>>

CancelOrder(u) ==
  \/ u # current_client /\ answer(u, "REJECT")
  \/ u = current_client /\ state = "IDLE" /\ answer(u, "ERROR")
  \/ /\ u = current_client /\ state = "ACTIVE"
     /\ end_mission(<<"CANCELLED">>)
     /\ revised' = TRUE
     /\ UNCHANGED info_final_pending

SetPaused(u, value, word) ==
  \/ state = "IDLE" /\ answer(u, "REJECT")
  \/ /\ state = "ACTIVE"
     /\ paused' = value
     /\ pause_ordered' = value
     /\ Publish(Says(<<word>>, u))
     /\ UNCHANGED <<state, goals, revised, current_client, goals_synced_empty,
                    info_final_pending>>

control_callback(u, msg) ==
  /\ phase = "spin"
  /\ \/ msg.type = "REQUEST" /\ Request(u, msg.goals)
     \/ msg.type = "CANCEL" /\ CancelOrder(u)
     \/ msg.type = "PAUSE" /\ SetPaused(u, TRUE, "PAUSED")
     \/ msg.type = "RESUME" /\ SetPaused(u, FALSE, "RESUMED")
     \/ msg.type = "UNKNOWN" /\ answer(u, "ERROR")
  /\ UNCHANGED <<allow_preempt_goal, planned, robot_pose,
                 syncVars, holdVars, cycleVars>>

\* The manager takes the next message of client c.
Receive(c) ==
  /\ toManager[c] # <<>>
  /\ toManager' = [toManager EXCEPT ![c] = Tail(@)]
  /\ control_callback(c, Head(toManager[c]))
  /\ UNCHANGED calls

\* A "goal_pose" message: a request of its own user with that one goal.
comanded_pose_callback ==
  /\ PoseUser \in Outsiders
  /\ \E gs \in GoalLists :
       Len(gs) = 1 /\ control_callback(PoseUser, [type |-> "REQUEST", goals |-> gs])
  /\ CountCall
  /\ UNCHANGED toManager

\* A message of another publisher, which may be empty or of an unknown type.
ReceiveRaw ==
  /\ RawUser \in Outsiders
  /\ \E msg \in [type : {"REQUEST"}, goals : GoalLists \cup {<<>>}]
                \cup Orders \cup [type : {"UNKNOWN"}, goals : {<<>>}] :
       control_callback(RawUser, msg)
  /\ CountCall
  /\ UNCHANGED toManager

-----------------------------------------------------------------------------
(* system_cycle(): update(), then the planner, then the recovery system.   *)

\* What update() writes first: the state and the pause, each if it is not what
\* it last wrote.
SyncMission(gs) ==
  /\ nav_state' =
       [navigation_state |-> IF last_synced_navigation_state # state
                             THEN state ELSE nav_state.navigation_state,
        navigation_paused |-> IF last_synced_paused # paused
                              THEN paused ELSE nav_state.navigation_paused,
        goals |-> gs]
  /\ last_synced_navigation_state' = state
  /\ last_synced_paused' = paused

\* Mutant: only a mission that finishes by itself has its end published.
UpdateIdleUnpublished ==
  /\ state = "IDLE"
  /\ goals_synced_empty' = TRUE
  /\ goals' = IF goals_synced_empty THEN goals ELSE <<>>
  /\ SyncMission(IF goals_synced_empty THEN nav_state.goals ELSE <<>>)
  /\ Quiet
  /\ UNCHANGED info_final_pending

\* update() with no mission: the end of the last one is published
\* (publish_final_info() publishes as it resets the flag), and its goals
\* leave NavState.
UpdateIdle ==
  /\ state = "IDLE"
  /\ info_final_pending' = FALSE
  /\ goals_synced_empty' = TRUE
  /\ goals' = IF goals_synced_empty THEN goals ELSE <<>>
  /\ SyncMission(IF goals_synced_empty THEN nav_state.goals ELSE <<>>)
  /\ Quiet

UpdateWithoutPose ==
  /\ state = "ACTIVE" /\ ~robot_pose
  /\ SyncMission(nav_state.goals)
  /\ Quiet
  /\ UNCHANGED <<goals, goals_synced_empty, info_final_pending>>

\* update() of a mission, up to the test of the hold.  The update period only
\* throttles the feedback and the information, so whether it is over is left
\* open; the feedback also needs room in the bounded model.
UpdateActive(publish) ==
  /\ state = "ACTIVE" /\ robot_pose
  /\ publish /\ current_client \in Clients
       => Len(toClient[current_client]) < MaxUnread
  /\ SyncMission(nav_state.goals)
  /\ Publish(Says(IF publish THEN <<"FEEDBACK">> ELSE <<>>, current_client))
  /\ UNCHANGED <<goals, goals_synced_empty, info_final_pending>>

\* Mutant: a goal is taken as reached while the progress is held.
GoalsLeftHeld(there) == IF there THEN Tail(goals) ELSE goals

\* check_goals(): the first goal is dropped when the robot is there.
GoalsLeft(there) == IF there /\ ~found_held THEN Tail(goals) ELSE goals

\* Mutant: set_finished() comes when NavState already took the mission's state.
FinishUpdateUnsynced(there) ==
  LET left == GoalsLeft(there) IN
  /\ \/ left = <<>> /\ end_mission(<<"FINISHED">>) /\ info_final_pending' = FALSE
     \/ /\ left # <<>> /\ goals' = left /\ Quiet
        /\ UNCHANGED <<state, paused, current_client, goals_synced_empty,
                       info_final_pending, pause_ordered>>
  /\ nav_state' = [nav_state EXCEPT !.goals = left]
  /\ UNCHANGED <<last_synced_navigation_state, last_synced_paused>>

\* The rest of that update(): the goals, and the end when there are none left.
FinishUpdate(there) ==
  LET left == GoalsLeft(there) IN
  /\ \/ /\ left = <<>>
        /\ end_mission(<<"FINISHED">>)
        /\ info_final_pending' = FALSE
     \/ /\ left # <<>>
        /\ goals' = left
        /\ Quiet
        /\ UNCHANGED <<state, paused, current_client, goals_synced_empty,
                       info_final_pending, pause_ordered>>
  /\ nav_state' = [nav_state EXCEPT
       !.goals = left,
       !.navigation_state = IF last_synced_navigation_state # state' THEN state' ELSE @]
  /\ last_synced_navigation_state' = state'
  /\ UNCHANGED last_synced_paused

\* Mutant: the revision is read before update() and not after it.
new_goalsBefore == revised

\* goals_revision_ is not the one of the last cycle, after update().
new_goals == revised \/ (state = "IDLE" /\ ~goals_synced_empty) \/ goals' # goals

\* The planner, which is forced by new goals.
plan ==
  /\ planned' = IF new_goals THEN nav_state'.goals ELSE planned
  /\ revised' = FALSE

\* The cycle up to the planner or, of a mission, to the test of the hold.
system_cycle ==
  /\ phase = "spin"
  /\ \/ /\ phase' = "recover"
        /\ UpdateIdle \/ UpdateWithoutPose
        /\ plan
        /\ UNCHANGED found_held
     \/ /\ phase' = "check"
        /\ found_held' = progress_held
        /\ \E publish \in BOOLEAN : UpdateActive(publish)
        /\ UNCHANGED <<planned, revised>>
  /\ UNCHANGED <<toManager, calls, state, paused, current_client, allow_preempt_goal,
                 robot_pose, pause_ordered, holdVars>>

\* The rest of the cycle of a mission, up to the planner.
check_cycle ==
  /\ phase = "check"
  /\ phase' = "recover"
  /\ \E there \in BOOLEAN : FinishUpdate(there)
  /\ plan
  /\ taken' = IF progress_held /\ goals' # goals THEN taken + 1 ELSE taken
  /\ UNCHANGED <<toManager, calls, allow_preempt_goal, robot_pose, found_held,
                 progress_held, held_late>>

\* Mutant: the client is not told that its mission was aborted.
abort_missionUntold ==
  /\ state = "ACTIVE"
  /\ end_mission(<<>>)
  /\ revised' = TRUE
  /\ UNCHANGED info_final_pending

\* abort_mission() by the recovery system, with set_error().
abort_mission ==
  /\ state = "ACTIVE"
  /\ end_mission(<<"ERROR">>)
  /\ revised' = TRUE
  /\ UNCHANGED info_final_pending

\* The recovery system, last in the cycle.
recovery_cycle ==
  /\ phase = "recover"
  /\ phase' = "spin"
  /\ \/ abort_mission
     \/ /\ Quiet
        /\ UNCHANGED <<state, goals, revised, paused, current_client,
                       goals_synced_empty, info_final_pending, pause_ordered>>
  /\ UNCHANGED <<toManager, calls, allow_preempt_goal, planned, robot_pose,
                 found_held, syncVars, holdVars>>

-----------------------------------------------------------------------------
(* What the other threads do to the manager, at any time.                  *)

\* hold_mission_progress() of the recovery system, from either thread; to say
\* it again changes nothing.
set_progress_held(held) ==
  /\ RecoveryHolds
  /\ held # progress_held
  /\ progress_held' = held
  /\ held_late' = (held /\ phase = "check")
  /\ taken' = 0
  /\ UNCHANGED <<toManager, toClient, told, calls, state, goals, revised, paused,
                 current_client, allow_preempt_goal, goals_synced_empty,
                 info_final_pending, planned, robot_pose, pause_ordered,
                 syncVars, cycleVars>>

\* read_parameters(), between two cycles, when EasyNav is configured again.
read_parameters ==
  /\ phase = "spin"
  /\ allow_preempt_goal' \in PreemptValues
  /\ UNCHANGED <<toManager, toClient, told, calls, state, goals, revised, paused,
                 current_client, goals_synced_empty, info_final_pending, planned,
                 robot_pose, pause_ordered, syncVars, holdVars, cycleVars>>

\* The localizer writes the first robot pose.
Localize ==
  /\ robot_pose' = TRUE
  /\ UNCHANGED <<toManager, toClient, told, calls, state, goals, revised, paused,
                 current_client, allow_preempt_goal, goals_synced_empty,
                 info_final_pending, planned, pause_ordered,
                 syncVars, holdVars, cycleVars>>

ManagerNext ==
  \/ \E c \in Clients : Receive(c)
  \/ comanded_pose_callback
  \/ ReceiveRaw
  \/ system_cycle
  \/ check_cycle
  \/ recovery_cycle
  \/ \E held \in BOOLEAN : set_progress_held(held)
  \/ read_parameters
  \/ Localize

=============================================================================
