--------------------------- MODULE MissionControl ---------------------------
(***************************************************************************)
(* A GoalManager and the clients of its topic.                             *)
(***************************************************************************)
EXTENDS GoalManager, GoalManagerClient

vars == <<toManager, toClient, told, calls, managerVars, clientVars>>

TypeOK == TopicTypeOK /\ ManagerTypeOK /\ ClientTypeOK

Init == TopicInit /\ ManagerInit /\ ClientInit

Next ==
  \/ ManagerNext /\ UNCHANGED clientVars
  \/ ClientNext /\ UNCHANGED managerVars

Spec == Init /\ [][Next]_vars

\* The system's executor delivers every waiting message between two cycles,
\* and cycles for ever; the client's process keeps spinning its node.
Fairness ==
  /\ WF_vars(system_cycle /\ UNCHANGED clientVars)
  /\ WF_vars(check_cycle /\ UNCHANGED clientVars)
  /\ WF_vars(recovery_cycle /\ UNCHANGED clientVars)
  /\ \A c \in Clients :
       /\ SF_vars(Receive(c) /\ UNCHANGED clientVars)
       /\ WF_vars(client_callback(c) /\ UNCHANGED managerVars)

FairSpec == Spec /\ Fairness

-----------------------------------------------------------------------------
\* update() reads goals_.goals.front() of an active mission: no sequence of
\* requests, preemptions, cancels and waypoints leaves it without goals, nor
\* an idle manager with some.
ActiveHasGoals == (state = "ACTIVE") <=> (goals # <<>>)

\* The navigation is paused exactly while a mission is on in which the last order
\* taken is a pause: a mission that preempts or follows a paused one does not
\* inherit its pause, no pause is lost, and none is left when the mission ends.
PauseIsOrdered == paused <=> (state = "ACTIVE" /\ pause_ordered)

holder == IF state = "ACTIVE" /\ current_client \in Clients
          THEN current_client ELSE NoUser

\* The last word on a mission that a client was sent says whether it holds the
\* navigation (and it holds it from the step that says so).
ToldIsHeld == \A c \in Clients : (told[c] = "ACCEPT") <=> (holder = c)

\* One client navigates at a time, and each is told how its mission begins and
\* ends (Mission), whatever preempts, cancels, aborts or finishes it.
Abstract == INSTANCE Mission WITH Nobody <- NoUser
ImplementsMission == Abstract!Spec

\* A client that believes to be navigating is, or the word that says it no
\* longer is waits for it.
NavigatingHolds ==
  \A c \in Clients :
    client_state[c] \in {"ACCEPTED_AND_NAVIGATING", "SENT_PREEMPT"} =>
      \/ holder = c
      \/ \E n \in 1 .. Len(toClient[c]) :
           toClient[c][n] \in Endings

\* From a hold on and until it is released, no goal is taken as reached, but for
\* the one that update() was about to check when a hold came in the middle of it.
HeldKeepsGoals == progress_held => taken <= (IF held_late THEN 1 ELSE 0)

\* Once the robot is localized, the planner and the recovery system find in
\* NavState the mission the manager is on, in the cycle that changes it too.
CycleSyncsMission ==
  [][phase # "recover" /\ phase' = "recover" /\ robot_pose
       => /\ nav_state'.goals = goals'
          /\ nav_state'.navigation_state = state']_vars

\* No change of the goals escapes the planner: once it took note of the last
\* revision, the goals it was last forced with are those of the mission.
PlanIsCurrent == ~revised => planned = goals

\* Every goal sent is answered.
EveryGoalAnswered ==
  \A c \in Clients :
    client_state[c] \in {"SENT_GOAL", "SENT_PREEMPT"}
      ~> client_state[c] \notin {"SENT_GOAL", "SENT_PREEMPT"}

\* The end of a mission is published, unless another one began.
EndIsPublished ==
  (state = "IDLE" /\ info_final_pending)
    ~> (state = "ACTIVE" \/ ~info_final_pending)
-----------------------------------------------------------------------------
(* What the repository says of the code, and the code does not do.         *)

\* "A new mission: its end will be published, however it ends." (comment of
\* GoalManager::accept_request): no mission begins while the end of the last one
\* is still to be published.
EndPublishedFirst ==
  [][state = "IDLE" /\ state' = "ACTIVE" => ~info_final_pending]_vars

\* "Whether the currently navigating goal is paused." (GoalManagerClient::
\* is_paused): so once every message is delivered.
ClientKnowsPause ==
  \A c \in Clients :
    /\ holder = c /\ client_state[c] = "ACCEPTED_AND_NAVIGATING"
    /\ toManager[c] = <<>> /\ toClient[c] = <<>>
    => (client_paused[c] <=> paused)


=============================================================================
