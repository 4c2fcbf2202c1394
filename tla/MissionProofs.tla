---------------------------- MODULE MissionProofs ---------------------------
(***************************************************************************)
(* For any set of clients, goals and bounds: the types, the goals of an    *)
(* active mission, that navigation control implements Mission, and what    *)
(* the cycle keeps of it in NavState and tells the planner.                *)
(***************************************************************************)
EXTENDS MissionControl, SequenceTheorems, TLAPS

\* Nothing ends a mission in the middle of its update().
ActiveInCheck == phase = "check" => state = "ACTIVE"

MissionInv == TypeOK /\ ActiveHasGoals /\ ToldIsHeld /\ ActiveInCheck

USE DEF Users, Requests, Orders, Words, Endings, Quiet, syncVars, holdVars, cycleVars

-----------------------------------------------------------------------------
(* What is published keeps the topic well typed.                           *)

LEMMA SaysType ==
  ASSUME NEW u, NEW words \in Seq(Words)
  PROVE  Says(words, u) \in [Users -> Seq(Words)]
BY DEF Says

LEMMA PublishType ==
  ASSUME TopicTypeOK, NEW out \in [Users -> Seq(Words)], Publish(out)
  PROVE  /\ toClient' \in [Clients -> Seq(Words)]
         /\ told' \in [Clients -> {"ACCEPT", "END"}]
<1>1. \A c \in Clients : out[c] \in Seq(Words) /\ toClient[c] \in Seq(Words)
  BY DEF TopicTypeOK
<1>2. \A c \in Clients : toClient[c] \o out[c] \in Seq(Words)
  BY <1>1, ConcatProperties
<1>3. toClient' \in [Clients -> Seq(Words)]
  BY <1>2 DEF Publish
<1>4. told' \in [Clients -> {"ACCEPT", "END"}]
  BY DEF Publish, TopicTypeOK, LastWord
<1> QED BY <1>3, <1>4

\* What the last word becomes after none, one or two words.
LEMMA LastWordOf ==
  ASSUME NEW before
  PROVE  /\ LastWord(<<>>, before) = before
         /\ LastWord(<<"ACCEPT">>, before) = "ACCEPT"
         /\ \A w \in Endings : LastWord(<<w>>, before) = "END"
         /\ \A w \in {"REJECT", "FEEDBACK", "PAUSED", "RESUMED"} :
              LastWord(<<w>>, before) = before
         /\ \A w \in Endings : LastWord(<<"FEEDBACK", w>>, before) = "END"
<1>1. Spoken(<<>>) = {}
  BY DEF Spoken
<1>2. \A w : Spoken(<<w>>) = {w}
  BY DEF Spoken
<1>3. \A v, w : Spoken(<<v, w>>) = {v, w}
  BY DEF Spoken
<1> QED BY <1>1, <1>2, <1>3 DEF LastWord

LEMMA SaysTells ==
  ASSUME NEW u, NEW words, Publish(Says(words, u))
  PROVE  told' = [c \in Clients |-> IF c = u THEN LastWord(words, told[c]) ELSE told[c]]
<1>1. \A c \in Clients : Says(words, u)[c] = IF c = u THEN words ELSE <<>>
  BY DEF Says
<1> QED BY <1>1, LastWordOf DEF Publish

-----------------------------------------------------------------------------
(* The three ways in which the manager changes the mission: each keeps the *)
(* invariant of the variables it changes, and is a step of Mission or none.*)

MissionStep == Abstract!Next \/ UNCHANGED <<holder, told>>

\* What a control message must keep: the rest of TypeOK does not change.
Kept ==
  /\ toClient' \in [Clients -> Seq(Words)]
  /\ told' \in [Clients -> {"ACCEPT", "END"}]
  /\ state' \in {"IDLE", "ACTIVE"}
  /\ goals' \in Seq(Goal)
  /\ paused' \in BOOLEAN
  /\ current_client' \in Users \cup {NoUser}
  /\ goals_synced_empty' \in BOOLEAN
  /\ pause_ordered' \in BOOLEAN
  /\ ActiveHasGoals'
  /\ ToldIsHeld'
  /\ MissionStep

LEMMA AcceptKeeps ==
  ASSUME MissionInv, NEW u \in Users, NEW gs \in GoalLists, accept_request(u, gs)
  PROVE  Kept
<1> DEFINE out == [x \in Users |->
       IF x = u THEN <<"ACCEPT">>
       ELSE IF state = "ACTIVE" /\ x = current_client THEN <<"CANCELLED">>
       ELSE <<>>]
<1>1. Publish(out) BY DEF accept_request
<1>2. out \in [Users -> Seq(Words)]
  <2>1. <<"ACCEPT">> \in Seq(Words) /\ <<"CANCELLED">> \in Seq(Words)
    OBVIOUS
  <2>2. <<>> \in Seq(Words)
    OBVIOUS
  <2> QED BY <2>1, <2>2
<1>3. /\ toClient' \in [Clients -> Seq(Words)]
      /\ told' \in [Clients -> {"ACCEPT", "END"}]
  BY <1>1, <1>2, PublishType DEF MissionInv, TypeOK
<1>4. told' = [c \in Clients |->
                 IF c = u THEN "ACCEPT"
                 ELSE IF state = "ACTIVE" /\ c = current_client THEN "END"
                 ELSE told[c]]
  <2>1. told' = [c \in Clients |-> LastWord(out[c], told[c])]
    BY <1>1 DEF Publish
  <2>2. \A c \in Clients :
          out[c] = IF c = u THEN <<"ACCEPT">>
                   ELSE IF state = "ACTIVE" /\ c = current_client THEN <<"CANCELLED">>
                   ELSE <<>>
    OBVIOUS
  <2> HIDE DEF out
  <2> QED BY <2>1, <2>2, LastWordOf
<1>5. holder' = IF u \in Clients THEN u ELSE NoUser
  BY DEF accept_request, holder
<1>6. ToldIsHeld'
  BY <1>4, <1>5, TopicAssumption DEF MissionInv, TypeOK, TopicTypeOK, ToldIsHeld, holder
<1>7. ActiveHasGoals' /\ goals' \in Seq(Goal)
  BY TopicAssumption DEF accept_request, ActiveHasGoals
<1>8. MissionStep
  <2>1. CASE u \in Clients
    <3>1. Abstract!Grant(u)
      BY <1>4, <1>5, <2>1, TopicAssumption DEF Abstract!Grant, holder
    <3> QED BY <2>1, <3>1 DEF MissionStep, Abstract!Next
  <2>2. CASE u \notin Clients /\ holder \in Clients
    <3>1. Abstract!End
      BY <1>4, <1>5, <2>2, TopicAssumption DEF Abstract!End, holder, MissionInv, TypeOK, TopicTypeOK
    <3> QED BY <3>1 DEF MissionStep, Abstract!Next
  <2>3. CASE u \notin Clients /\ holder \notin Clients
    <3>1. told' = told
      BY <1>4, <2>3 DEF holder, MissionInv, TypeOK, TopicTypeOK
    <3>2. holder' = holder
      BY <1>5, <2>3 DEF holder
    <3> QED BY <3>1, <3>2 DEF MissionStep
  <2> QED BY <2>1, <2>2, <2>3
<1> QED BY <1>3, <1>6, <1>7, <1>8 DEF Kept, accept_request

\* An answer that is about no mission, or that says to a user without one
\* that it has none, changes nothing.
LEMMA AnswerKeeps ==
  ASSUME MissionInv, NEW u \in Users, NEW word \in Words \ {"ACCEPT"},
         word \in Endings => u # holder,
         Publish(Says(<<word>>, u)), UNCHANGED <<state, current_client>>
  PROVE  /\ toClient' \in [Clients -> Seq(Words)]
         /\ told' \in [Clients -> {"ACCEPT", "END"}]
         /\ ToldIsHeld'
         /\ MissionStep
<1>1. <<word>> \in Seq(Words)
  OBVIOUS
<1>2. /\ toClient' \in [Clients -> Seq(Words)]
      /\ told' \in [Clients -> {"ACCEPT", "END"}]
  BY <1>1, SaysType, PublishType DEF MissionInv, TypeOK
<1>3. told' = [c \in Clients |-> IF c = u THEN LastWord(<<word>>, told[c]) ELSE told[c]]
  BY SaysTells
<1>4. told' = told
  <2>1. CASE word \in Endings
    <3>1. \A c \in Clients : LastWord(<<word>>, told[c]) = "END"
      BY <2>1, LastWordOf
    <3>2. u \in Clients => told[u] = "END"
      BY <2>1 DEF MissionInv, TypeOK, TopicTypeOK, ToldIsHeld
    <3> QED BY <1>3, <3>1, <3>2 DEF MissionInv, TypeOK, TopicTypeOK
  <2>2. CASE word \notin Endings
    <3>1. \A c \in Clients : LastWord(<<word>>, told[c]) = told[c]
      BY <2>2, LastWordOf
    <3> QED BY <1>3, <3>1 DEF MissionInv, TypeOK, TopicTypeOK
  <2> QED BY <2>1, <2>2
<1>5. holder' = holder
  BY DEF holder
<1> QED BY <1>2, <1>4, <1>5 DEF MissionInv, ToldIsHeld, MissionStep

\* The end of a mission, with its last words to whoever held it.
LEMMA EndKeeps ==
  ASSUME MissionInv, state = "ACTIVE", NEW words \in Seq(Words),
         \A before : LastWord(words, before) = "END",
         end_mission(words)
  PROVE  Kept
<1>1. /\ toClient' \in [Clients -> Seq(Words)]
      /\ told' \in [Clients -> {"ACCEPT", "END"}]
  BY SaysType, PublishType DEF MissionInv, TypeOK, end_mission
<1>2. told' = [c \in Clients |-> IF c = current_client THEN "END" ELSE told[c]]
  BY SaysTells DEF end_mission
<1>3. holder' = NoUser
  BY DEF end_mission, holder
<1>4. ToldIsHeld'
  BY <1>2, <1>3, TopicAssumption DEF MissionInv, ToldIsHeld, holder
<1>5. MissionStep
  <2>1. CASE holder \in Clients
    <3>1. Abstract!End
      BY <1>2, <1>3, <2>1, TopicAssumption DEF Abstract!End, holder, MissionInv, TypeOK, TopicTypeOK
    <3> QED BY <3>1 DEF MissionStep, Abstract!Next
  <2>2. CASE holder \notin Clients
    <3>1. told' = told /\ holder' = holder
      BY <1>2, <1>3, <2>2 DEF holder, MissionInv, TypeOK, TopicTypeOK
    <3> QED BY <3>1 DEF MissionStep
  <2> QED BY <2>1, <2>2
<1>6. /\ state' = "IDLE" /\ goals' = <<>> /\ paused' = FALSE
      /\ UNCHANGED <<current_client, goals_synced_empty, pause_ordered>>
  BY DEF end_mission
<1>7. goals' \in Seq(Goal) /\ ActiveHasGoals'
  BY <1>6 DEF ActiveHasGoals
<1> QED
  BY <1>1, <1>4, <1>5, <1>6, <1>7 DEF Kept, MissionInv, TypeOK, ManagerTypeOK

\* A message of a user, whatever its type.
LEMMA ControlKeeps ==
  ASSUME MissionInv, NEW u \in Users,
         NEW msg \in [type : {"REQUEST"}, goals : GoalLists \cup {<<>>}]
                     \cup Orders \cup [type : {"UNKNOWN"}, goals : {<<>>}],
         msg.type = "UNKNOWN" => u = RawUser,
         control_callback(u, msg)
  PROVE  Kept /\ ManagerTypeOK'
<1> DEFINE Rest == /\ revised' \in BOOLEAN
                   /\ info_final_pending' \in BOOLEAN
<1> SUFFICES Kept /\ Rest
  BY DEF Kept, control_callback, MissionInv, TypeOK, ManagerTypeOK
<1>a. ASSUME NEW word \in Words \ {"ACCEPT"}, word \in Endings => u # holder,
             answer(u, word)
      PROVE  Kept /\ Rest
  BY <1>a, AnswerKeeps
  DEF answer, Kept, MissionInv, TypeOK, ManagerTypeOK, ActiveHasGoals
<1>1. CASE Request(u, msg.goals)
  <2>1. CASE accept_request(u, msg.goals) /\ msg.goals # <<>>
    <3>1. msg.goals \in GoalLists
      BY <2>1
    <3>2. Kept
      BY <2>1, <3>1, AcceptKeeps
    <3> QED BY <2>1, <3>2 DEF accept_request
  <2>2. CASE answer(u, "REJECT")
    BY <1>a, <2>2
  <2> QED BY <1>1, <2>1, <2>2 DEF Request
<1>2. CASE CancelOrder(u)
  <2>1. CASE answer(u, "REJECT")
    BY <1>a, <2>1
  <2>2. CASE state = "IDLE" /\ answer(u, "ERROR")
    <3>1. u # holder
      BY <2>2, TopicAssumption DEF holder
    <3> QED BY <1>a, <2>2, <3>1
  <2>3. CASE /\ state = "ACTIVE" /\ end_mission(<<"CANCELLED">>)
             /\ revised' = TRUE /\ UNCHANGED info_final_pending
    <3>1. <<"CANCELLED">> \in Seq(Words)
      OBVIOUS
    <3>2. \A before : LastWord(<<"CANCELLED">>, before) = "END"
      BY LastWordOf
    <3>3. Kept
      BY <2>3, <3>1, <3>2, EndKeeps
    <3> QED BY <2>3, <3>3 DEF MissionInv, TypeOK, ManagerTypeOK
  <2> QED BY <1>2, <2>1, <2>2, <2>3 DEF CancelOrder
<1>3. ASSUME NEW value \in BOOLEAN, NEW word \in {"PAUSED", "RESUMED"},
             SetPaused(u, value, word)
      PROVE  Kept /\ Rest
  <2>1. CASE answer(u, "REJECT")
    BY <1>a, <2>1
  <2>2. CASE state = "ACTIVE" /\ paused' = value /\ pause_ordered' = value /\ Publish(Says(<<word>>, u))
             /\ UNCHANGED <<state, goals, revised, current_client,
                            goals_synced_empty, info_final_pending>>
    BY <2>2, AnswerKeeps
    DEF Kept, MissionInv, TypeOK, ManagerTypeOK, ActiveHasGoals
  <2> QED BY <1>3, <2>1, <2>2 DEF SetPaused
<1>4. CASE msg.type = "UNKNOWN" /\ answer(u, "ERROR")
  <2>1. u # holder
    BY <1>4, TopicAssumption DEF holder
  <2> QED BY <1>a, <1>4, <2>1
<1> QED BY <1>1, <1>2, <1>3, <1>4 DEF control_callback

\* What update() writes of the mission to NavState.
LEMMA SyncTypes ==
  ASSUME MissionInv, NEW gs \in Seq(Goal), SyncMission(gs)
  PROVE  /\ nav_state' \in [navigation_state : {"IDLE", "ACTIVE"},
                            navigation_paused : BOOLEAN, goals : Seq(Goal)]
         /\ last_synced_navigation_state' \in {"IDLE", "ACTIVE"}
         /\ last_synced_paused' \in BOOLEAN
<1> DEFINE st == IF last_synced_navigation_state # state
                 THEN state ELSE nav_state.navigation_state
           pa == IF last_synced_paused # paused
                 THEN paused ELSE nav_state.navigation_paused
<1>1. state \in {"IDLE", "ACTIVE"} /\ paused \in BOOLEAN
      /\ nav_state.navigation_state \in {"IDLE", "ACTIVE"}
      /\ nav_state.navigation_paused \in BOOLEAN
  BY DEF MissionInv, TypeOK, ManagerTypeOK
<1>2. st \in {"IDLE", "ACTIVE"} /\ pa \in BOOLEAN
  BY <1>1
<1>3. nav_state' = [navigation_state |-> st, navigation_paused |-> pa, goals |-> gs]
      /\ last_synced_navigation_state' = state /\ last_synced_paused' = paused
  BY DEF SyncMission
<1> HIDE DEF st, pa
<1> QED BY <1>1, <1>2, <1>3

\* What update() publishes of a mission that it does not end tells no end.
LEMMA QuietKeeps ==
  ASSUME MissionInv, UNCHANGED <<told, state, current_client>>
  PROVE  ToldIsHeld' /\ MissionStep
<1>1. holder' = holder
  BY DEF holder
<1> QED BY <1>1 DEF ToldIsHeld, MissionStep, MissionInv

\* The cycle up to the planner or the test of the hold.
LEMMA SystemCycleKeeps ==
  ASSUME MissionInv, system_cycle
  PROVE  Kept /\ ManagerTypeOK'
<1>1. ASSUME NEW gs \in Seq(Goal), SyncMission(gs), Kept,
             info_final_pending' \in BOOLEAN, planned' \in Seq(Goal),
             revised' \in BOOLEAN, found_held' \in BOOLEAN,
             phase' \in {"check", "recover"}
      PROVE  ManagerTypeOK'
  BY <1>1, SyncTypes DEF Kept, system_cycle, MissionInv, TypeOK, ManagerTypeOK
<1>2. CASE (UpdateIdle \/ UpdateWithoutPose) /\ plan /\ UNCHANGED found_held
           /\ phase' = "recover"
  <2>1. PICK gs \in Seq(Goal) : SyncMission(gs)
    <3>1. nav_state.goals \in Seq(Goal) /\ <<>> \in Seq(Goal)
      BY DEF MissionInv, TypeOK, ManagerTypeOK
    <3> QED BY <1>2, <3>1 DEF UpdateIdle, UpdateWithoutPose
  <2>2. /\ UNCHANGED <<toClient, told, state, paused, current_client, pause_ordered>>
        /\ goals_synced_empty' \in BOOLEAN /\ info_final_pending' \in BOOLEAN
        /\ goals' = goals \/ (state = "IDLE" /\ goals' = <<>>)
    BY <1>2 DEF system_cycle, UpdateIdle, UpdateWithoutPose, MissionInv, TypeOK, ManagerTypeOK
  <2>3. Kept
    <3>1. ActiveHasGoals' /\ goals' \in Seq(Goal)
      BY <2>2 DEF ActiveHasGoals, MissionInv, TypeOK, ManagerTypeOK
    <3> QED
      BY <2>2, <3>1, QuietKeeps DEF Kept, MissionInv, TypeOK, ManagerTypeOK, TopicTypeOK
  <2>4. planned' \in Seq(Goal) /\ revised' = FALSE
    <3>1. nav_state'.goals \in Seq(Goal)
      BY <2>1, SyncTypes
    <3> QED BY <1>2, <3>1 DEF plan, MissionInv, TypeOK, ManagerTypeOK
  <2> QED BY <1>1, <1>2, <2>1, <2>2, <2>3, <2>4 DEF MissionInv, TypeOK, ManagerTypeOK
<1>3. ASSUME NEW publish \in BOOLEAN, UpdateActive(publish),
             phase' = "check", found_held' = progress_held, UNCHANGED <<planned, revised>>
      PROVE  Kept /\ ManagerTypeOK'
  <2> DEFINE feedback == IF publish THEN <<"FEEDBACK">> ELSE <<>>
  <2>1. feedback \in Seq(Words)
    <3>1. <<>> \in Seq(Words) /\ <<"FEEDBACK">> \in Seq(Words)
      OBVIOUS
    <3> QED BY <3>1
  <2>2. /\ Publish(Says(feedback, current_client))
        /\ UNCHANGED <<state, paused, goals, current_client, goals_synced_empty,
                       info_final_pending, pause_ordered>>
        /\ nav_state.goals \in Seq(Goal) /\ SyncMission(nav_state.goals)
    BY <1>3 DEF system_cycle, UpdateActive, MissionInv, TypeOK, ManagerTypeOK
  <2>3. /\ toClient' \in [Clients -> Seq(Words)]
        /\ told' \in [Clients -> {"ACCEPT", "END"}]
    BY <2>1, <2>2, SaysType, PublishType DEF MissionInv, TypeOK
  <2>4. told' = told
    <3>1. \A before : LastWord(feedback, before) = before
      BY LastWordOf
    <3>2. told' = [c \in Clients |->
                     IF c = current_client THEN LastWord(feedback, told[c]) ELSE told[c]]
      BY <2>2, SaysTells
    <3> QED BY <3>1, <3>2 DEF MissionInv, TypeOK, TopicTypeOK
  <2>5. Kept
    BY <2>2, <2>3, <2>4, QuietKeeps
    DEF Kept, ActiveHasGoals, MissionInv, TypeOK, ManagerTypeOK
  <2> QED BY <1>1, <1>3, <2>2, <2>5 DEF MissionInv, TypeOK, ManagerTypeOK
<1> QED BY <1>2, <1>3 DEF system_cycle

\* The rest of update() and the planner.
LEMMA CheckCycleKeeps ==
  ASSUME MissionInv, check_cycle
  PROVE  Kept /\ ManagerTypeOK'
<1>1. PICK there \in BOOLEAN : FinishUpdate(there)
  BY DEF check_cycle
<1> DEFINE left == GoalsLeft(there)
<1>2. left \in Seq(Goal) /\ state = "ACTIVE"
  BY DEF GoalsLeft, ActiveInCheck, check_cycle, MissionInv, TypeOK, ManagerTypeOK, ActiveHasGoals
<1>3. Kept /\ pause_ordered' = pause_ordered /\ info_final_pending' \in BOOLEAN
  <2>1. CASE left = <<>>
    <3>1. end_mission(<<"FINISHED">>) /\ info_final_pending' = FALSE
      BY <1>1, <2>1 DEF FinishUpdate
    <3>2. <<"FINISHED">> \in Seq(Words) /\ \A before : LastWord(<<"FINISHED">>, before) = "END"
      BY LastWordOf
    <3>3. Kept
      BY <1>2, <3>1, <3>2, EndKeeps
    <3> QED BY <3>1, <3>3 DEF end_mission
  <2>2. CASE left # <<>>
    <3>1. /\ goals' = left
          /\ UNCHANGED <<toClient, told, state, paused, current_client, goals_synced_empty,
                         info_final_pending, pause_ordered>>
      BY <1>1, <2>2 DEF FinishUpdate
    <3> QED
      BY <1>2, <2>2, <3>1, QuietKeeps
      DEF Kept, ActiveHasGoals, MissionInv, TypeOK, ManagerTypeOK, TopicTypeOK
  <2> QED BY <2>1, <2>2
<1>4. /\ nav_state' \in [navigation_state : {"IDLE", "ACTIVE"},
                         navigation_paused : BOOLEAN, goals : Seq(Goal)]
      /\ last_synced_navigation_state' \in {"IDLE", "ACTIVE"}
      /\ UNCHANGED last_synced_paused
  BY <1>1, <1>2, <1>3 DEF FinishUpdate, Kept, MissionInv, TypeOK, ManagerTypeOK
<1>5. planned' \in Seq(Goal) /\ revised' = FALSE /\ taken' \in Nat
  BY <1>4 DEF check_cycle, plan, MissionInv, TypeOK, ManagerTypeOK
<1> QED
  BY <1>3, <1>4, <1>5 DEF Kept, check_cycle, MissionInv, TypeOK, ManagerTypeOK

LEMMA RecoveryKeeps ==
  ASSUME MissionInv, recovery_cycle
  PROVE  Kept /\ ManagerTypeOK'
<1>1. CASE abort_mission
  <2>1. <<"ERROR">> \in Seq(Words) /\ \A before : LastWord(<<"ERROR">>, before) = "END"
    BY LastWordOf
  <2>2. Kept
    BY <1>1, <2>1, EndKeeps DEF abort_mission
  <2> QED
    BY <1>1, <2>2
    DEF Kept, recovery_cycle, abort_mission, MissionInv, TypeOK, ManagerTypeOK
<1>2. CASE UNCHANGED <<toClient, told, state, goals, revised, paused, current_client,
                       goals_synced_empty, info_final_pending, pause_ordered>>
  <2>1. holder' = holder
    BY <1>2 DEF holder
  <2> QED
    BY <1>2, <2>1
    DEF recovery_cycle, Kept, ActiveHasGoals, ToldIsHeld, MissionStep,
        MissionInv, TypeOK, ManagerTypeOK, TopicTypeOK
<1> QED BY <1>1, <1>2 DEF recovery_cycle

-----------------------------------------------------------------------------
(* The topic and the clients.                                              *)

LEMMA ReceiveKeepsTopic ==
  ASSUME MissionInv, NEW c \in Clients, Receive(c)
  PROVE  /\ toManager' \in [Clients -> Seq(Requests \cup Orders)]
         /\ Head(toManager[c]) \in Requests \cup Orders
BY HeadTailProperties DEF Receive, MissionInv, TypeOK, TopicTypeOK

\* A step that moves neither the mission nor what was told of it.
LEMMA OthersKeep ==
  ASSUME MissionInv, UNCHANGED <<told, managerVars>>
  PROVE  ManagerTypeOK' /\ ActiveHasGoals' /\ ToldIsHeld' /\ ActiveInCheck' /\ MissionStep
<1>1. holder' = holder
  BY DEF managerVars, holder
<1> QED
  BY <1>1 DEF managerVars, MissionInv, TypeOK, ManagerTypeOK, ActiveHasGoals,
              ToldIsHeld, ActiveInCheck, MissionStep

LEMMA CallKeeps ==
  ASSUME MissionInv, NEW c \in Clients, Call(c)
  PROVE  TopicTypeOK' /\ ClientTypeOK'
<1>1. CASE \E msg \in Requests \cup Orders : SendToManager(c, msg)
  <2>1. PICK msg \in Requests \cup Orders : SendToManager(c, msg)
    BY <1>1
  <2>2. toManager' \in [Clients -> Seq(Requests \cup Orders)] /\ calls' \in 0 .. MaxCalls
    BY <2>1, TopicAssumption DEF SendToManager, CountCall, MissionInv, TypeOK, TopicTypeOK
  <2>3. client_state' \in [Clients -> ClientStates] /\ UNCHANGED client_paused
    BY DEF Call, send_goals, cancel, pause, resume, reset, clientVars, ClientStates,
           MissionInv, TypeOK, ClientTypeOK
  <2> QED
    BY <2>2, <2>3 DEF Call, MissionInv, TypeOK, TopicTypeOK, ClientTypeOK
<1>2. CASE reset(c)
  BY <1>2 DEF Call, reset, MissionInv, TypeOK, TopicTypeOK, ClientTypeOK, ClientStates
<1>3. (\E msg \in Requests \cup Orders : SendToManager(c, msg)) \/ reset(c)
  BY DEF Call, send_goals, cancel, pause, resume
<1> QED BY <1>1, <1>2, <1>3

LEMMA AfterType ==
  ASSUME NEW s \in ClientStates, NEW word \in Words
  PROVE  After(s, word) \in ClientStates
BY DEF After, Expected, ClientStates, Ended

LEMMA CallbackKeeps ==
  ASSUME MissionInv, NEW c \in Clients, client_callback(c)
  PROVE  TopicTypeOK' /\ ClientTypeOK'
<1>1. /\ Head(toClient[c]) \in Words
      /\ toClient' \in [Clients -> Seq(Words)]
  BY HeadTailProperties DEF client_callback, MissionInv, TypeOK, TopicTypeOK
<1>2. client_state[c] \in ClientStates
  BY DEF MissionInv, TypeOK, ClientTypeOK
<1>3. After(client_state[c], Head(toClient[c])) \in ClientStates
  BY <1>1, <1>2, AfterType
<1>4. ClientTypeOK'
  BY <1>3 DEF client_callback, MissionInv, TypeOK, ClientTypeOK
<1> QED
  BY <1>1, <1>4 DEF client_callback, MissionInv, TypeOK, TopicTypeOK

-----------------------------------------------------------------------------
(* Every step keeps the invariant and implements Mission.                  *)

LEMMA InitMission == Init => MissionInv /\ Abstract!Init
<1> SUFFICES ASSUME Init PROVE MissionInv /\ Abstract!Init
  OBVIOUS
<1>1. TopicTypeOK
  <2>1. \A S : <<>> \in Seq(S)
    OBVIOUS
  <2> QED BY <2>1, TopicAssumption DEF Init, TopicInit, TopicTypeOK
<1>2. ManagerTypeOK
  <2>1. allow_preempt_goal \in BOOLEAN /\ robot_pose \in BOOLEAN
    BY ManagerAssumption DEF Init, ManagerInit
  <2>2. <<>> \in Seq(Goal)
    OBVIOUS
  <2> QED BY <2>1, <2>2 DEF Init, ManagerInit, ManagerTypeOK
<1>3. ClientTypeOK
  BY DEF Init, ClientInit, ClientTypeOK, ClientStates
<1>4. holder = NoUser
  BY DEF Init, ManagerInit, holder
<1>5. ActiveHasGoals
  BY DEF Init, ManagerInit, ActiveHasGoals
<1>8. ActiveInCheck
  BY DEF Init, ManagerInit, ActiveInCheck
<1>6. ToldIsHeld
  BY <1>4, TopicAssumption DEF Init, TopicInit, ToldIsHeld
<1>7. Abstract!Init
  BY <1>4 DEF Init, TopicInit, Abstract!Init
<1> QED BY <1>1, <1>2, <1>3, <1>5, <1>6, <1>7, <1>8 DEF MissionInv, TypeOK

LEMMA NextMission ==
  ASSUME MissionInv, [Next]_vars
  PROVE  MissionInv' /\ MissionStep
<1>1. ASSUME Kept, ManagerTypeOK', ActiveInCheck', UNCHANGED clientVars,
             toManager' \in [Clients -> Seq(Requests \cup Orders)],
             calls' \in 0 .. MaxCalls
      PROVE  MissionInv' /\ MissionStep
  BY <1>1 DEF Kept, MissionInv, TypeOK, TopicTypeOK, ClientTypeOK, clientVars
<1>2. ASSUME NEW c \in Clients, Receive(c), UNCHANGED clientVars
      PROVE  MissionInv' /\ MissionStep
  <2>1. Kept /\ ManagerTypeOK' /\ ActiveInCheck'
    BY <1>2, ReceiveKeepsTopic, ControlKeeps DEF Receive, control_callback, ActiveInCheck
  <2> QED BY <1>1, <1>2, <2>1, ReceiveKeepsTopic DEF Receive, MissionInv, TypeOK, TopicTypeOK
<1>3. CASE (comanded_pose_callback \/ ReceiveRaw) /\ UNCHANGED clientVars
  <2>1. ASSUME comanded_pose_callback PROVE Kept /\ ManagerTypeOK' /\ ActiveInCheck'
    <3>1. PICK gs \in GoalLists :
            control_callback(PoseUser, [type |-> "REQUEST", goals |-> gs])
      BY <2>1 DEF comanded_pose_callback
    <3> QED BY <3>1, ControlKeeps DEF control_callback, ActiveInCheck
  <2>2. ASSUME ReceiveRaw PROVE Kept /\ ManagerTypeOK' /\ ActiveInCheck'
    <3>1. PICK msg \in [type : {"REQUEST"}, goals : GoalLists \cup {<<>>}]
                       \cup Orders \cup [type : {"UNKNOWN"}, goals : {<<>>}] :
            control_callback(RawUser, msg)
      BY <2>2 DEF ReceiveRaw
    <3> QED BY <3>1, ControlKeeps DEF control_callback, ActiveInCheck
  <2>3. calls' \in 0 .. MaxCalls /\ UNCHANGED toManager
    BY <1>3, TopicAssumption
    DEF comanded_pose_callback, ReceiveRaw, CountCall, MissionInv, TypeOK, TopicTypeOK
  <2> QED BY <1>1, <1>3, <2>1, <2>2, <2>3 DEF MissionInv, TypeOK, TopicTypeOK
<1>4. CASE (system_cycle \/ check_cycle \/ recovery_cycle) /\ UNCHANGED clientVars
  <2>1. Kept /\ ManagerTypeOK'
    BY <1>4, SystemCycleKeeps, CheckCycleKeeps, RecoveryKeeps
  <2>2. ActiveInCheck'
    BY <1>4 DEF system_cycle, check_cycle, recovery_cycle, UpdateActive, ActiveInCheck
  <2> QED
    BY <1>1, <1>4, <2>1, <2>2
    DEF system_cycle, check_cycle, recovery_cycle, MissionInv, TypeOK, TopicTypeOK
<1>5. CASE /\ (\E held \in BOOLEAN : set_progress_held(held)) \/ read_parameters \/ Localize
           /\ UNCHANGED clientVars
  <2>1. UNCHANGED <<toManager, toClient, told, calls, state, goals, revised, paused,
                    current_client, goals_synced_empty, info_final_pending, planned,
                    pause_ordered, syncVars, cycleVars, clientVars>>
    BY <1>5 DEF set_progress_held, read_parameters, Localize
  <2>2. /\ allow_preempt_goal' \in BOOLEAN /\ robot_pose' \in BOOLEAN
        /\ progress_held' \in BOOLEAN /\ held_late' \in BOOLEAN /\ taken' \in Nat
    <3>1. CASE \E held \in BOOLEAN : set_progress_held(held)
      <4>1. PICK held \in BOOLEAN : set_progress_held(held)
        BY <3>1
      <4>2. /\ progress_held' = held /\ held_late' \in BOOLEAN /\ taken' = 0
            /\ UNCHANGED <<allow_preempt_goal, robot_pose>>
        BY <4>1 DEF set_progress_held
      <4> QED BY <4>2 DEF MissionInv, TypeOK, ManagerTypeOK
    <3>2. CASE read_parameters \/ Localize
      BY <3>2, ManagerAssumption
      DEF read_parameters, Localize, MissionInv, TypeOK, ManagerTypeOK
    <3> QED BY <1>5, <3>1, <3>2
  <2>3. ManagerTypeOK'
    BY <2>1, <2>2 DEF MissionInv, TypeOK, ManagerTypeOK
  <2>4. holder' = holder
    BY <2>1 DEF holder
  <2> QED
    BY <2>1, <2>3, <2>4 DEF MissionInv, TypeOK, TopicTypeOK, ClientTypeOK, clientVars, ActiveHasGoals,
                ToldIsHeld, ActiveInCheck, MissionStep
<1>6. ASSUME NEW c \in Clients, Call(c) \/ client_callback(c), UNCHANGED managerVars
      PROVE  MissionInv' /\ MissionStep
  <2>1. UNCHANGED told
    BY <1>6 DEF Call, client_callback
  <2> QED BY <1>6, <2>1, OthersKeep, CallKeeps, CallbackKeeps DEF MissionInv, TypeOK
<1>7. CASE UNCHANGED vars
  <2>1. UNCHANGED <<told, managerVars, clientVars, toManager, toClient, calls>>
    BY <1>7 DEF vars
  <2> QED
    BY <2>1, OthersKeep DEF MissionInv, TypeOK, TopicTypeOK, ClientTypeOK, clientVars
<1> QED BY <1>2, <1>3, <1>4, <1>5, <1>6, <1>7 DEF Next, ManagerNext, ClientNext

\* The types, and that a mission is active exactly while it has goals, hold in
\* every reachable state.
THEOREM TypesAndGoals == Spec => [](TypeOK /\ ActiveHasGoals /\ ToldIsHeld)
<1>1. MissionInv /\ [Next]_vars => MissionInv'
  BY NextMission
<1> QED BY <1>1, InitMission, PTL DEF Spec, MissionInv

\* Navigation control implements the abstract mission: one client holds it at a
\* time, and is told when it gets it and when it loses it.
THEOREM MissionImplemented == Spec => ImplementsMission
<1>1. MissionInv /\ [Next]_vars => MissionInv'
  BY NextMission
<1>2. MissionInv /\ [Next]_vars => [Abstract!Next]_<<holder, told>>
  BY NextMission DEF MissionStep
<1> QED
  BY <1>1, <1>2, InitMission, PTL DEF Spec, ImplementsMission, Abstract!Spec

-----------------------------------------------------------------------------
(* The pause, the hold, and what NavState and the planner know of the      *)
(* mission.                                                                *)

\* Goals that left NavState are those of no mission.
Synced == goals_synced_empty => state = "IDLE" /\ nav_state.goals = <<>>

\* NavState still has what update() last wrote to it.
LastSynced ==
  /\ nav_state.navigation_state = last_synced_navigation_state
  /\ nav_state.navigation_paused = last_synced_paused

\* The mission in the middle of its update() is the one NavState was given.
CheckSynced ==
  phase = "check" => /\ last_synced_navigation_state = state
                     /\ ~goals_synced_empty /\ robot_pose

\* A hold that a test of this cycle did not see came late, and cost no goal yet.
HoldSeen ==
  phase = "check" /\ progress_held /\ ~found_held => held_late /\ taken = 0

CycleInv ==
  PauseIsOrdered /\ Synced /\ LastSynced /\ CheckSynced /\ HoldSeen /\ HeldKeepsGoals

\* A callback may begin, end, pause or resume a mission.
LEMMA ControlSyncs ==
  ASSUME MissionInv, CycleInv, NEW u, NEW msg, control_callback(u, msg)
  PROVE  CycleInv' /\ (~revised' => ~revised /\ goals' = goals)
<1>1. PauseIsOrdered' /\ Synced' /\ (~revised' => ~revised /\ goals' = goals)
  <2> USE DEF CycleInv, PauseIsOrdered, Synced, control_callback
  <2>1. CASE Request(u, msg.goals)
    BY <2>1 DEF Request, accept_request, answer
  <2>2. CASE CancelOrder(u)
    BY <2>2 DEF CancelOrder, answer, end_mission
  <2>3. CASE SetPaused(u, TRUE, "PAUSED") \/ SetPaused(u, FALSE, "RESUMED")
    BY <2>3 DEF SetPaused, answer
  <2>4. CASE answer(u, "ERROR")
    BY <2>4 DEF answer
  <2> QED BY <2>1, <2>2, <2>3, <2>4
<1>2. phase = "spin" /\ UNCHANGED <<syncVars, holdVars, cycleVars>>
  BY DEF control_callback
<1> QED
  BY <1>1, <1>2 DEF CycleInv, LastSynced, CheckSynced, HoldSeen, HeldKeepsGoals

\* The hold may come and go at any time.
LEMMA HoldSyncs ==
  ASSUME CycleInv, NEW held \in BOOLEAN, set_progress_held(held)
  PROVE  CycleInv'
BY DEF CycleInv, PauseIsOrdered, Synced, LastSynced, CheckSynced, HoldSeen,
       HeldKeepsGoals, set_progress_held

\* The cycle up to the planner, with no mission or no pose, or to the test.
LEMMA SystemCycleSyncs ==
  ASSUME MissionInv, CycleInv, system_cycle
  PROVE  /\ CycleInv'
         /\ phase' = "recover" /\ robot_pose
              => nav_state'.goals = goals' /\ nav_state'.navigation_state = state'
<1>1. PICK gs : /\ SyncMission(gs)
                /\ \/ gs = nav_state.goals /\ state = "ACTIVE" /\ UNCHANGED goals_synced_empty
                      /\ (phase' = "recover" => ~robot_pose)
                   \/ gs = <<>> /\ state = "IDLE" /\ goals' = <<>>
                      /\ phase' = "recover"
  <2>1. CASE UpdateIdle /\ phase' = "recover"
    <3>1. SyncMission(IF goals_synced_empty THEN nav_state.goals ELSE <<>>)
      BY <2>1 DEF UpdateIdle
    <3>2. goals_synced_empty => nav_state.goals = <<>>
      BY DEF CycleInv, Synced
    <3>3. state = "IDLE" /\ goals = <<>> /\ goals' = <<>>
      BY <2>1 DEF UpdateIdle, MissionInv, ActiveHasGoals
    <3>4. SyncMission(<<>>)
      <4>1. CASE goals_synced_empty
        BY <3>1, <3>2, <4>1
      <4>2. CASE ~goals_synced_empty
        BY <3>1, <4>2
      <4> QED BY <4>1, <4>2
    <3> QED BY <2>1, <3>3, <3>4
  <2>2. CASE UpdateWithoutPose
    BY <2>2 DEF UpdateWithoutPose
  <2>3. CASE phase' = "check" /\ \E publish \in BOOLEAN : UpdateActive(publish)
    BY <2>3 DEF UpdateActive
  <2> QED BY <2>1, <2>2, <2>3 DEF system_cycle
<1>2. /\ nav_state'.navigation_state = state /\ last_synced_navigation_state' = state
      /\ nav_state'.navigation_paused = paused /\ last_synced_paused' = paused
      /\ nav_state'.goals = gs
  BY <1>1 DEF SyncMission, CycleInv, LastSynced
<1>3. /\ UNCHANGED <<state, paused, pause_ordered, robot_pose, holdVars>>
      /\ phase' \in {"check", "recover"}
  BY DEF system_cycle
<1>4. Synced'
  BY <1>1, <1>2, <1>3 DEF CycleInv, Synced
<1>5. phase' = "check" => state = "ACTIVE" /\ robot_pose /\ found_held' = progress_held
                          /\ UNCHANGED goals_synced_empty
  BY DEF system_cycle, UpdateActive
<1>6. CheckSynced' /\ HoldSeen'
  BY <1>2, <1>3, <1>5 DEF CycleInv, Synced, CheckSynced, HoldSeen
<1> QED
  BY <1>1, <1>2, <1>3, <1>4, <1>6
  DEF CycleInv, PauseIsOrdered, LastSynced, HeldKeepsGoals

\* The rest of a mission's cycle writes the mission it ends with to NavState.
LEMMA CheckCycleSyncs ==
  ASSUME MissionInv, CycleInv, check_cycle
  PROVE  /\ CycleInv'
         /\ nav_state'.goals = goals' /\ nav_state'.navigation_state = state'
<1>1. PICK there \in BOOLEAN : FinishUpdate(there)
  BY DEF check_cycle
<1> DEFINE left == GoalsLeft(there)
<1>2. phase = "check" /\ state = "ACTIVE" /\ goals # <<>>
  BY DEF check_cycle, MissionInv, ActiveInCheck, ActiveHasGoals
<1>3. /\ goals' = left
      /\ \/ left = <<>> /\ state' = "IDLE" /\ paused' = FALSE
         \/ left # <<>> /\ UNCHANGED <<state, paused>>
      /\ UNCHANGED <<goals_synced_empty, pause_ordered>>
  BY <1>1 DEF FinishUpdate, end_mission
<1>4. /\ nav_state'.goals = left
      /\ nav_state'.navigation_state = state' /\ last_synced_navigation_state' = state'
      /\ nav_state'.navigation_paused = nav_state.navigation_paused
      /\ UNCHANGED last_synced_paused
  <2>1. nav_state \in [navigation_state : {"IDLE", "ACTIVE"},
                       navigation_paused : BOOLEAN, goals : Seq(Goal)]
    BY DEF MissionInv, TypeOK, ManagerTypeOK
  <2> QED BY <1>1, <2>1 DEF FinishUpdate, CycleInv, LastSynced
<1>5. HeldKeepsGoals'
  <2>1. UNCHANGED <<progress_held, held_late>>
        /\ taken' = IF progress_held /\ goals' # goals THEN taken + 1 ELSE taken
    BY DEF check_cycle
  <2>2. CASE found_held
    <3>1. goals' = goals
      BY <1>3, <2>2 DEF GoalsLeft
    <3> QED BY <2>1, <3>1 DEF CycleInv, HeldKeepsGoals
  <2>3. CASE ~found_held
    BY <1>2, <2>1, <2>3 DEF CycleInv, HoldSeen, HeldKeepsGoals
  <2> QED BY <2>2, <2>3
<1>6. phase' = "recover"
  BY DEF check_cycle
<1> QED
  BY <1>2, <1>3, <1>4, <1>5, <1>6
  DEF CycleInv, PauseIsOrdered, Synced, LastSynced, CheckSynced, HoldSeen

LEMMA RecoverySyncs ==
  ASSUME CycleInv, recovery_cycle
  PROVE  CycleInv' /\ (~revised' => ~revised /\ goals' = goals)
BY DEF CycleInv, PauseIsOrdered, Synced, LastSynced, CheckSynced, HoldSeen,
       HeldKeepsGoals, recovery_cycle, abort_mission, end_mission

\* Every step but those of the cycle up to the planner.
LEMMA OtherSyncs ==
  ASSUME MissionInv, CycleInv, [Next]_vars, ~system_cycle, ~check_cycle
  PROVE  /\ CycleInv' /\ (~revised' => ~revised /\ goals' = goals)
         /\ planned' = planned /\ (robot_pose => robot_pose')
         /\ phase' = "recover" => phase = "recover"
<1>1. ASSUME NEW u, NEW msg, control_callback(u, msg)
      PROVE  /\ CycleInv' /\ (~revised' => ~revised /\ goals' = goals)
             /\ planned' = planned /\ (robot_pose => robot_pose')
             /\ phase' = "recover" => phase = "recover"
  BY <1>1, ControlSyncs DEF control_callback
<1>2. CASE recovery_cycle
  BY <1>2, RecoverySyncs DEF recovery_cycle
<1>3. CASE UNCHANGED <<state, goals, revised, paused, goals_synced_empty, planned,
                       pause_ordered, syncVars, holdVars, cycleVars>>
           /\ (robot_pose => robot_pose')
  BY <1>3 DEF CycleInv, PauseIsOrdered, Synced, LastSynced, CheckSynced, HoldSeen,
              HeldKeepsGoals
<1>4. CASE \E c \in Clients : Receive(c)
  BY <1>1, <1>4 DEF Receive
<1>5. CASE comanded_pose_callback \/ ReceiveRaw
  BY <1>1, <1>5 DEF comanded_pose_callback, ReceiveRaw
<1>6. CASE read_parameters \/ Localize
  BY <1>3, <1>6 DEF read_parameters, Localize
<1>7. CASE \E held \in BOOLEAN : set_progress_held(held)
  BY <1>7, HoldSyncs DEF set_progress_held
<1>8. CASE UNCHANGED managerVars
  BY <1>3, <1>8 DEF managerVars
<1>9. UNCHANGED vars => UNCHANGED managerVars
  BY DEF vars
<1> QED BY <1>2, <1>4, <1>5, <1>6, <1>7, <1>8, <1>9 DEF Next, ManagerNext

LEMMA NextSyncs ==
  ASSUME MissionInv, CycleInv, [Next]_vars
  PROVE  /\ CycleInv'
         /\ robot_pose => robot_pose'
         /\ robot_pose /\ PlanIsCurrent => PlanIsCurrent'
         /\ phase # "recover" /\ phase' = "recover" /\ robot_pose
              => nav_state'.goals = goals' /\ nav_state'.navigation_state = state'
<1>1. CASE system_cycle \/ check_cycle
  <2>1. CycleInv' /\ robot_pose' = robot_pose
        /\ (phase' = "recover" /\ robot_pose
              => nav_state'.goals = goals' /\ nav_state'.navigation_state = state')
    BY <1>1, SystemCycleSyncs, CheckCycleSyncs DEF system_cycle, check_cycle
  <2>2. \/ phase' = "recover" /\ plan
        \/ UNCHANGED <<goals, planned, revised>>
    BY <1>1 DEF system_cycle, check_cycle, UpdateActive
  <2>3. ~new_goals => ~revised /\ goals' = goals
    BY DEF new_goals
  <2>4. robot_pose /\ PlanIsCurrent => PlanIsCurrent'
    BY <2>1, <2>2, <2>3 DEF plan, PlanIsCurrent
  <2> QED BY <2>1, <2>4
<1>2. CASE ~system_cycle /\ ~check_cycle
  BY <1>2, OtherSyncs DEF PlanIsCurrent
<1> QED BY <1>1, <1>2

LEMMA CycleInvariant == Spec => [](MissionInv /\ CycleInv)
<1>1. Init => CycleInv
  <2>1. Init => PauseIsOrdered
    <3>1. Init => paused = FALSE /\ pause_ordered = FALSE
      BY DEF Init, ManagerInit
    <3> QED BY <3>1, Zenon DEF PauseIsOrdered
  <2>2. Init => Synced /\ LastSynced
    <3>1. ASSUME Init PROVE Synced /\ LastSynced
      <4>1. /\ nav_state = [navigation_state |-> "IDLE", navigation_paused |-> FALSE,
                            goals |-> <<>>]
            /\ last_synced_navigation_state = "IDLE"
            /\ last_synced_paused = FALSE
            /\ state = "IDLE"
        BY <3>1, Zenon DEF Init, ManagerInit
      <4>2. /\ nav_state.navigation_state = "IDLE" /\ nav_state.navigation_paused = FALSE
            /\ nav_state.goals = <<>>
        BY <4>1
      <4> QED BY <4>1, <4>2, Zenon DEF Synced, LastSynced
    <3> QED BY <3>1
  <2>3. Init => CheckSynced /\ HoldSeen
    BY DEF Init, ManagerInit, CheckSynced, HoldSeen
  <2>4. Init => HeldKeepsGoals
    <3>1. Init => progress_held = FALSE
      BY DEF Init, ManagerInit
    <3> QED BY <3>1, Zenon DEF HeldKeepsGoals
  <2> QED BY <2>1, <2>2, <2>3, <2>4 DEF CycleInv
<1>2. MissionInv /\ [Next]_vars => MissionInv'
  BY NextMission
<1>3. MissionInv /\ CycleInv /\ [Next]_vars => CycleInv'
  BY NextSyncs
<1> QED BY <1>1, <1>2, <1>3, InitMission, PTL DEF Spec

\* The navigation is paused exactly while a mission is on whose last order taken is
\* a pause: none is inherited by the mission that preempts or follows, or lost.
THEOREM PauseFollowsOrders == Spec => []PauseIsOrdered
<1>1. CycleInv => PauseIsOrdered
  BY DEF CycleInv
<1> QED BY <1>1, CycleInvariant, PTL

\* Whenever the hold comes, from the other thread and in the middle of an update()
\* too: until it is released at most the goal then being checked is taken.
THEOREM HoldKeepsGoals == Spec => []HeldKeepsGoals
<1>1. CycleInv => HeldKeepsGoals
  BY DEF CycleInv
<1> QED BY <1>1, CycleInvariant, PTL

\* With a pose, NavState has the mission of the manager after every update().
THEOREM CycleSyncs == Spec => CycleSyncsMission
<1>1. MissionInv /\ CycleInv /\ [Next]_vars
        => [phase # "recover" /\ phase' = "recover" /\ robot_pose
              => /\ nav_state'.goals = goals'
                 /\ nav_state'.navigation_state = state']_vars
  BY NextSyncs
<1> QED BY <1>1, CycleInvariant, PTL DEF Spec, CycleSyncsMission

\* Once the robot has a pose, the planner is forced by every change of the goals.
THEOREM PlanFollowsGoals == ASSUME Localized PROVE Spec => []PlanIsCurrent
<1>1. Init => robot_pose /\ PlanIsCurrent
  BY DEF Init, ManagerInit, PlanIsCurrent
<1>2. MissionInv /\ CycleInv /\ robot_pose /\ PlanIsCurrent /\ [Next]_vars
        => robot_pose' /\ PlanIsCurrent'
  BY NextSyncs
<1> QED BY <1>1, <1>2, CycleInvariant, PTL DEF Spec

-----------------------------------------------------------------------------
(* What a client believes: a word that ends its mission follows whatever   *)
(* made it believe that it navigates.                                      *)

\* What the manager publishes to one user in one step.
Replies == {<<>>} \cup {<<w>> : w \in Words}

LEMMA SaysReplies ==
  ASSUME NEW u, NEW words \in Replies
  PROVE  Says(words, u) \in [Users -> Replies]
<1>1. <<>> \in Replies
  BY DEF Replies
<1> QED BY <1>1 DEF Says

LEMMA ControlReplies ==
  ASSUME NEW u \in Users, NEW msg, control_callback(u, msg)
  PROVE  \E out \in [Users -> Replies] : Publish(out)
<1>1. \A w \in Words : <<w>> \in Replies
  BY DEF Replies
<1>2. <<>> \in Replies
  BY DEF Replies
<1>3. ASSUME NEW gs, accept_request(u, gs) PROVE \E out \in [Users -> Replies] : Publish(out)
  <2> DEFINE out == [x \in Users |->
         IF x = u THEN <<"ACCEPT">>
         ELSE IF state = "ACTIVE" /\ x = current_client THEN <<"CANCELLED">>
         ELSE <<>>]
  <2>1. Publish(out)
    BY <1>3 DEF accept_request
  <2>2. "ACCEPT" \in Words /\ "CANCELLED" \in Words
    OBVIOUS
  <2>3. out \in [Users -> Replies]
    BY <1>1, <1>2, <2>2
  <2> QED BY <2>1, <2>3
<1>4. ASSUME NEW word \in Words, Publish(Says(<<word>>, u))
      PROVE  \E out \in [Users -> Replies] : Publish(out)
  BY <1>1, <1>4, SaysReplies
<1>5. ASSUME CancelOrder(u) PROVE \E out \in [Users -> Replies] : Publish(out)
  <2>1. CASE \E word \in Words : answer(u, word)
    BY <1>4, <2>1 DEF answer
  <2>2. CASE end_mission(<<"CANCELLED">>)
    BY <1>1, <2>2, SaysReplies DEF end_mission
  <2> QED BY <1>5, <2>1, <2>2 DEF CancelOrder
<1>6. ASSUME NEW value, NEW word \in Words, SetPaused(u, value, word)
      PROVE  \E out \in [Users -> Replies] : Publish(out)
  BY <1>4, <1>6 DEF SetPaused, answer
<1>7. ASSUME NEW gs, Request(u, gs) PROVE \E out \in [Users -> Replies] : Publish(out)
  BY <1>3, <1>4, <1>7 DEF Request, answer
<1> QED BY <1>4, <1>5, <1>6, <1>7 DEF control_callback, answer

LEMMA UpdateReplies ==
  ASSUME system_cycle \/ check_cycle
  PROVE  Quiet \/ \E out \in [Users -> Replies] : Publish(out)
<1>1. {<<>>, <<"FINISHED">>, <<"FEEDBACK">>} \subseteq Replies
  BY DEF Replies
<1>2. ASSUME NEW publish \in BOOLEAN, UpdateActive(publish)
      PROVE  \E out \in [Users -> Replies] : Publish(out)
  <2>1. \E words \in {<<>>, <<"FEEDBACK">>} : Publish(Says(words, current_client))
    BY <1>2 DEF UpdateActive
  <2> QED BY <1>1, <2>1, SaysReplies
<1>3. ASSUME NEW there, FinishUpdate(there)
      PROVE  Quiet \/ \E out \in [Users -> Replies] : Publish(out)
  <2>1. Quiet \/ Publish(Says(<<"FINISHED">>, current_client))
    BY <1>3 DEF FinishUpdate, end_mission
  <2> QED BY <1>1, <2>1, SaysReplies
<1> QED BY <1>2, <1>3 DEF system_cycle, check_cycle, UpdateIdle, UpdateWithoutPose

LEMMA ManagerReplies ==
  ASSUME ManagerNext
  PROVE  UNCHANGED <<toClient, told>> \/ \E out \in [Users -> Replies] : Publish(out)
<1>1. ASSUME NEW c \in Clients, Receive(c) PROVE \E out \in [Users -> Replies] : Publish(out)
  BY <1>1, ControlReplies DEF Receive
<1>2. ASSUME comanded_pose_callback \/ ReceiveRaw PROVE \E out \in [Users -> Replies] : Publish(out)
  BY <1>2, ControlReplies DEF comanded_pose_callback, ReceiveRaw
<1>3. ASSUME recovery_cycle PROVE UNCHANGED <<toClient, told>> \/ \E out \in [Users -> Replies] : Publish(out)
  <2>1. <<"ERROR">> \in Replies
    BY DEF Replies
  <2> QED BY <1>3, <2>1, SaysReplies DEF recovery_cycle, abort_mission, end_mission
<1>4. ASSUME system_cycle \/ check_cycle PROVE UNCHANGED <<toClient, told>> \/ \E out \in [Users -> Replies] : Publish(out)
  BY <1>4, UpdateReplies
<1> QED BY <1>1, <1>2, <1>3, <1>4
        DEF ManagerNext, set_progress_held, read_parameters, Localize

\* A queue q that ends what it accepts; and a client in state s with that queue
\* before it, when the last word that was sent is not ACCEPT.
Navigating(s) == s \in {"ACCEPTED_AND_NAVIGATING", "SENT_PREEMPT"}
EndsIn(q) == \E n \in 1 .. Len(q) : q[n] \in Endings
EndsAccepted(q) ==
  \A n \in 1 .. Len(q) : q[n] = "ACCEPT" => \E m \in (n + 1) .. Len(q) : q[m] \in Endings
Followed(s, q, t) == t # "ACCEPT" => (Navigating(s) => EndsIn(q)) /\ EndsAccepted(q)

BelievesRight == \A c \in Clients : Followed(client_state[c], toClient[c], told[c])

LEMMA RepliesFollow ==
  ASSUME NEW s, NEW q \in Seq(Words), NEW t \in {"ACCEPT", "END"}, Followed(s, q, t), NEW r \in Replies
  PROVE  Followed(s, q \o r, LastWord(r, t))
<1>1. CASE r = <<>>
  <2>1. q \o r = q
    BY <1>1
  <2> QED BY <1>1, <2>1, LastWordOf
<1>2. ASSUME NEW w \in Words, r = <<w>> PROVE Followed(s, q \o r, LastWord(r, t))
  <2>1. /\ Len(q \o r) = Len(q) + 1 /\ (q \o r)[Len(q) + 1] = w
        /\ \A n \in 1 .. Len(q) : (q \o r)[n] = q[n]
    BY <1>2
  <2>2. CASE w \in Endings
    <3>1. EndsIn(q \o r)
      BY <2>1, <2>2 DEF EndsIn
    <3>2. EndsAccepted(q \o r)
      BY <2>1, <2>2 DEF EndsAccepted
    <3> QED BY <3>1, <3>2 DEF Followed
  <2>3. CASE w = "ACCEPT"
    BY <1>2, <2>3, LastWordOf DEF Followed
  <2>4. CASE w \in {"REJECT", "FEEDBACK", "PAUSED", "RESUMED"}
    <3>1. LastWord(r, t) = t
      BY <1>2, <2>4, LastWordOf
    <3>2. EndsIn(q) => EndsIn(q \o r)
      BY <2>1 DEF EndsIn
    <3>3. EndsAccepted(q) => EndsAccepted(q \o r)
      BY <2>1, <2>4 DEF EndsAccepted
    <3> QED BY <3>1, <3>2, <3>3 DEF Followed
  <2> QED BY <2>2, <2>3, <2>4
<1> QED BY <1>1, <1>2 DEF Replies

\* A client that takes a word of the queue.
LEMMA WordFollows ==
  ASSUME NEW s \in ClientStates, NEW q \in Seq(Words), q # <<>>, NEW t, Followed(s, q, t)
  PROVE  /\ Followed(After(s, Head(q)), Tail(q), t)
         /\ Head(q) \in {"PAUSED", "RESUMED"} => Followed(s, Tail(q), t)
<1> DEFINE w == Head(q)
<1>1. /\ w \in Words /\ w = q[1]
      /\ Len(Tail(q)) = Len(q) - 1 /\ Len(q) \in Nat \ {0}
      /\ \A n \in 1 .. Len(q) - 1 : Tail(q)[n] = q[n + 1]
  BY HeadTailProperties
<1>2. ASSUME EndsAccepted(q) PROVE EndsAccepted(Tail(q))
  <2> SUFFICES ASSUME NEW n \in 1 .. Len(Tail(q)), Tail(q)[n] = "ACCEPT"
               PROVE  \E m \in (n + 1) .. Len(Tail(q)) : Tail(q)[m] \in Endings
    BY DEF EndsAccepted
  <2>1. PICK m \in (n + 2) .. Len(q) : q[m] \in Endings
    BY <1>1, <1>2 DEF EndsAccepted
  <2>2. m - 1 \in (n + 1) .. Len(Tail(q)) /\ Tail(q)[m - 1] = q[m]
    BY <1>1, <2>1
  <2> QED BY <2>1, <2>2
<1>3. ASSUME EndsIn(q), w \notin Endings PROVE EndsIn(Tail(q))
  <2>1. PICK m \in 1 .. Len(q) : q[m] \in Endings
    BY <1>3 DEF EndsIn
  <2>2. m # 1
    BY <1>1, <1>3, <2>1
  <2>3. m - 1 \in 1 .. Len(Tail(q)) /\ Tail(q)[m - 1] = q[m]
    BY <1>1, <2>1, <2>2
  <2> QED BY <2>1, <2>3 DEF EndsIn
<1>4. ASSUME EndsAccepted(q), w = "ACCEPT" PROVE EndsIn(Tail(q))
  <2>1. PICK m \in 2 .. Len(q) : q[m] \in Endings
    BY <1>1, <1>4 DEF EndsAccepted
  <2>2. m - 1 \in 1 .. Len(Tail(q)) /\ Tail(q)[m - 1] = q[m]
    BY <1>1, <2>1
  <2> QED BY <2>1, <2>2 DEF EndsIn
<1>5. Navigating(After(s, w)) => w = "ACCEPT" \/ (Navigating(s) /\ w \notin Endings)
  BY <1>1 DEF After, Expected, Navigating, ClientStates, Ended
<1> HIDE DEF w
<1> QED BY <1>2, <1>3, <1>4, <1>5 DEF Followed, w

\* A call of the program makes no one navigate that did not before.
LEMMA CallFollows ==
  ASSUME MissionInv, BelievesRight, NEW c \in Clients, Call(c)
  PROVE  BelievesRight'
<1>1. UNCHANGED <<toClient, told>>
  BY DEF Call
<1>2. \A d \in Clients : Navigating(client_state'[d]) => Navigating(client_state[d])
  BY DEF Call, send_goals, cancel, pause, resume, reset, clientVars, Navigating,
     MissionInv, TypeOK, ClientTypeOK
<1> QED BY <1>1, <1>2 DEF BelievesRight, Followed

LEMMA NextBelieves ==
  ASSUME MissionInv, BelievesRight, [Next]_vars
  PROVE  BelievesRight'
<1>1. ASSUME UNCHANGED <<toClient, told, client_state>> PROVE BelievesRight'
  BY <1>1 DEF BelievesRight
<1>2. ASSUME NEW out \in [Users -> Replies], Publish(out), UNCHANGED client_state
      PROVE  BelievesRight'
  <2> SUFFICES ASSUME NEW c \in Clients
               PROVE  Followed(client_state'[c], toClient'[c], told'[c])
    BY DEF BelievesRight
  <2>1. /\ toClient'[c] = toClient[c] \o out[c] /\ told'[c] = LastWord(out[c], told[c])
        /\ client_state'[c] = client_state[c]
    BY <1>2 DEF Publish
  <2>2. /\ toClient[c] \in Seq(Words) /\ told[c] \in {"ACCEPT", "END"} /\ out[c] \in Replies
        /\ Followed(client_state[c], toClient[c], told[c])
    BY <1>2 DEF MissionInv, TypeOK, TopicTypeOK, BelievesRight
  <2> QED BY <2>1, <2>2, RepliesFollow
<1>3. ASSUME ManagerNext, UNCHANGED clientVars PROVE BelievesRight'
  BY <1>1, <1>2, <1>3, ManagerReplies DEF clientVars
<1>4. ASSUME NEW c \in Clients, client_callback(c) PROVE BelievesRight'
  <2> DEFINE w == Head(toClient[c])
  <2>1. /\ toClient[c] \in Seq(Words) /\ toClient[c] # <<>> /\ client_state[c] \in ClientStates
        /\ Followed(client_state[c], toClient[c], told[c])
    BY <1>4 DEF client_callback, MissionInv, TypeOK, TopicTypeOK, ClientTypeOK, BelievesRight
  <2>2. /\ toClient'[c] = Tail(toClient[c]) /\ UNCHANGED told
        /\ \A d \in Clients \ {c} : toClient'[d] = toClient[d] /\ client_state'[d] = client_state[d]
        /\ \/ w \in {"PAUSED", "RESUMED"} /\ client_state'[c] = client_state[c]
           \/ client_state'[c] = After(client_state[c], w)
    BY <1>4 DEF client_callback, MissionInv, TypeOK, TopicTypeOK, ClientTypeOK
  <2>3. Followed(client_state'[c], toClient'[c], told'[c])
    BY <2>1, <2>2, WordFollows
  <2> QED BY <2>2, <2>3 DEF BelievesRight
<1>5. CASE UNCHANGED vars
  BY <1>1, <1>5 DEF vars, clientVars
<1> QED BY <1>3, <1>4, <1>5, CallFollows DEF Next, ClientNext

\* However long its messages wait, and whoever preempts, cancels or aborts it:
\* a client that believes to be navigating is, or the word that ends that is on
\* its way (GoalManagerClient::control_callback()).
THEOREM BelievesToNavigate == Spec => []NavigatingHolds
<1>1. Init => BelievesRight
  BY DEF Init, TopicInit, ClientInit, BelievesRight, Followed, Navigating, EndsAccepted
<1>2. MissionInv /\ BelievesRight /\ [Next]_vars => BelievesRight'
  BY NextBelieves
<1>3. MissionInv /\ BelievesRight => NavigatingHolds
  BY DEF MissionInv, ToldIsHeld, BelievesRight, Followed, Navigating, EndsIn, NavigatingHolds
<1>4. MissionInv /\ [Next]_vars => MissionInv'
  BY NextMission
<1> QED BY <1>1, <1>2, <1>3, <1>4, InitMission, PTL DEF Spec

\* For any clients, goals and bounds, the types of navigation control.
THEOREM MissionTypes == Spec => []TypeOK
BY TypesAndGoals, PTL
=============================================================================
