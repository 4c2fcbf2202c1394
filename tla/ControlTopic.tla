---------------------------- MODULE ControlTopic ----------------------------
(***************************************************************************)
(* The "easynav_control" topic (easynav_interfaces/NavigationControl) that *)
(* joins the GoalManager of a running EasyNav with its users.  ROS 2 keeps *)
(* the order of the messages of one publisher (reliable, depth 100), and   *)
(* nothing orders those of two: one queue per client and direction.  Only  *)
(* GoalManagerClients get a queue; the other users of the topic ("goal_pose"*)
(* publishers, hand-made messages) do not follow the protocol and nobody   *)
(* reads what they are answered.                                           *)
(***************************************************************************)
EXTENDS Naturals, Sequences

CONSTANTS Clients,     \* the GoalManagerClients (C++ or Python)
          PoseUser,    \* the id the goal manager gives to "goal_pose" messages
          RawUser,     \* another publisher of the topic (it may use that id too)
          Outsiders,   \* which of these two there are
          NoUser,      \* current_client_id_ before the first mission
          Goal,        \* the poses a robot may be sent to
          GoalLists,   \* the goal lists that may be requested
          MaxCalls,    \* bound: messages published to the manager
          MaxUnread    \* bound: words waiting for a client that gets feedback

ASSUME TopicAssumption ==
  /\ PoseUser \notin Clients
  /\ RawUser \notin Clients
  /\ Outsiders \subseteq {PoseUser, RawUser}
  /\ NoUser \notin Clients \cup {PoseUser, RawUser}
  /\ GoalLists \subseteq Seq(Goal)
  /\ <<>> \notin GoalLists
  /\ MaxCalls \in Nat
  /\ MaxUnread \in Nat \ {0}

VARIABLES toManager,   \* per client: requests not yet taken by the manager
          toClient,    \* per client: words of the manager not yet taken
          told,        \* history: whether the last word on a mission sent to a
                       \* client accepted or ended it
          calls        \* messages published to the manager so far

Users == Clients \cup {PoseUser, RawUser}

\* A request carries its goals; the other messages only their type.
Requests == [type : {"REQUEST"}, goals : GoalLists]
Orders   == [type : {"CANCEL", "PAUSE", "RESUME"}, goals : {<<>>}]

\* What the manager says, by message type.
Endings == {"FINISHED", "FAILED", "CANCELLED", "ERROR"}
Words == Endings \cup {"ACCEPT", "REJECT", "FEEDBACK", "PAUSED", "RESUMED"}

TopicTypeOK ==
  /\ toManager \in [Clients -> Seq(Requests \cup Orders)]
  /\ toClient \in [Clients -> Seq(Words)]
  /\ told \in [Clients -> {"ACCEPT", "END"}]
  /\ calls \in 0 .. MaxCalls

TopicInit ==
  /\ toManager = [c \in Clients |-> <<>>]
  /\ toClient = [c \in Clients |-> <<>>]
  /\ told = [c \in Clients |-> "END"]
  /\ calls = 0

\* Bound: one more message to the manager.
CountCall ==
  /\ calls < MaxCalls
  /\ calls' = calls + 1

SendToManager(c, msg) ==
  /\ CountCall
  /\ toManager' = [toManager EXCEPT ![c] = Append(@, msg)]

-----------------------------------------------------------------------------
\* What the manager publishes in one callback: a sequence of words per user.
Says(words, u) == [x \in Users |-> IF x = u THEN words ELSE <<>>]

Spoken(words) == {words[n] : n \in 1 .. Len(words)}

LastWord(words, before) ==
  IF Spoken(words) \cap Endings # {} THEN "END"
  ELSE IF "ACCEPT" \in Spoken(words) THEN "ACCEPT" ELSE before

Publish(out) ==
  /\ toClient' = [c \in Clients |-> toClient[c] \o out[c]]
  /\ told' = [c \in Clients |-> LastWord(out[c], told[c])]

Quiet == UNCHANGED <<toClient, told>>

=============================================================================
