------------------------- MODULE GoalManagerClient --------------------------
(***************************************************************************)
(* easynav_system/GoalManagerClient (and its Python twin of                *)
(* easynav_support_py): the state machine by which a program commands a    *)
(* mission and follows what becomes of it, one per client.                 *)
(***************************************************************************)
EXTENDS ControlTopic

VARIABLES
  client_state,      \* state_ of each client
  client_paused      \* paused_ of each client

clientVars == <<client_state, client_paused>>

Ended == {"NAVIGATION_FINISHED", "NAVIGATION_FAILED", "NAVIGATION_CANCELLED",
          "ERROR"}
ClientStates == {"IDLE", "SENT_GOAL", "SENT_PREEMPT",
                 "ACCEPTED_AND_NAVIGATING"} \cup Ended

ClientTypeOK ==
  /\ client_state \in [Clients -> ClientStates]
  /\ client_paused \in [Clients -> BOOLEAN]

ClientInit ==
  /\ client_state = [c \in Clients |-> "IDLE"]
  /\ client_paused = [c \in Clients |-> FALSE]

-----------------------------------------------------------------------------
(* The calls of the program.  One that the state does not allow only logs. *)

send_goals(c, gs) ==
  /\ \/ /\ client_state[c] = "IDLE"
        /\ client_state' = [client_state EXCEPT ![c] = "SENT_GOAL"]
     \/ /\ client_state[c] = "ACCEPTED_AND_NAVIGATING"
        /\ client_state' = [client_state EXCEPT ![c] = "SENT_PREEMPT"]
  /\ SendToManager(c, [type |-> "REQUEST", goals |-> gs])
  /\ UNCHANGED client_paused

cancel(c) ==
  /\ client_state[c] = "ACCEPTED_AND_NAVIGATING"
  /\ SendToManager(c, [type |-> "CANCEL", goals |-> <<>>])
  /\ UNCHANGED clientVars

pause(c) ==
  /\ SendToManager(c, [type |-> "PAUSE", goals |-> <<>>])
  /\ UNCHANGED clientVars

resume(c) ==
  /\ SendToManager(c, [type |-> "RESUME", goals |-> <<>>])
  /\ UNCHANGED clientVars

reset(c) ==
  /\ client_state[c] \in Ended
  /\ client_state' = [client_state EXCEPT ![c] = "IDLE"]
  /\ UNCHANGED <<client_paused, toManager, calls>>

-----------------------------------------------------------------------------
(* control_callback(): the state after a word of the manager.  Any other   *)
(* word than those a state expects is an error, and a client that waits    *)
(* for nothing ignores them all.                                           *)

Expected(s) ==
  CASE s = "SENT_GOAL" ->
         [w \in {"ACCEPT", "REJECT"} |->
            IF w = "ACCEPT" THEN "ACCEPTED_AND_NAVIGATING" ELSE "NAVIGATION_FAILED"]
    [] s = "SENT_PREEMPT" ->
         [w \in {"FEEDBACK", "ACCEPT", "REJECT"} |->
            IF w = "FEEDBACK" THEN s ELSE "ACCEPTED_AND_NAVIGATING"]
    [] s = "ACCEPTED_AND_NAVIGATING" ->
         [w \in {"FEEDBACK", "FINISHED", "FAILED", "CANCELLED"} |->
            CASE w = "FEEDBACK"  -> s
              [] w = "FINISHED"  -> "NAVIGATION_FINISHED"
              [] w = "FAILED"    -> "NAVIGATION_FAILED"
              [] w = "CANCELLED" -> "NAVIGATION_CANCELLED"]
    [] OTHER -> [w \in Words |-> s]

\* Mutant: a rejected goal has a state of its own, that no call leaves.
AfterRejected(s, word) ==
  IF s = "SENT_GOAL" /\ word = "REJECT" THEN "NAVIGATION_REJECTED"
  ELSE IF word \in DOMAIN Expected(s) THEN Expected(s)[word] ELSE "ERROR"

After(s, word) ==
  IF word \in DOMAIN Expected(s) THEN Expected(s)[word] ELSE "ERROR"

EndsNavigation(s, word) ==
  s = "ACCEPTED_AND_NAVIGATING" /\ word \in {"FINISHED", "FAILED", "CANCELLED"}

client_callback(c) ==
  LET word == Head(toClient[c])
      s == client_state[c]
  IN
  /\ toClient[c] # <<>>
  /\ toClient' = [toClient EXCEPT ![c] = Tail(@)]
  /\ \/ /\ word \in {"PAUSED", "RESUMED"}
        /\ client_paused' = [client_paused EXCEPT ![c] = (word = "PAUSED")]
        /\ UNCHANGED client_state
     \/ /\ word \notin {"PAUSED", "RESUMED"}
        /\ client_state' = [client_state EXCEPT ![c] = After(s, word)]
        /\ client_paused' = [client_paused EXCEPT ![c] = @ /\ ~EndsNavigation(s, word)]
  /\ UNCHANGED <<toManager, told, calls>>

Call(c) ==
  /\ \/ \E gs \in GoalLists : send_goals(c, gs)
     \/ cancel(c)
     \/ pause(c)
     \/ resume(c)
     \/ reset(c)
  /\ UNCHANGED <<toClient, told>>

ClientNext == \E c \in Clients : Call(c) \/ client_callback(c)

=============================================================================
