------------------------------- MODULE Mission ------------------------------
(***************************************************************************)
(* What navigation control promises to its clients, whatever messages and  *)
(* callbacks it takes: at most one client is navigating, a client is told  *)
(* that its goal was accepted when it becomes that client, and told that   *)
(* its mission ended when it no longer is.                                 *)
(***************************************************************************)
CONSTANTS Clients, Nobody

VARIABLES holder,    \* the client that is navigating
          told       \* the last word on a mission each client was sent

Init ==
  /\ holder = Nobody
  /\ told = [c \in Clients |-> "END"]

\* The goal of c is accepted; who was navigating before is told that it no
\* longer is.
Grant(c) ==
  /\ holder' = c
  /\ told' = [d \in Clients |->
                IF d = c THEN "ACCEPT"
                ELSE IF d = holder THEN "END" ELSE told[d]]

\* The mission ends, or is lost to a user that is no client.
End ==
  /\ holder \in Clients
  /\ holder' = Nobody
  /\ told' = [told EXCEPT ![holder] = "END"]

Next == End \/ \E c \in Clients : Grant(c)

Spec == Init /\ [][Next]_<<holder, told>>

=============================================================================
