----------------------------- MODULE Parameters -----------------------------
(***************************************************************************)
(* The parameters of the nodes, and changes of some of them: functions     *)
(* from names to values.                                                   *)
(***************************************************************************)
CONSTANTS Names, Values,  \* parameters ("node/parameter") and their values
          Changes         \* what the recovery system may ask to change

Partial == UNION {[names -> Values] : names \in SUBSET Names}

Nothing == [p \in {} |-> p]

\* The changes over the old values.
Overridden(changes, old) ==
  [p \in DOMAIN changes \cup DOMAIN old |->
     IF p \in DOMAIN changes THEN changes[p] ELSE old[p]]

=============================================================================
