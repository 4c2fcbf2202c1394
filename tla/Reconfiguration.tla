--------------------------- MODULE Reconfiguration --------------------------
(***************************************************************************)
(* What a recovery system is promised about the parameters it changes: a   *)
(* request applies as a whole or not at all, and the values of before the  *)
(* first change of each parameter are kept to be restored together.        *)
(***************************************************************************)
EXTENDS Parameters

VARIABLES values,     \* the parameters EasyNav works with
          originals   \* the first values of those that were changed

Init ==
  /\ values \in [Names -> Values]
  /\ originals = Nothing

Apply(changes) ==
  /\ DOMAIN changes \subseteq Names
  /\ values' = Overridden(changes, values)
  /\ originals' = Overridden(originals, [p \in DOMAIN changes |-> values[p]])

Restore ==
  /\ values' = Overridden(originals, values)
  /\ originals' = Nothing

Next == Restore \/ \E changes \in Changes : Apply(changes)

Spec == Init /\ [][Next]_<<values, originals>>

=============================================================================
