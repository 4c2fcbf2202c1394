--------------------------- MODULE LifecycleProofs --------------------------
(***************************************************************************)
(* Proofs about SystemLifecycle, for any number of subnodes, any           *)
(* parameters and changes, and any transition that may fail.               *)
(***************************************************************************)
EXTENDS SystemLifecycle, TLAPS

USE DEF holdVars

\* Which transition of SystemNode main() may be waiting for.
Stage ==
  /\ main = "start" => sys = "unconfigured"
  /\ main \in {"started", "activate"} => sys \in {"configuring", "inactive", "unconfigured"}
  /\ main \in {"activated", "restarted"} => sys \in {"activating", "active", "inactive"}
  /\ main \in {"cleanup", "destroy"} => sys \in Primary \cup {"deactivating", "error"}
  /\ main = "set" => sys \in Primary \cup {"cleaning"}
  /\ main \in {"loop", "cycle", "apply", "restart", "join", "finalize", "exit"}
       => sys \in Primary
  /\ main \in {"cycle", "apply"} => attempt = "none"
  /\ main = "loop" => attempt = "none" \/ shutdown_requested
  /\ main \in {"start", "started", "activated", "finalize", "destroy", "exit"} => rt # "cycle"
  /\ main \in {"start", "started", "activated"} => rt = "none" /\ attempt = "none"
  /\ main \in {"finalize", "destroy", "exit"} => rt \in {"none", "ended"}

\* How far the transition has got through the subnodes.
Progress ==
  /\ sys = "configuring" => \A n \in Nodes : sub[n] \in {"unconfigured", "inactive"}
  /\ sys = "activating" => at \in 1 .. NumNodes + 1 /\ \A n \in Nodes : n < at => sub[n] = "active"
  /\ sys = "cleaning"
       => at \in 1 .. NumNodes + 1 /\ \A n \in Nodes : n < at => sub[n] = "unconfigured"

\* The RT cycle is open while every subnode is active, and only then.
Gate ==
  /\ active /\ main # "exit"
       => /\ sys = "active" \/ (sys = "deactivating" /\ at = 0)
          /\ \A n \in Nodes : sub[n] = "active"
  /\ rt = "cycle" => active
  /\ sys = "active" /\ main \in {"activated", "restarted"} => active
  /\ sys = "active" /\ main \in {"loop", "cycle", "apply"} /\ attempt = "none" => active

SafetyInv == TypeOK /\ Stage /\ Progress /\ Gate /\ UnconfiguredIsClean

\* What a restart has done to the parameters so far.
Restart ==
  /\ attempt = "none" => previous = Nothing
  /\ DOMAIN previous \subseteq Names
  /\ attempt \in {"changes", "previous"} => DOMAIN change = DOMAIN previous
  /\ attempt = "previous" => change = previous
  /\ attempt = "changes" => IF restoring THEN change = original ELSE change \in Changes
  /\ attempt \in {"changes", "previous"} /\ main \in {"activate", "restarted"} /\ all_set
       => \A p \in DOMAIN change : params[p] = change[p]
  /\ main \in {"restart", "cleanup", "set", "activate", "restarted"}
       => attempt \in {"changes", "previous"}

USE DEF Nodes, Primary, Transitions

-----------------------------------------------------------------------------
(* Partial assignments of parameters.                                      *)

LEMMA PartialDomain ==
  ASSUME NEW f
  PROVE  f \in Partial <=> DOMAIN f \subseteq Names /\ f \in [DOMAIN f -> Values]
BY DEF Partial

LEMMA NothingIsPartial == Nothing \in Partial /\ DOMAIN Nothing = {}
BY PartialDomain DEF Nothing

LEMMA OverriddenType ==
  ASSUME NEW f \in Partial, NEW g \in Partial
  PROVE  Overridden(f, g) \in Partial
<1>1. DOMAIN Overridden(f, g) = DOMAIN f \cup DOMAIN g
  BY DEF Overridden
<1>2. Overridden(f, g) \in [DOMAIN f \cup DOMAIN g -> Values]
  BY PartialDomain DEF Overridden
<1> QED BY <1>1, <1>2, PartialDomain

LEMMA ParamsArePartial ==
  ASSUME NEW f \in [Names -> Values]
  PROVE  f \in Partial /\ DOMAIN f = Names
BY PartialDomain

LEMMA OverriddenParams ==
  ASSUME NEW f \in Partial, NEW g \in [Names -> Values]
  PROVE  Overridden(f, g) \in [Names -> Values]
<1>1. DOMAIN f \cup DOMAIN g = Names
  BY PartialDomain
<1> QED BY <1>1, PartialDomain DEF Overridden

-----------------------------------------------------------------------------
(* The transitions of SystemNode.                                          *)

LEMMA SubnodeTypes ==
  ASSUME TypeOK
  PROVE  /\ CleanedUp(sub) \in [Nodes -> Primary]
         /\ \A from, to \in Primary : Triggered(from, to) \in [Nodes -> Primary]
BY DEF TypeOK, CleanedUp, Triggered

HoldTypes == manager' \in BOOLEAN /\ goal_manager' \in BOOLEAN
             /\ hold' \in {"none", "managed", "orphan"}

LEMMA SetSubnodesType ==
  ASSUME TypeOK, NEW next \in [Nodes -> Primary], SetSubnodes(next)
  PROVE  sub' \in [Nodes -> Primary] /\ HoldTypes
<1>1. /\ manager \in BOOLEAN /\ goal_manager \in BOOLEAN
      /\ hold \in {"none", "managed", "orphan"}
  BY DEF TypeOK
<1>2. \A asked : Holds("managed") \subseteq {"none", "managed", "orphan"}
  BY <1>1 DEF Holds
<1> QED BY <1>1, <1>2 DEF SetSubnodes, RecoveryCallbacks, set_manager, HoldTypes

LEMMA TransitionTypes ==
  ASSUME TypeOK, transition
  PROVE  TypeOK'
<1>1. SUFFICES /\ sys' \in Primary \cup Transitions
               /\ sub' \in [Nodes -> Primary]
               /\ at' \in 0 .. NumNodes + 1
               /\ active' \in BOOLEAN
               /\ HoldTypes
  BY DEF TypeOK, HoldTypes, transition, reconfigureVars, requestVars
<1>a. \A next \in [Nodes -> Primary] :
        SetSubnodes(next) => sub' \in [Nodes -> Primary] /\ HoldTypes
  BY SetSubnodesType
<1>b. UNCHANGED holdVars => HoldTypes
  BY DEF HoldTypes, TypeOK
<1> USE SubnodeTypes, <1>a, <1>b, LifecycleAssumption DEF TypeOK, Continue, Finish
<1>2. CASE on_configure
  <2>1. CASE at \in Nodes /\ Continue(Triggered("unconfigured", "inactive"), "inactive", "unconfigured")
    BY <1>2, <2>1 DEF on_configure
  <2>2. CASE configure_failed
    BY <1>2, <2>2 DEF on_configure, configure_failed
  <2>3. CASE initialize_failed
    BY <2>3 DEF initialize_failed, Holds, HoldTypes
  <2>4. CASE Finish("inactive") /\ goal_manager' = TRUE /\ UNCHANGED active
    BY <2>4 DEF HoldTypes
  <2> QED BY <1>2, <2>1, <2>2, <2>3, <2>4 DEF on_configure
<1>3. CASE on_activate
  <2>1. CASE at \in Nodes /\ Continue(Triggered("inactive", "active"), "active", "inactive")
    BY <1>3, <2>1 DEF on_activate
  <2>2. CASE at = Recovery /\ Continue(Triggered("inactive", "unconfigured"), "active", "inactive")
    BY <1>3, <2>2 DEF on_activate
  <2>3. CASE Finish("active") /\ active' = TRUE /\ UNCHANGED goal_manager
    BY <1>3, <2>3 DEF on_activate
  <2> QED BY <1>3, <2>1, <2>2, <2>3 DEF on_activate
<1>4. CASE on_deactivate
  <2>1. CASE stop_cycles
    <3>1. 1 \in 0 .. NumNodes + 1
      OBVIOUS
    <3>2. UNCHANGED <<sys, sub, holdVars>> /\ at' = 1 /\ active' = FALSE
      BY <2>1 DEF stop_cycles
    <3> QED BY <3>1, <3>2
  <2>2. CASE at \in Nodes /\ Continue(Triggered("active", "inactive"), "inactive", "active")
    BY <1>4, <2>2 DEF on_deactivate
  <2>3. CASE at = Recovery /\ Continue(Triggered("active", "unconfigured"), "inactive", "active")
    BY <1>4, <2>3 DEF on_deactivate
  <2>4. CASE Finish(IF shutdown_requested THEN "error" ELSE "inactive")
             /\ UNCHANGED <<active, goal_manager>>
    <3>1. CASE shutdown_requested
      BY <1>4, <2>4, <3>1
    <3>2. CASE ~shutdown_requested
      BY <1>4, <2>4, <3>2
    <3> QED BY <3>1, <3>2
  <2> QED BY <1>4, <2>1, <2>2, <2>3, <2>4 DEF on_deactivate
<1>5. CASE on_cleanup
  BY <1>5 DEF on_cleanup
<1>6. CASE on_error
  <2>1. [n \in Nodes |-> "finalized"] \in [Nodes -> Primary]
    OBVIOUS
  <2> QED BY <1>6, <2>1 DEF on_error
<1> QED BY <1>2, <1>3, <1>4, <1>5, <1>6 DEF transition

LEMMA TransitionSafe ==
  ASSUME SafetyInv, transition
  PROVE  (Stage /\ Progress /\ Gate /\ UnconfiguredIsClean)'
<1> USE LifecycleAssumption DEF transition, reconfigureVars, requestVars,
        SetSubnodes, Continue, Finish, SafetyInv, TypeOK, Stage, Progress, Gate,
        UnconfiguredIsClean, Triggered
<1>1. CASE on_configure
  <2>1. CASE configure_failed
    BY <1>1, <2>1 DEF on_configure, configure_failed, CleanedUp
  <2>2. CASE initialize_failed
    BY <1>1, <2>2 DEF on_configure, initialize_failed, CleanedUp
  <2>3. CASE ~configure_failed /\ ~initialize_failed
    BY <1>1, <2>3 DEF on_configure
  <2> QED BY <2>1, <2>2, <2>3
<1>2. CASE on_activate
  BY <1>2 DEF on_activate
<1>3. CASE on_deactivate
  BY <1>3 DEF on_deactivate, stop_cycles
<1>4. CASE on_cleanup
  BY <1>4 DEF on_cleanup
<1>5. CASE on_error
  BY <1>5 DEF on_error
<1> QED BY <1>1, <1>2, <1>3, <1>4, <1>5

-----------------------------------------------------------------------------
(* The requests, the RT thread, main() and the restarts.                   *)

LEMMA ManagerActsType ==
  ASSUME TypeOK, manager_acts
  PROVE  /\ pending' \in Request \cup {NoRequest}
         /\ shutdown_requested' \in BOOLEAN
         /\ requests' \in 0 .. MaxRequests
         /\ hold' \in {"none", "managed", "orphan"}
         /\ shutdown_requested => shutdown_requested'
<1> USE LifecycleAssumption DEF TypeOK, requestVars, Request
<1>1. CASE request_reconfigure
  BY <1>1 DEF request_reconfigure
<1>2. CASE request_restore_parameters
  BY <1>2 DEF request_restore_parameters
<1>3. CASE hold_mission_progress
  BY <1>3 DEF hold_mission_progress, Holds
<1>4. CASE request_shutdown
  BY <1>4 DEF request_shutdown
<1>5. CASE UNCHANGED <<requestVars, hold>>
  BY <1>5
<1> QED BY <1>1, <1>2, <1>3, <1>4, <1>5 DEF manager_acts

LEMMA RtTypes ==
  ASSUME TypeOK, Rt
  PROVE  TypeOK'
<1> USE ManagerActsType DEF TypeOK, rt_unchanged, requestVars, reconfigureVars
<1>1. CASE rt_loop
  BY <1>1 DEF rt_loop
<1>2. CASE system_cycle_rt
  BY <1>2 DEF system_cycle_rt
<1>3. CASE cycle_rt
  BY <1>3 DEF cycle_rt
<1> QED BY <1>1, <1>2, <1>3 DEF Rt

LEMMA RtSafe ==
  ASSUME SafetyInv, Rt
  PROVE  (Stage /\ Progress /\ Gate /\ UnconfiguredIsClean)'
<1> USE ManagerActsType DEF SafetyInv, Stage, Progress, Gate, UnconfiguredIsClean,
        rt_unchanged, requestVars, reconfigureVars
<1>1. CASE rt_loop
  BY <1>1 DEF rt_loop
<1>2. CASE system_cycle_rt
  BY <1>2 DEF system_cycle_rt
<1>3. CASE cycle_rt
  BY <1>3 DEF cycle_rt
<1> QED BY <1>1, <1>2, <1>3 DEF Rt

LEMMA MainTypes ==
  ASSUME TypeOK,
         \/ main_configure \/ main_activate \/ main_start_loops
         \/ main_loop \/ system_cycle \/ main_join \/ main_finalize \/ main_destroy
         \/ handle_shutdown_signal
  PROVE  TypeOK'
<1> USE SetSubnodesType, ManagerActsType, LifecycleAssumption
    DEF TypeOK, requestVars, reconfigureVars, lifecycleVars, Trigger, Skip
<1>1. CASE main_configure
  BY <1>1 DEF main_configure
<1>2. CASE main_activate
  BY <1>2 DEF main_activate
<1>3. CASE main_start_loops
  <2>1. /\ main' \in {"destroy", "loop"}
        /\ rt' \in {rt, "check", "ended"}
        /\ shutdown_requested' \in BOOLEAN
        /\ UNCHANGED <<lifecycleVars, reconfigureVars, pending, requests, g_stop>>
    BY <1>3 DEF main_start_loops
  <2> QED BY <2>1
<1>4. CASE main_loop
  <2>1. /\ main' \in {"join", "cycle"}
        /\ g_stop' \in BOOLEAN
        /\ UNCHANGED <<lifecycleVars, reconfigureVars, requestVars, rt>>
    BY <1>4 DEF main_loop
  <2> QED BY <2>1
<1>5. CASE system_cycle
  BY <1>5 DEF system_cycle
<1>6. CASE main_join
  BY <1>6 DEF main_join
<1>7. CASE main_finalize
  BY <1>7 DEF main_finalize
<1>8. CASE main_destroy
  <2>1. [n \in Nodes |-> "finalized"] \in [Nodes -> Primary]
    OBVIOUS
  <2> QED BY <1>8, <2>1 DEF main_destroy
<1>9. CASE handle_shutdown_signal
  BY <1>9 DEF handle_shutdown_signal
<1> QED BY <1>1, <1>2, <1>3, <1>4, <1>5, <1>6, <1>7, <1>8, <1>9

LEMMA MainSafe ==
  ASSUME SafetyInv,
         \/ main_configure \/ main_activate \/ main_start_loops
         \/ main_loop \/ system_cycle \/ main_join \/ main_finalize \/ main_destroy
         \/ handle_shutdown_signal
  PROVE  (Stage /\ Progress /\ Gate /\ UnconfiguredIsClean)'
<1> USE ManagerActsType, LifecycleAssumption
    DEF SafetyInv, Stage, Progress, Gate, UnconfiguredIsClean, requestVars, reconfigureVars,
        lifecycleVars, Trigger, Skip
<1>1. CASE main_configure
  BY <1>1 DEF main_configure
<1>2. CASE main_activate
  BY <1>2 DEF main_activate
<1>3. CASE main_start_loops
  BY <1>3 DEF main_start_loops
<1>4. CASE main_loop
  BY <1>4 DEF main_loop
<1>5. CASE system_cycle
  BY <1>5 DEF system_cycle
<1>6. CASE main_join
  BY <1>6 DEF main_join
<1>7. CASE main_finalize
  BY <1>7 DEF main_finalize
<1>8. CASE main_destroy
  BY <1>8 DEF main_destroy
<1>9. CASE handle_shutdown_signal
  BY <1>9 DEF handle_shutdown_signal
<1> QED BY <1>1, <1>2, <1>3, <1>4, <1>5, <1>6, <1>7, <1>8, <1>9

-----------------------------------------------------------------------------
(* apply_pending_reconfigure() and restart_with().                         *)

LEMMA ChangesArePartial ==
  ASSUME NEW changes \in Changes, DOMAIN changes \subseteq Names
  PROVE  changes \in Partial
BY PartialDomain, LifecycleAssumption

LEMMA ApplyTypes ==
  ASSUME TypeOK, apply_pending_reconfigure
  PROVE  TypeOK'
<1> USE DEF TypeOK, requestVars, reconfigureVars, lifecycleVars
<1>1. CASE main' = "loop" /\ UNCHANGED reconfigureVars
           /\ pending' \in {pending, NoRequest}
  BY <1>1 DEF apply_pending_reconfigure
<1>2. CASE ~(main' = "loop" /\ UNCHANGED reconfigureVars
             /\ pending' \in {pending, NoRequest})
  <2> DEFINE changes == Asked(pending)
  <2>1. /\ pending \in Request
        /\ Applicable(changes)
        /\ pending' = NoRequest
        /\ main' = "restart" /\ attempt' = "changes" /\ change' = changes
        /\ previous' = [p \in DOMAIN changes \cap Names |-> params[p]]
        /\ restoring' = pending.restore
        /\ all_set' = TRUE
        /\ UNCHANGED <<params, original>>
    BY <1>2 DEF apply_pending_reconfigure, Taken
  <2>2. changes \in Partial
    BY <2>1, ChangesArePartial DEF Asked, Applicable, Request
  <2>3. previous' \in Partial
    BY <2>1, PartialDomain
  <2>4. restoring' \in BOOLEAN
    BY <2>1 DEF Request
  <2> HIDE DEF changes
  <2> QED BY <2>1, <2>2, <2>3, <2>4 DEF apply_pending_reconfigure
<1> QED BY <1>1, <1>2

LEMMA FailedTypes ==
  ASSUME TypeOK, restart_failed, UNCHANGED <<rt, g_stop>>
  PROVE  TypeOK'
<1>1. /\ UNCHANGED <<lifecycleVars, params, original, previous, restoring, pending, requests>>
      /\ \/ /\ attempt' = "previous" /\ change' = previous /\ all_set' = TRUE
            /\ main' = "restart" /\ UNCHANGED shutdown_requested
         \/ /\ attempt' = "lost" /\ UNCHANGED <<change, all_set>>
            /\ main' = "loop" /\ shutdown_requested' = TRUE
  BY DEF restart_failed, Skip
<1>2. UNCHANGED <<sys, sub, at, active, manager, goal_manager, hold>>
  BY <1>1 DEF lifecycleVars
<1>3. /\ attempt' \in {"previous", "lost"} /\ main' \in {"restart", "loop"}
      /\ change' \in Partial /\ all_set' \in BOOLEAN /\ shutdown_requested' \in BOOLEAN
  BY <1>1 DEF TypeOK
<1> QED BY <1>1, <1>2, <1>3 DEF TypeOK

LEMMA OriginalsType ==
  ASSUME TypeOK
  PROVE  Originals \in Partial
BY NothingIsPartial, OverriddenType DEF TypeOK, Originals

LEMMA RestartTypes ==
  ASSUME TypeOK,
         restart_deactivate \/ restart_cleanup \/ restart_set \/ restart_activate \/ restart_done
  PROVE  TypeOK'
<1> USE LifecycleAssumption
<1>1. CASE restart_failed /\ UNCHANGED <<rt, g_stop>>
  BY <1>1, FailedTypes
<1>2. CASE restart_deactivate
  BY <1>2 DEF TypeOK, restart_deactivate, reconfigureVars, requestVars, Trigger, Skip, lifecycleVars
<1>3. CASE restart_cleanup
  BY <1>3 DEF TypeOK, restart_cleanup, reconfigureVars, requestVars, Trigger, Skip, lifecycleVars
<1>4. CASE restart_set /\ ~restart_failed
  <2>1. PICK refused \in SUBSET {p \in DOMAIN change : change[p] \in Faulty["set"]} :
            /\ params' = Overridden([p \in DOMAIN change \ refused |-> change[p]], params)
            /\ all_set' = (refused = {})
            /\ sys' = "configuring" /\ at' = 1 /\ main' = "activate"
            /\ SetSubnodes(CleanedUp(sub))
            /\ UNCHANGED <<active, original, attempt, change, previous, restoring,
                           requestVars>>
    BY <1>4 DEF restart_set
  <2>2. [p \in DOMAIN change \ refused |-> change[p]] \in Partial
    BY PartialDomain DEF TypeOK
  <2>3. params' \in [Names -> Values]
    BY <2>1, <2>2, OverriddenParams DEF TypeOK
  <2>4. all_set' \in BOOLEAN
    BY <2>1
  <2>5. sub' \in [Nodes -> Primary] /\ HoldTypes
    BY <2>1, SubnodeTypes, SetSubnodesType
  <2>6. at' \in 0 .. NumNodes + 1
    BY <2>1
  <2>7. UNCHANGED <<rt, g_stop>>
    BY <1>4 DEF restart_set
  <2> QED BY <2>1, <2>3, <2>4, <2>5, <2>6, <2>7 DEF TypeOK, HoldTypes, requestVars
<1>5. CASE restart_activate /\ ~restart_failed
  <2>1. /\ UNCHANGED <<sub, active, manager, goal_manager, hold, reconfigureVars, requestVars,
                       rt, g_stop>>
        /\ sys' = "activating" /\ at' = 1 /\ main' = "restarted"
    BY <1>5 DEF restart_activate, Trigger
  <2>2. 1 \in 0 .. NumNodes + 1
    BY LifecycleAssumption
  <2> QED BY <2>1, <2>2 DEF TypeOK, reconfigureVars, requestVars
<1>6. CASE restart_done /\ ~restart_failed
  <2>1. /\ UNCHANGED <<sys, sub, at, active, manager, goal_manager, hold, params,
                       requestVars, rt, g_stop>>
        /\ original' \in {Originals, original}
        /\ attempt' = "none" /\ change' = Nothing /\ previous' = Nothing
        /\ restoring' = FALSE /\ all_set' = TRUE /\ main' = "loop"
    BY <1>6 DEF restart_done, Skip, lifecycleVars
  <2>2. original' \in Partial /\ change' \in Partial /\ previous' \in Partial
    BY <2>1, OriginalsType, NothingIsPartial DEF TypeOK
  <2>3. restoring' \in BOOLEAN /\ all_set' \in BOOLEAN
    BY <2>1
  <2>4. UNCHANGED <<pending, shutdown_requested, requests>>
    BY <2>1 DEF requestVars
  <2>5. attempt' \in {"none", "changes", "previous", "lost"}
    BY <2>1
  <2>6. main' = "loop" /\ UNCHANGED <<sys, sub, at, active, manager, goal_manager, hold,
                                     params, rt, g_stop>>
    BY <2>1
  <2> QED BY <2>2, <2>3, <2>4, <2>5, <2>6 DEF TypeOK
<1>7. restart_set \/ restart_activate \/ restart_done => UNCHANGED <<rt, g_stop>>
  BY DEF restart_set, restart_activate, restart_done
<1> QED BY <1>1, <1>2, <1>3, <1>4, <1>5, <1>6, <1>7

LEMMA ApplySafe ==
  ASSUME SafetyInv, apply_pending_reconfigure
  PROVE  (Stage /\ Progress /\ Gate /\ UnconfiguredIsClean)'
BY DEF SafetyInv, Stage, Progress, Gate, UnconfiguredIsClean, reconfigureVars,
       lifecycleVars, apply_pending_reconfigure

LEMMA RestartSafe ==
  ASSUME SafetyInv,
         restart_deactivate \/ restart_cleanup \/ restart_set \/ restart_activate \/ restart_done
  PROVE  (Stage /\ Progress /\ Gate /\ UnconfiguredIsClean)'
<1> USE LifecycleAssumption
    DEF SafetyInv, Stage, Progress, Gate, UnconfiguredIsClean, requestVars, reconfigureVars,
        lifecycleVars, Trigger, Skip
<1>1. CASE restart_failed /\ main \in {"set", "activate", "restarted"} /\ sys \in Primary
           /\ UNCHANGED rt
  BY <1>1 DEF restart_failed
<1>2. CASE restart_deactivate
  BY <1>2 DEF restart_deactivate
<1>3. CASE restart_cleanup
  BY <1>3 DEF restart_cleanup
<1>4. CASE restart_set /\ ~restart_failed
  BY <1>4 DEF restart_set, SetSubnodes, CleanedUp
<1>5. CASE restart_activate /\ ~restart_failed
  BY <1>5 DEF restart_activate
<1>6. CASE restart_done /\ ~restart_failed
  BY <1>6 DEF restart_done, Restarted
<1>7. restart_set \/ restart_activate \/ restart_done
        => UNCHANGED rt /\ main \in {"set", "activate", "restarted"} /\ sys \in Primary
  BY DEF restart_set, restart_activate, restart_done
<1> QED BY <1>1, <1>2, <1>3, <1>4, <1>5, <1>6, <1>7

-----------------------------------------------------------------------------
(* The safety theorem.                                                     *)

LEMMA InitSafe == Init => SafetyInv
<1> SUFFICES ASSUME Init PROVE SafetyInv
  OBVIOUS
<1>1. params \in [Names -> Values]
  BY DEF Init
<1>2. 1 \in 0 .. NumNodes + 1 /\ 0 \in 0 .. MaxRequests
  BY LifecycleAssumption
<1>3. sub \in [Nodes -> Primary]
  BY DEF Init
<1>4. TypeOK
  BY <1>1, <1>2, <1>3, NothingIsPartial DEF Init, TypeOK
<1> QED BY <1>4, LifecycleAssumption
        DEF Init, SafetyInv, Stage, Progress, Gate, UnconfiguredIsClean

LEMMA NextSafe == SafetyInv /\ [Next]_vars => SafetyInv'
<1> SUFFICES ASSUME SafetyInv, [Next]_vars PROVE SafetyInv'
  OBVIOUS
<1> USE DEF SafetyInv
<1>1. CASE transition
  BY <1>1, TransitionTypes, TransitionSafe
<1>2. CASE \/ main_configure \/ main_activate \/ main_start_loops
           \/ main_loop \/ system_cycle \/ main_join \/ main_finalize \/ main_destroy
           \/ handle_shutdown_signal
  BY <1>2, MainTypes, MainSafe
<1>3. CASE apply_pending_reconfigure
  BY <1>3, ApplyTypes, ApplySafe
<1>4. CASE restart_deactivate \/ restart_cleanup \/ restart_set \/ restart_activate \/ restart_done
  BY <1>4, RestartTypes, RestartSafe
<1>5. CASE Rt
  BY <1>5, RtTypes, RtSafe
<1>6. CASE UNCHANGED vars
  BY <1>6 DEF vars, lifecycleVars, reconfigureVars, requestVars, TypeOK, Request, Stage,
              Progress, Gate, UnconfiguredIsClean
<1> QED BY <1>1, <1>2, <1>3, <1>4, <1>5, <1>6 DEF Next, Main

LEMMA SafetyInvariant == Spec => []SafetyInv
BY InitSafe, NextSafe, PTL DEF Spec

LEMMA GateIsSafe == SafetyInv => CyclesOverActive
BY DEF SafetyInv, Stage, Gate, CyclesOverActive

\* No cycle of either thread runs over a node that is not active, and no
\* unconfigured EasyNav has a subnode half-configured: for any subnodes, any
\* transitions that fail and any interleaving of the two threads.
THEOREM LifecycleSafe == Spec => [](TypeOK /\ CyclesOverActive /\ UnconfiguredIsClean)
<1>1. SafetyInv => TypeOK /\ CyclesOverActive /\ UnconfiguredIsClean
  BY GateIsSafe DEF SafetyInv
<1> QED BY <1>1, SafetyInvariant, PTL

\* The types of the lifecycle, for any subnodes and parameters.
THEOREM LifecycleTypes == Spec => []TypeOK
BY LifecycleSafe, PTL

\* An unconfigured EasyNav leaves no subnode configured, whatever transition
\* failed on the way there.
THEOREM UnconfiguredStaysClean == Spec => []UnconfiguredIsClean
BY LifecycleSafe, PTL

-----------------------------------------------------------------------------
(* The hold on the mission.                                                *)

\* Whatever callback of a recovery manager throws or asks for the hold, and whoever
\* unloads it: only one that never initialized leaves a hold behind.
THEOREM HoldIsOwned == Spec => []HoldHasOwner
<1>1. Init => HoldHasOwner
  BY LifecycleAssumption DEF Init, HoldHasOwner, Nodes
<1>2. TypeOK /\ HoldHasOwner /\ [Next]_vars => HoldHasOwner'
  <2> SUFFICES ASSUME TypeOK, HoldHasOwner, [Next]_vars PROVE HoldHasOwner'
    OBVIOUS
  <2>0. Recovery \in Nodes
    BY LifecycleAssumption DEF Nodes
  <2>1. CASE UNCHANGED <<sub, manager, hold>>
    BY <2>1 DEF HoldHasOwner
  <2>2. CASE \E next : SetSubnodes(next)
    <3>1. PICK next : /\ sub' = next
                      /\ RecoveryCallbacks(sub[Recovery], next[Recovery])
      BY <2>2 DEF SetSubnodes
    <3>2. sub[Recovery] \in Primary /\ manager \in BOOLEAN
      BY <2>0 DEF TypeOK
    <3>3. CASE next[Recovery] = sub[Recovery] /\ UNCHANGED <<manager, hold>>
      BY <3>1, <3>3 DEF HoldHasOwner
    <3>4. CASE next[Recovery] \in {"unconfigured", "finalized"} /\ set_manager(FALSE, hold)
      BY <3>1, <3>2, <3>4 DEF HoldHasOwner, set_manager
    <3>5. CASE /\ next[Recovery] = "inactive"
               /\ \E asked \in Holds("managed") : set_manager(TRUE, asked)
      BY <3>1, <3>5 DEF HoldHasOwner, set_manager
    <3>6. CASE /\ {sub[Recovery], next[Recovery]} = {"inactive", "active"}
               /\ UNCHANGED manager
      <4>1. sub[Recovery] \in {"inactive", "active"} /\ next[Recovery] \in {"inactive", "active"}
        BY <3>6
      <4>2. manager
        BY <4>1 DEF HoldHasOwner
      <4> QED BY <3>1, <3>6, <4>1, <4>2 DEF HoldHasOwner
    <3> QED BY <3>1, <3>3, <3>4, <3>5, <3>6 DEF RecoveryCallbacks
  <2>3. CASE (manager_acts \/ UNCHANGED hold) /\ UNCHANGED <<sub, manager>>
    BY <2>3 DEF HoldHasOwner, manager_acts, request_reconfigure, request_restore_parameters,
                request_shutdown, hold_mission_progress
  <2>4. CASE transition
    <3>1. CASE initialize_failed
      <4>1. /\ sub[Recovery] = "unconfigured" /\ sub'[Recovery] = "unconfigured"
            /\ manager' = manager /\ hold' \in {hold, "none", "orphan"}
        BY <2>0, <3>1 DEF initialize_failed, CleanedUp, Holds
      <4> QED BY <4>1 DEF HoldHasOwner
    <3>2. (\E next : SetSubnodes(next)) \/ UNCHANGED <<sub, manager, hold>> \/ initialize_failed
      BY <2>4 DEF transition, on_configure, on_activate, on_deactivate, on_cleanup,
         on_error, configure_failed, stop_cycles, Continue, Finish
    <3> QED BY <2>1, <2>2, <3>1, <3>2
  <2>5. CASE Rt
    BY <2>1, <2>3, <2>5 DEF Rt, rt_loop, system_cycle_rt, cycle_rt, rt_unchanged
  <2>6. CASE system_cycle
    BY <2>1, <2>3, <2>6 DEF system_cycle
  <2>7. CASE main_destroy
    BY <2>0, <2>7 DEF main_destroy, HoldHasOwner
  <2>8. CASE restart_set
    BY <2>1, <2>2, <2>8 DEF restart_set, restart_failed, Skip, lifecycleVars
  <2>9. CASE main_configure \/ main_activate \/ main_start_loops \/ main_loop \/ main_join
             \/ main_finalize \/ handle_shutdown_signal
    BY <2>1, <2>9 DEF main_configure, main_activate, main_start_loops, main_loop, main_join,
       main_finalize, handle_shutdown_signal, Trigger, Skip, lifecycleVars
  <2>10. CASE apply_pending_reconfigure \/ restart_deactivate \/ restart_cleanup
              \/ restart_activate \/ restart_done
    BY <2>1, <2>10 DEF apply_pending_reconfigure, restart_deactivate, restart_cleanup,
       restart_activate, restart_done, restart_failed, Trigger, Skip, lifecycleVars
  <2>11. CASE UNCHANGED vars
    BY <2>1, <2>11 DEF vars, lifecycleVars
  <2> QED BY <2>4, <2>5, <2>6, <2>7, <2>8, <2>9, <2>10, <2>11 DEF Next, Main
<1> QED BY <1>1, <1>2, LifecycleSafe, PTL DEF Spec

-----------------------------------------------------------------------------
(* The refinement of Reconfiguration.                                      *)

LEMMA OverriddenByNothing ==
  ASSUME NEW old \in [Names -> Values]
  PROVE  Overridden(Nothing, old) = old
BY DEF Overridden, Nothing

\* Taking a copy of some values changes nothing.
LEMMA OverriddenByItself ==
  ASSUME NEW old \in [Names -> Values], NEW changes \in Partial,
         \A p \in DOMAIN changes : changes[p] = old[p]
  PROVE  Overridden(changes, old) = old
BY PartialDomain DEF Overridden

\* What is set of the parameters that change does not show.
LEMMA OverriddenHides ==
  ASSUME NEW old \in [Names -> Values], NEW above \in Partial, NEW below \in Partial,
         DOMAIN below \subseteq DOMAIN above
  PROVE  Overridden(above, Overridden(below, old)) = Overridden(above, old)
BY PartialDomain DEF Overridden

\* Values that are all set are the change of what they hide.
LEMMA OverriddenApplied ==
  ASSUME NEW now \in [Names -> Values], NEW changes \in Partial, NEW before \in Partial,
         DOMAIN changes = DOMAIN before, \A p \in DOMAIN changes : now[p] = changes[p]
  PROVE  now = Overridden(changes, Overridden(before, now))
BY PartialDomain DEF Overridden

\* Where restart_with() is running.
Restarting == main \in {"restart", "cleanup", "set", "activate", "restarted"}

LEMMA RestartKept ==
  ASSUME Restart, UNCHANGED reconfigureVars, Restarting' => Restarting,
         main' \in {"activate", "restarted"} => main \in {"activate", "restarted"}
  PROVE  Restart'
BY DEF Restart, Restarting, reconfigureVars

\* Every step but those of a reconfiguration.
LEMMA OtherKeepsRestart ==
  ASSUME TypeOK, Restart,
         \/ transition \/ Rt \/ main_configure \/ main_activate \/ main_start_loops
         \/ main_loop \/ system_cycle \/ main_join \/ main_finalize \/ main_destroy
         \/ handle_shutdown_signal \/ restart_deactivate \/ restart_cleanup
         \/ (restart_activate /\ ~restart_failed) \/ UNCHANGED vars
  PROVE  Restart' /\ UNCHANGED reconfigureVars
<1>1. UNCHANGED reconfigureVars
  BY DEF transition, Rt, rt_loop, system_cycle_rt, cycle_rt, rt_unchanged, main_configure,
     main_activate, main_start_loops, main_loop, system_cycle, main_join, main_finalize,
     main_destroy, handle_shutdown_signal, restart_deactivate, restart_cleanup,
     restart_activate, vars
<1>2. Restarting' => Restarting
  BY DEF Restarting, transition, Rt, rt_loop, system_cycle_rt, cycle_rt, rt_unchanged,
     main_configure, main_activate, main_start_loops, main_loop, system_cycle, main_join,
     main_finalize, main_destroy, handle_shutdown_signal, restart_deactivate,
     restart_cleanup, restart_activate, Trigger, Skip, vars
<1>3. main' \in {"activate", "restarted"} => main \in {"activate", "restarted"}
  BY DEF transition, Rt, rt_loop, system_cycle_rt, cycle_rt, rt_unchanged,
     main_configure, main_activate, main_start_loops, main_loop, system_cycle, main_join,
     main_finalize, main_destroy, handle_shutdown_signal, restart_deactivate,
     restart_cleanup, restart_activate, Trigger, Skip, vars
<1> QED BY <1>1, <1>2, <1>3, RestartKept

\* A request that applies is taken with the values that it replaces.
LEMMA ApplyStarts ==
  ASSUME SafetyInv, Restart, apply_pending_reconfigure
  PROVE  Restart' /\ effective' = effective /\ original' = original
<1>1. attempt = "none" /\ previous = Nothing
  BY DEF SafetyInv, Stage, Restart, apply_pending_reconfigure
<1>2. CASE main' = "loop" /\ UNCHANGED reconfigureVars
  BY <1>2, RestartKept DEF Restarting, effective, reconfigureVars
<1>3. CASE ~(main' = "loop" /\ UNCHANGED reconfigureVars)
  <2> DEFINE changes == Asked(pending)
  <2>1. /\ pending \in Request
        /\ Applicable(changes)
        /\ main' = "restart" /\ attempt' = "changes" /\ change' = changes
        /\ previous' = [p \in DOMAIN changes \cap Names |-> params[p]]
        /\ restoring' = pending.restore
        /\ UNCHANGED <<params, original>>
    BY <1>3 DEF apply_pending_reconfigure, SafetyInv, TypeOK
  <2>2. /\ DOMAIN changes \subseteq Names
        /\ IF pending.restore THEN changes = original ELSE changes \in Changes
    BY <2>1 DEF Asked, Applicable, Request
  <2> HIDE DEF changes
  <2>3. DOMAIN previous' = DOMAIN changes
    BY <2>1, <2>2
  <2>4. Restart'
    BY <2>1, <2>2, <2>3 DEF Restart
  <2>5. params \in [Names -> Values]
    BY DEF SafetyInv, TypeOK
  <2>6. effective = params
    BY <1>1, <2>5, OverriddenByNothing DEF effective
  <2>7. previous' \in Partial /\ \A p \in DOMAIN previous' : previous'[p] = params[p]
    BY <2>1, <2>5, PartialDomain
  <2>8. effective' = params
    BY <2>1, <2>5, <2>7, OverriddenByItself DEF effective
  <2> QED BY <2>1, <2>4, <2>6, <2>8
<1> QED BY <1>2, <1>3

LEMMA FailureHides ==
  ASSUME SafetyInv, Restart, restart_failed, main \in {"set", "activate", "restarted"}
  PROVE  Restart' /\ effective' = effective /\ original' = original
<1>1. effective' = effective /\ original' = original
  BY DEF effective, restart_failed
<1>2. DOMAIN previous' \subseteq Names
  BY DEF Restart, restart_failed
<1>3. CASE attempt' = "previous"
  <2>1. main' = "restart" /\ change' = previous' /\ attempt' = "previous"
    BY <1>3 DEF restart_failed, Skip
  <2> QED BY <1>1, <1>2, <2>1 DEF Restart
<1>4. CASE attempt' = "lost"
  <2>1. main' = "loop"
    BY <1>4 DEF restart_failed, Skip
  <2> QED BY <1>1, <1>2, <1>4, <2>1 DEF Restart
<1> QED BY <1>3, <1>4 DEF restart_failed

\* The values that are being tried are not those EasyNav works with.
LEMMA SetHides ==
  ASSUME SafetyInv, Restart, restart_set, ~restart_failed
  PROVE  Restart' /\ effective' = effective /\ original' = original
<1>1. PICK refused \in SUBSET {p \in DOMAIN change : change[p] \in Faulty["set"]} :
          /\ params' = Overridden([p \in DOMAIN change \ refused |-> change[p]], params)
          /\ all_set' = (refused = {})
          /\ main' = "activate"
          /\ UNCHANGED <<original, attempt, change, previous, restoring>>
  BY DEF restart_set
<1> DEFINE set == [p \in DOMAIN change \ refused |-> change[p]]
<1>2. /\ params \in [Names -> Values] /\ change \in Partial /\ previous \in Partial
      /\ attempt \in {"changes", "previous"}
      /\ DOMAIN change = DOMAIN previous /\ DOMAIN previous \subseteq Names
  BY DEF SafetyInv, TypeOK, Restart, restart_set
<1>3. set \in Partial /\ DOMAIN set \subseteq DOMAIN previous
  BY <1>2, PartialDomain
<1>4. effective' = effective
  <2>1. Overridden(previous, Overridden(set, params)) = Overridden(previous, params)
    BY <1>2, <1>3, OverriddenHides
  <2> QED BY <1>1, <2>1 DEF effective
<1>5. refused = {} => \A p \in DOMAIN change : params'[p] = change[p]
  <2> SUFFICES ASSUME refused = {}, NEW p \in DOMAIN change PROVE params'[p] = change[p]
    OBVIOUS
  <2>1. params' = Overridden(set, params) /\ DOMAIN set = DOMAIN change /\ set[p] = change[p]
    BY <1>1
  <2> QED BY <2>1 DEF Overridden
<1>6. Restart'
  BY <1>1, <1>2, <1>5 DEF Restart
<1> QED BY <1>1, <1>4, <1>6

\* A restart that succeeds applies its change, or restores what there was.
LEMMA DoneApplies ==
  ASSUME SafetyInv, Restart, restart_done, ~restart_failed
  PROVE  Restart' /\ [Abstract!Next]_<<effective, original>>
<1>1. /\ all_set /\ main = "restarted"
      /\ original' = IF attempt = "changes" THEN Originals ELSE original
      /\ attempt' = "none" /\ change' = Nothing /\ previous' = Nothing
      /\ main' = "loop"
      /\ params' = params
  BY DEF restart_done, Restarted, Skip
<1>2. /\ params \in [Names -> Values] /\ change \in Partial /\ previous \in Partial
      /\ attempt \in {"changes", "previous"}
      /\ DOMAIN change = DOMAIN previous /\ DOMAIN previous \subseteq Names
      /\ \A p \in DOMAIN change : params[p] = change[p]
  BY <1>1 DEF SafetyInv, TypeOK, Restart
<1>3. Restart'
  BY <1>1, NothingIsPartial DEF Restart
<1>4. effective' = params
  BY <1>1, <1>2, OverriddenByNothing DEF effective
<1>5. params = Overridden(change, effective)
  BY <1>2, OverriddenApplied DEF effective
<1>6. CASE attempt = "previous"
  <2>1. change = previous
    BY <1>6 DEF Restart
  <2>2. effective = params
    BY <1>2, <2>1, OverriddenByItself DEF effective
  <2> QED BY <1>1, <1>3, <1>4, <1>6, <2>2
<1>7. CASE attempt = "changes" /\ restoring
  <2>1. change = original /\ original' = Nothing
    BY <1>1, <1>7 DEF Restart, Originals
  <2> QED BY <1>3, <1>4, <1>5, <2>1 DEF Abstract!Next, Abstract!Restore, Abstract!Overridden,
       Abstract!Nothing, Overridden, Nothing
<1>8. CASE attempt = "changes" /\ ~restoring
  <2>1. change \in Changes /\ original' = Overridden(original, previous)
    BY <1>1, <1>8 DEF Restart, Originals
  <2>2. previous = [p \in DOMAIN change |-> effective[p]]
    BY <1>2, PartialDomain DEF effective, Overridden
  <2>3. Abstract!Apply(change)
    BY <1>2, <1>4, <1>5, <2>1, <2>2 DEF Abstract!Apply, Abstract!Overridden, Overridden
  <2> QED BY <1>3, <2>1, <2>3 DEF Abstract!Next
<1> QED BY <1>2, <1>6, <1>7, <1>8

\* Whatever fails, and whatever is requested meanwhile, a request of the recovery
\* system applies as a whole or not at all, and what is restored is what there was
\* before the first change.
THEOREM ReconfigurationImplemented == Spec => ImplementsReconfiguration
<1>1. Init => Restart /\ Abstract!Init
  <2> SUFFICES ASSUME Init PROVE Restart /\ Abstract!Init
    OBVIOUS
  <2>1. params \in [Names -> Values] /\ previous = Nothing /\ original = Nothing
    BY DEF Init
  <2>2. effective = params
    BY <2>1, OverriddenByNothing DEF effective
  <2>3. Restart
    BY NothingIsPartial DEF Init, Restart
  <2> QED BY <2>1, <2>2, <2>3 DEF Abstract!Init, Abstract!Nothing, Nothing
<1>2. SafetyInv /\ Restart /\ [Next]_vars => Restart' /\ [Abstract!Next]_<<effective, original>>
  <2> SUFFICES ASSUME SafetyInv, Restart, [Next]_vars
               PROVE  Restart' /\ [Abstract!Next]_<<effective, original>>
    OBVIOUS
  <2>1. CASE \/ transition \/ Rt \/ main_configure \/ main_activate \/ main_start_loops
             \/ main_loop \/ system_cycle \/ main_join \/ main_finalize \/ main_destroy
             \/ handle_shutdown_signal \/ restart_deactivate \/ restart_cleanup
             \/ (restart_activate /\ ~restart_failed) \/ UNCHANGED vars
    BY <2>1, OtherKeepsRestart DEF SafetyInv, effective, reconfigureVars
  <2>2. CASE apply_pending_reconfigure
    BY <2>2, ApplyStarts
  <2>3. CASE restart_failed /\ main \in {"set", "activate", "restarted"}
    BY <2>3, FailureHides
  <2>4. CASE restart_set /\ ~restart_failed
    BY <2>4, SetHides
  <2>5. CASE restart_done /\ ~restart_failed
    BY <2>5, DoneApplies
  <2>6. restart_set \/ restart_activate \/ restart_done
          => main \in {"set", "activate", "restarted"}
    BY DEF restart_set, restart_activate, restart_done
  <2> QED BY <2>1, <2>2, <2>3, <2>4, <2>5, <2>6 DEF Next, Main
<1> QED BY <1>1, <1>2, SafetyInvariant, PTL DEF Spec, ImplementsReconfiguration, Abstract!Spec

=============================================================================
