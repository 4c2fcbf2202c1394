--------------------------- MODULE SystemLifecycle --------------------------
(***************************************************************************)
(* easynav_system/SystemNode as the lifecycle node it is, the subnodes it  *)
(* drives, and main(): start-up, the two loops, reconfiguration and        *)
(* restoration of parameters between two cycles, shutdown, and the end.    *)
(* The main thread runs every transition, one subnode after the other in   *)
(* the order of their names; the real-time (RT) thread cycles meanwhile.   *)
(***************************************************************************)
EXTENDS Naturals, Parameters

CONSTANTS NumNodes,       \* the subnodes are 1 .. NumNodes, in their order
          Recovery,       \* RecoveryManagerNode
          Faulty,         \* per step, the values with which it may fail
          Unrecoverable,  \* the recovery system or the supervisor may shut down
          NoRequest,
          MaxRequests     \* bound: reconfigurations requested

ASSUME LifecycleAssumption ==
  /\ NumNodes \in Nat /\ Recovery \in 1 .. NumNodes
  /\ \A changes \in Changes : changes \in [DOMAIN changes -> Values]
  /\ Faulty \in [{"configure", "activate", "deactivate", "set"} -> SUBSET Values]
  /\ Unrecoverable \in BOOLEAN
  /\ NoRequest \notin [changes : Changes, restore : {FALSE}]
  /\ MaxRequests \in Nat

VARIABLES
  sys,                   \* the lifecycle state of SystemNode
  sub,                   \* those of the subnodes
  at,                    \* the subnode a transition of SystemNode is at
  active,                \* active_
  rt,                    \* where the RT thread is
  main,                  \* where main() is
  params,                \* the parameters of every node
  original,              \* original_parameters_
  pending,               \* pending_reconfigure_
  attempt,               \* what restart_with() is trying, if anything
  change, previous,      \* the changes it tries, and what they replace
  restoring, all_set,
  shutdown_requested, g_stop,
  manager,               \* the recovery node has one: manager_
  goal_manager,          \* there is one: goal_manager_
  hold,                  \* progress_held_ of the goal manager: "none", "managed" when a
                         \* manager that initialized asked for it, or "orphan"
  requests

holdVars == <<manager, goal_manager, hold>>
lifecycleVars == <<sys, sub, at, active, holdVars>>
reconfigureVars == <<params, original, attempt, change, previous, restoring, all_set>>
requestVars == <<pending, shutdown_requested, requests>>
vars == <<lifecycleVars, reconfigureVars, requestVars, rt, main, g_stop>>

Nodes == 1 .. NumNodes
Primary == {"unconfigured", "inactive", "active", "finalized"}
Transitions == {"configuring", "activating", "deactivating", "cleaning", "error"}
Request == [changes : Changes \cup {Nothing}, restore : BOOLEAN]

TypeOK ==
  /\ sys \in Primary \cup Transitions
  /\ sub \in [Nodes -> Primary]
  /\ at \in 0 .. NumNodes + 1
  /\ active \in BOOLEAN
  /\ rt \in {"none", "check", "lock", "cycle", "ended"}
  /\ main \in {"start", "started", "activated", "loop", "cycle", "apply", "restart",
              "cleanup", "set", "activate", "restarted", "join", "finalize", "destroy",
              "exit"}
  /\ params \in [Names -> Values]
  /\ original \in Partial
  /\ pending \in Request \cup {NoRequest}
  /\ attempt \in {"none", "changes", "previous", "lost"}
  /\ change \in Partial
  /\ previous \in Partial
  /\ restoring \in BOOLEAN
  /\ all_set \in BOOLEAN
  /\ shutdown_requested \in BOOLEAN
  /\ g_stop \in BOOLEAN
  /\ manager \in BOOLEAN
  /\ goal_manager \in BOOLEAN
  /\ hold \in {"none", "managed", "orphan"}
  /\ requests \in 0 .. MaxRequests

Init ==
  /\ sys = "unconfigured" /\ sub = [n \in Nodes |-> "unconfigured"] /\ at = 1
  /\ active = FALSE
  /\ manager = FALSE /\ goal_manager = FALSE /\ hold = "none"
  /\ rt = "none" /\ main = "start"
  /\ params \in [Names -> Values \ Faulty["set"]]
  /\ original = Nothing /\ attempt = "none"
  /\ change = Nothing /\ previous = Nothing /\ restoring = FALSE /\ all_set = TRUE
  /\ pending = NoRequest /\ shutdown_requested = FALSE /\ g_stop = FALSE
  /\ requests = 0

MayFail(step) == \E p \in Names : params[p] \in Faulty[step]

-----------------------------------------------------------------------------
(* The transitions of SystemNode.  A transition that the state of a node   *)
(* does not allow leaves it as it is.                                      *)

\* Mutant: the hold of a manager that goes away stays.
set_managerHeld(loaded, asked) ==
  /\ manager' = loaded
  /\ hold' = asked

\* set_manager(), with the hold as it is when it is called: to unload a manager
\* releases it, whoever asked for it.
set_manager(loaded, asked) ==
  /\ manager' = loaded
  /\ hold' = IF manager /\ ~loaded THEN "none" ELSE asked

\* What a callback of a recovery manager may leave of the hold.
Holds(by) == IF goal_manager THEN {hold, "none", by} ELSE {hold}

\* The callbacks of the recovery node on the way to a state, and in them those of
\* its manager: initialize(), on_activate() and on_deactivate().
RecoveryCallbacks(from, to) ==
  \/ from = to /\ UNCHANGED <<manager, hold>>
  \/ from # to /\ to \in {"unconfigured", "finalized"} /\ set_manager(FALSE, hold)
  \/ /\ from = "unconfigured" /\ to = "inactive"
     /\ \E asked \in Holds("managed") : set_manager(TRUE, asked)
  \/ /\ {from, to} = {"inactive", "active"}
     /\ hold' \in IF manager THEN Holds("managed") ELSE {hold}
     /\ UNCHANGED manager

SetSubnodes(next) ==
  /\ sub' = next
  /\ RecoveryCallbacks(sub[Recovery], next[Recovery])
  /\ UNCHANGED goal_manager

Triggered(from, to) == IF sub[at] = from THEN [sub EXCEPT ![at] = to] ELSE sub

\* The next subnode if this one got there, and the failure of the transition if not.
Continue(next, expected, failure) ==
  /\ IF next[at] = expected
     THEN at' = at + 1 /\ sys' = sys
     ELSE at' = 1 /\ sys' = failure
  /\ SetSubnodes(next)
  /\ UNCHANGED active

Finish(state) ==
  /\ at = NumNodes + 1
  /\ at' = 1
  /\ sys' = state
  /\ UNCHANGED <<sub, manager, hold>>

\* cleanup_subnodes().
CleanedUp(nodes) ==
  [n \in Nodes |-> IF nodes[n] = "inactive" THEN "unconfigured" ELSE nodes[n]]

\* Mutant: a failed configuration leaves the subnodes before it configured.
configure_failedUnclean ==
  /\ at' = 1 /\ sys' = "unconfigured"
  /\ UNCHANGED <<sub, holdVars, active>>

configure_failed ==
  /\ at' = 1 /\ sys' = "unconfigured"
  /\ SetSubnodes(CleanedUp(sub))
  /\ UNCHANGED active

\* A recovery manager asks for the hold, or for its release, and then throws in
\* its initialize(): set_manager() is never called with it.
initialize_failed ==
  /\ at = Recovery /\ sub[at] = "unconfigured" /\ MayFail("configure")
  /\ hold' \in Holds("orphan")
  /\ at' = 1 /\ sys' = "unconfigured"
  /\ sub' = CleanedUp(sub)
  /\ UNCHANGED <<active, manager, goal_manager>>

\* A subnode fails to configure, or a check before or after them all does.  The
\* first configuration makes the goal manager, which is kept.
on_configure ==
  /\ sys = "configuring"
  /\ \/ /\ at \in Nodes
        /\ IF sub[at] \in {"unconfigured", "inactive"}
           THEN Continue(Triggered("unconfigured", "inactive"), "inactive", "unconfigured")
           ELSE configure_failed
     \/ initialize_failed
     \/ MayFail("configure") /\ configure_failed
     \/ Finish("inactive") /\ goal_manager' = TRUE /\ UNCHANGED active

\* The manager's on_activate() may throw, which ends in the on_error() of its node.
on_activate ==
  /\ sys = "activating"
  /\ \/ at \in Nodes /\ Continue(Triggered("inactive", "active"), "active", "inactive")
     \/ /\ at = Recovery /\ MayFail("activate")
        /\ Continue(Triggered("inactive", "unconfigured"), "active", "inactive")
     \/ /\ Finish("active")
        /\ rt # "cycle"
        /\ active' = TRUE
        /\ UNCHANGED goal_manager

\* Mutant: the RT cycle in flight is not waited for.
stop_cyclesUnlocked ==
  /\ at = 0 /\ at' = 1
  /\ active' = FALSE
  /\ UNCHANGED <<sys, sub, holdVars>>

\* With the RT mutex: no cycle is in flight, and none will run.
stop_cycles ==
  /\ at = 0 /\ rt # "cycle"
  /\ at' = 1
  /\ active' = FALSE
  /\ UNCHANGED <<sys, sub, holdVars>>

on_deactivate ==
  /\ sys = "deactivating"
  /\ \/ stop_cycles
     \/ at \in Nodes /\ Continue(Triggered("active", "inactive"), "inactive", "active")
     \/ /\ at = Recovery /\ MayFail("deactivate")
        /\ Continue(Triggered("active", "unconfigured"), "inactive", "active")
     \/ /\ Finish(IF shutdown_requested THEN "error" ELSE "inactive")
        /\ UNCHANGED <<active, goal_manager>>

on_cleanup ==
  /\ sys = "cleaning"
  /\ \/ at \in Nodes /\ Continue(Triggered("inactive", "unconfigured"), "unconfigured", "inactive")
     \/ Finish("unconfigured") /\ UNCHANGED <<active, goal_manager>>

\* Only on_deactivate() fails with an error, once a shutdown is requested.
on_error ==
  /\ sys = "error"
  /\ sys' = "finalized"
  /\ SetSubnodes([n \in Nodes |-> "finalized"])
  /\ UNCHANGED <<at, active>>

transition ==
  /\ on_configure \/ on_activate \/ on_deactivate \/ on_cleanup \/ on_error
  /\ UNCHANGED <<reconfigureVars, requestVars, rt, main, g_stop>>

\* main() triggers a transition, and goes on at the given place after it.
Trigger(state, then) ==
  /\ sys' = state
  /\ at' = IF state = "deactivating" THEN 0 ELSE 1
  /\ main' = then
  /\ UNCHANGED <<sub, active, holdVars>>

Skip(then) == main' = then /\ UNCHANGED lifecycleVars

-----------------------------------------------------------------------------
(* What the recovery system (or the supervisor) asks of SystemNode.        *)

request_reconfigure ==
  /\ requests < MaxRequests
  /\ requests' = requests + 1
  /\ \E changes \in Changes : pending' = [changes |-> changes, restore |-> FALSE]
  /\ UNCHANGED <<shutdown_requested, hold>>

request_restore_parameters ==
  /\ requests < MaxRequests
  /\ requests' = requests + 1
  /\ pending' = [changes |-> Nothing, restore |-> TRUE]
  /\ UNCHANGED <<shutdown_requested, hold>>

request_shutdown ==
  /\ Unrecoverable
  /\ shutdown_requested' = TRUE
  /\ UNCHANGED <<pending, requests, hold>>

hold_mission_progress ==
  /\ hold' \in Holds("managed")
  /\ UNCHANGED requestVars

\* A cycle of the recovery manager, if one is loaded.
manager_acts ==
  \/ /\ manager
     /\ request_reconfigure \/ request_restore_parameters \/ hold_mission_progress
  \/ request_shutdown
  \/ UNCHANGED <<requestVars, hold>>

-----------------------------------------------------------------------------
(* The RT thread.                                                          *)

rt_unchanged == UNCHANGED <<sys, sub, at, active, manager, goal_manager,
                            reconfigureVars, main, g_stop>>

\* The loop of the thread: the state is looked at without the mutex.
rt_loop ==
  /\ rt = "check"
  /\ \/ g_stop /\ rt' = "ended"
     \/ ~g_stop /\ sys = "active" /\ rt' = "lock"
  /\ rt_unchanged
  /\ UNCHANGED <<requestVars, hold>>

\* Mutant: a cycle runs whether or not the nodes are active.
system_cycle_rtAlways ==
  /\ rt = "lock"
  /\ rt' = "cycle"
  /\ rt_unchanged
  /\ UNCHANGED <<requestVars, hold>>

\* system_cycle_rt() up to its test of active_, with the mutex from there on.
system_cycle_rt ==
  /\ rt = "lock"
  /\ rt' = IF active THEN "cycle" ELSE "check"
  /\ rt_unchanged
  /\ UNCHANGED <<requestVars, hold>>

cycle_rt ==
  /\ rt = "cycle"
  /\ rt' = "check"
  /\ manager_acts
  /\ rt_unchanged

-----------------------------------------------------------------------------
(* main(): start-up, the non-RT loop, and the end.                         *)

main_configure ==
  /\ main = "start"
  /\ Trigger("configuring", "started")
  /\ UNCHANGED <<reconfigureVars, requestVars, rt, g_stop>>

\* It returns if it was stopped meanwhile, and if the memory cannot be locked.
main_activate ==
  /\ main = "started" /\ sys \in Primary
  /\ \/ Skip("destroy")
     \/ ~g_stop /\ sys = "inactive" /\ Trigger("activating", "activated")
  /\ UNCHANGED <<reconfigureVars, requestVars, rt, g_stop>>

\* The RT thread starts; in safety mode it ends without real time.
main_start_loops ==
  /\ main = "activated" /\ sys \in Primary
  /\ \/ sys # "active" /\ Skip("destroy") /\ UNCHANGED <<requestVars, rt>>
     \/ sys = "active" /\ Skip("loop") /\ rt' = "check" /\ UNCHANGED requestVars
     \/ /\ sys = "active" /\ Unrecoverable
        /\ Skip("loop")
        /\ rt' = "ended"
        /\ shutdown_requested' = TRUE
        /\ UNCHANGED <<pending, requests>>
  /\ UNCHANGED <<reconfigureVars, g_stop>>

\* Mutant: a requested shutdown does not end the loop.
main_loopDeaf ==
  /\ main = "loop"
  /\ IF g_stop THEN main' = "join" ELSE main' = "cycle"
  /\ g_stop' = g_stop
  /\ UNCHANGED <<lifecycleVars, reconfigureVars, requestVars, rt>>

main_loop ==
  /\ main = "loop"
  /\ IF g_stop \/ shutdown_requested
     THEN main' = "join" /\ g_stop' = TRUE
     ELSE main' = "cycle" /\ g_stop' = g_stop
  /\ UNCHANGED <<lifecycleVars, reconfigureVars, requestVars, rt>>

system_cycle ==
  /\ main = "cycle"
  /\ main' = "apply"
  /\ IF sys = "active" THEN manager_acts ELSE UNCHANGED <<requestVars, hold>>
  /\ UNCHANGED <<sys, sub, at, active, manager, goal_manager, reconfigureVars, rt,
                 g_stop>>

main_join ==
  /\ main = "join" /\ rt = "ended"
  /\ main' = "finalize"
  /\ UNCHANGED <<lifecycleVars, reconfigureVars, requestVars, rt, g_stop>>

\* As its supervisor, main() deactivates an EasyNav that asked for its shutdown.
main_finalize ==
  /\ main = "finalize"
  /\ IF shutdown_requested /\ sys = "active"
     THEN Trigger("deactivating", "destroy") ELSE Skip("destroy")
  /\ UNCHANGED <<reconfigureVars, requestVars, rt, g_stop>>

\* The destructors of SystemNode, of its goal manager and of its subnodes.
main_destroy ==
  /\ main = "destroy" /\ sys \in Primary
  /\ main' = "exit"
  /\ sys' = "finalized"
  /\ sub' = [n \in Nodes |-> "finalized"]
  /\ manager' = FALSE /\ goal_manager' = FALSE /\ hold' = "none"
  /\ UNCHANGED <<at, active, reconfigureVars, requestVars, rt, g_stop>>

\* SIGINT or SIGTERM, at any time.
handle_shutdown_signal ==
  /\ main # "exit" /\ ~g_stop
  /\ g_stop' = TRUE
  /\ UNCHANGED <<lifecycleVars, reconfigureVars, requestVars, rt, main>>

-----------------------------------------------------------------------------
(* apply_pending_reconfigure() and restart_with().                         *)

\* The changes that a request asks for now.
Asked(request) == IF request.restore THEN original ELSE request.changes

\* Mutant: parameters that do not exist are not looked for.
ApplicableUnknown(changes) == changes # Nothing

Applicable(changes) == changes # Nothing /\ DOMAIN changes \subseteq Names

\* Mutant: a request that does not apply stays pending.
TakenIfApplied == IF Applicable(Asked(pending)) THEN NoRequest ELSE pending

Taken == NoRequest

\* The previous values are those of the parameters that there are.
apply_pending_reconfigure ==
  /\ main = "apply"
  /\ IF pending = NoRequest \/ shutdown_requested \/ sys # "active"
     THEN main' = "loop" /\ UNCHANGED <<reconfigureVars, pending>>
     ELSE LET changes == Asked(pending) IN
          /\ pending' = Taken
          /\ IF Applicable(changes)
             THEN /\ main' = "restart"
                  /\ attempt' = "changes"
                  /\ change' = changes
                  /\ previous' = [p \in DOMAIN changes \cap Names |-> params[p]]
                  /\ restoring' = pending.restore
                  /\ all_set' = TRUE
                  /\ UNCHANGED <<params, original>>
             ELSE main' = "loop" /\ UNCHANGED reconfigureVars
  /\ UNCHANGED <<lifecycleVars, shutdown_requested, requests, rt, g_stop>>

restart_deactivate ==
  /\ main = "restart"
  /\ IF sys = "active" THEN Trigger("deactivating", "cleanup") ELSE Skip("cleanup")
  /\ UNCHANGED <<reconfigureVars, requestVars, rt, g_stop>>

restart_cleanup ==
  /\ main = "cleanup" /\ sys \in Primary
  /\ IF sys = "inactive" THEN Trigger("cleaning", "set") ELSE Skip("set")
  /\ UNCHANGED <<reconfigureVars, requestVars, rt, g_stop>>

\* restart_with() returned false: the previous values are tried, and then nothing.
restart_failed ==
  /\ UNCHANGED <<params, original, previous, restoring, pending, requests>>
  /\ \/ /\ attempt = "changes"
        /\ attempt' = "previous" /\ change' = previous /\ all_set' = TRUE
        /\ Skip("restart")
        /\ UNCHANGED shutdown_requested
     \/ /\ attempt = "previous"
        /\ attempt' = "lost" /\ UNCHANGED <<change, all_set>>
        /\ Skip("loop")
        /\ shutdown_requested' = TRUE

\* Every value is set that its node takes, and EasyNav configures with them.
restart_set ==
  /\ main = "set" /\ sys \in Primary
  /\ IF sys # "unconfigured" THEN restart_failed
     ELSE \E refused \in SUBSET {p \in DOMAIN change : change[p] \in Faulty["set"]} :
            /\ params' = Overridden([p \in DOMAIN change \ refused |-> change[p]], params)
            /\ all_set' = (refused = {})
            /\ sys' = "configuring" /\ at' = 1 /\ main' = "activate"
            /\ SetSubnodes(CleanedUp(sub))
            /\ UNCHANGED <<active, original, attempt, change, previous, restoring,
                           requestVars>>
  /\ UNCHANGED <<rt, g_stop>>

restart_activate ==
  /\ main = "activate" /\ sys \in Primary
  /\ IF sys = "inactive"
     THEN Trigger("activating", "restarted") /\ UNCHANGED <<reconfigureVars, requestVars>>
     ELSE restart_failed
  /\ UNCHANGED <<rt, g_stop>>

\* Mutant: the values of before the last change are kept.
OriginalsLatest == IF restoring THEN Nothing ELSE Overridden(previous, original)

\* The first value of each parameter is kept (std::map::emplace()).
Originals == IF restoring THEN Nothing ELSE Overridden(original, previous)

Restarted == sys = "active" /\ all_set

restart_done ==
  /\ main = "restarted" /\ sys \in Primary
  /\ IF Restarted
     THEN /\ original' = IF attempt = "changes" THEN Originals ELSE original
          /\ attempt' = "none" /\ change' = Nothing /\ previous' = Nothing
          /\ restoring' = FALSE /\ all_set' = TRUE
          /\ Skip("loop")
          /\ UNCHANGED <<params, requestVars>>
     ELSE restart_failed
  /\ UNCHANGED <<rt, g_stop>>

Main ==
  \/ transition
  \/ main_configure \/ main_activate \/ main_start_loops
  \/ main_loop \/ system_cycle \/ main_join \/ main_finalize \/ main_destroy
  \/ apply_pending_reconfigure \/ restart_deactivate \/ restart_cleanup \/ restart_set
  \/ restart_activate \/ restart_done

Rt == rt_loop \/ system_cycle_rt \/ cycle_rt

Next == Main \/ Rt \/ handle_shutdown_signal

Spec == Init /\ [][Next]_vars

\* Both threads run, and neither waits for the other for ever.
FairSpec == Spec /\ WF_vars(Main) /\ WF_vars(Rt)

-----------------------------------------------------------------------------
\* Neither thread runs a cycle over a node that is not active, whatever transition
\* fails half-way and whatever the other thread sees of it.
CyclesOverActive ==
  rt = "cycle" \/ (main = "cycle" /\ sys = "active")
    => active /\ \A n \in Nodes : sub[n] = "active"

\* An EasyNav that is unconfigured left no subnode half-configured, however it got
\* there.
UnconfiguredIsClean ==
  sys = "unconfigured" => \A n \in Nodes : sub[n] = "unconfigured"

\* The recovery node has a manager exactly while it is configured, and no hold on
\* the mission outlives a manager that was: whatever callback of it throws, and
\* whatever transition fails, unloads it or loads the next one.
HoldHasOwner ==
  /\ manager <=> sub[Recovery] \in {"inactive", "active"}
  /\ hold = "managed" => manager

\* The parameters EasyNav works with: those of before a change until it succeeds.
effective == Overridden(previous, params)

\* Whatever fails and whatever is requested meanwhile, requests apply as a whole or
\* not at all, and the originals are those of before the first change.
Abstract == INSTANCE Reconfiguration WITH values <- effective, originals <- original
ImplementsReconfiguration == Abstract!Spec

\* A requested shutdown ends the process, whatever fails on the way.
ShutdownEnds == shutdown_requested ~> main = "exit"

\* A request is taken (applied, rejected or superseded), unless EasyNav ends.
ReconfigureAnswered == pending # NoRequest ~> (pending = NoRequest \/ g_stop)

\* "Whoever drives this node's lifecycle should then deactivate it, which ends in
\* Finalized" (SystemNode.hpp).
ShutdownFinalizes ==
  main = "destroy" /\ sys \in Primary /\ shutdown_requested => sys = "finalized"

\* "If the new values do not apply, the previous ones are restored."
\* (SystemActions.hpp)
PreviousRestored == attempt # "lost"

=============================================================================
