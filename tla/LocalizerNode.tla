--------------------------- MODULE LocalizerNode ---------------------------
(***************************************************************************)
(* easynav_localizer's LocalizerNode and its plugin (LocalizerMethodBase): *)
(* the real-time (RT) loop and the other loop both run the plugin, which   *)
(* the main thread loads, releases and replaces.  A loop that runs a       *)
(* plugin keeps it alive, also after it is released.  The first of the two *)
(* hands the pose that the last localizer left in NavState over to the new *)
(* one, and the other loop waits for that.                                 *)
(*                                                                         *)
(* When a plugin runs is MethodBase's schedule, in PlannerNode: any cycle  *)
(* may be due, or triggered, here.                                         *)
(***************************************************************************)
EXTENDS Naturals, Sequences

CONSTANTS Localizers, NoLocalizer   \* the instances of plugins that are ever created

ASSUME LocalizerAssumption == NoLocalizer \notin Localizers

VARIABLES
  localizer_node,
  localizer,                  \* the plugin that PluginSwitcher holds
  created,                    \* those that were created so far
  last_pose,                  \* robot_pose in NavState: whose, and if it is valid
  last_known_pose_once,       \* for each plugin, how far call_once() is
  told,                       \* what was handed over to it: whose poses
  loops                       \* what each loop is doing, with which plugin

localizerNodeVars ==
  <<localizer_node, localizer, created, last_pose, last_known_pose_once, told, loops>>

Loops == {"rt", "main"}
Resting == [step |-> "none", plugin |-> NoLocalizer]

LocalizerTypeOK ==
  /\ localizer_node \in {"unconfigured", "inactive", "active"}
  /\ localizer \in created \cup {NoLocalizer}
  /\ created \subseteq Localizers
  /\ last_pose \in [by : created \cup {NoLocalizer}, valid : BOOLEAN]
  /\ last_known_pose_once \in [Localizers -> {"no", "running", "done"}]
  /\ told \in [Localizers -> Seq(Localizers)]
  /\ loops \in [Loops -> [step : {"none", "checking", "telling", "updating"},
                          plugin : created \cup {NoLocalizer}]]

LocalizerNodeInit ==
  /\ localizer_node = "unconfigured" /\ localizer = NoLocalizer /\ created = {}
  /\ last_pose = [by |-> NoLocalizer, valid |-> FALSE]
  /\ last_known_pose_once = [p \in Localizers |-> "no"]
  /\ told = [p \in Localizers |-> << >>]
  /\ loops = [l \in Loops |-> Resting]

-----------------------------------------------------------------------------
(* The lifecycle.  The main thread runs it between two of its cycles; the   *)
(* RT loop may be anywhere.                                                 *)

MainRests == loops["main"].step = "none"

\* With no plugin listed there is none; one that does not load leaves all as it
\* was.
configure_localizer ==
  /\ localizer_node = "unconfigured" /\ MainRests
  /\ localizer_node' = "inactive"
  /\ \/ localizer' = NoLocalizer /\ UNCHANGED created
     \/ \E p \in Localizers \ created : localizer' = p /\ created' = created \cup {p}
  /\ UNCHANGED <<last_pose, last_known_pose_once, told, loops>>

switch_localizer ==
  /\ MainRests
  /\ \/ localizer_node = "inactive" /\ localizer_node' = "active"
     \/ localizer_node = "active" /\ localizer_node' = "inactive"
  /\ UNCHANGED <<localizer, created, last_pose, last_known_pose_once, told, loops>>

\* on_cleanup(), on_shutdown(), on_error().
release_localizer ==
  /\ localizer_node = "inactive" /\ MainRests
  /\ localizer_node' = "unconfigured" /\ localizer' = NoLocalizer
  /\ UNCHANGED <<created, last_pose, last_known_pose_once, told, loops>>

-----------------------------------------------------------------------------
(* cycle_rt() and cycle().                                                 *)

Go(l, step) == loops' = [loops EXCEPT ![l].step = step]

\* Whatever the state of the node, and if there is a plugin.
start_cycle(l) ==
  /\ loops[l].step = "none"
  /\ localizer # NoLocalizer
  /\ loops' = [loops EXCEPT ![l] = [step |-> "checking", plugin |-> localizer]]
  /\ UNCHANGED <<localizer_node, localizer, created, last_pose, last_known_pose_once, told>>

\* The first of the loops looks at robot_pose.
check_last_known_pose(l) ==
  /\ loops[l].step = "checking"
  /\ LET p == loops[l].plugin IN
     /\ last_known_pose_once[p] = "no"
     /\ last_known_pose_once' = [last_known_pose_once EXCEPT ![p] = "running"]
     /\ told' = IF last_pose.valid THEN [told EXCEPT ![p] = Append(@, last_pose.by)] ELSE told
  /\ Go(l, "telling")
  /\ UNCHANGED <<localizer_node, localizer, created, last_pose>>

\* Whatever the hook throws is caught.
end_of_hook(l) ==
  /\ loops[l].step = "telling"
  /\ last_known_pose_once' = [last_known_pose_once EXCEPT ![loops[l].plugin] = "done"]
  /\ Go(l, "updating")
  /\ UNCHANGED <<localizer_node, localizer, created, last_pose, told>>

\* The other loop waits until the hook has finished.
told_already(l) ==
  /\ loops[l].step = "checking"
  /\ last_known_pose_once[loops[l].plugin] = "done"
  /\ Go(l, "updating")
  /\ UNCHANGED <<localizer_node, localizer, created, last_pose, last_known_pose_once, told>>

\* The plugin writes a pose, of this world or not, or none; what it throws is
\* caught.
update_localizer(l) ==
  /\ loops[l].step = "updating"
  /\ last_pose' \in {last_pose} \cup [by : {loops[l].plugin}, valid : BOOLEAN]
  /\ loops' = [loops EXCEPT ![l] = Resting]
  /\ UNCHANGED <<localizer_node, localizer, created, last_known_pose_once, told>>

LocalizerNodeNext ==
  \/ configure_localizer \/ switch_localizer \/ release_localizer
  \/ \E l \in Loops : \/ start_cycle(l) \/ check_last_known_pose(l) \/ end_of_hook(l)
                      \/ told_already(l) \/ update_localizer(l)

LocalizerNodeSpec == LocalizerNodeInit /\ [][LocalizerNodeNext]_localizerNodeVars

-----------------------------------------------------------------------------
(* Whichever loop comes first, and however the plugins are replaced while  *)
(* the loops run: a localizer gets a pose once at most, which another one  *)
(* left, and before any of its updates (check_last_known_pose(); the       *)
(* contract between localizers in LocalizerMethodBase.hpp).                *)
LastPoseFirst ==
  /\ \A p \in Localizers : Len(told[p]) <= 1 /\ \A k \in DOMAIN told[p] : told[p][k] # p
  /\ \A l \in Loops :
       loops[l].step = "updating" => last_known_pose_once[loops[l].plugin] = "done"
=============================================================================
