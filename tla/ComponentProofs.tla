--------------------------- MODULE ComponentProofs --------------------------
(***************************************************************************)
(* For any parameters, plugins, threads, keys and groups: what is frozen   *)
(* and saved of the configuration, what a localizer is told of the last    *)
(* pose, and that the groups of the blackboard agree with their lists; and *)
(* the types of all the components that stand side by side.                *)
(***************************************************************************)
EXTENDS MCComponents, SupervisorProofs, PlannerProofs, PerceptionProofs, TLAPS

-----------------------------------------------------------------------------
(* The configuration that is frozen and saved.                             *)

\* What is on its way to be fingerprinted, saved and frozen is what the nodes
\* have.
Fingerprinted ==
  configured \in {"save", "write", "rename", "freeze"} =>
    params = configuration_hash /\ params \in Checked

\* No parameter is frozen that no node has, and those that are declared are
\* frozen as they are once safety mode is on.
FrozenIsDeclared == \A n \in Names : frozen[n] # Undeclared => params[n] # Undeclared
FrozenAsDeclared ==
  safety_mode /\ configured \in {"inactive", "active"} =>
    /\ installed /\ ~accept_new
    /\ \A n \in Names : params[n] # Undeclared => frozen[n] = params[n]

FreezeInv ==
  /\ FreezeTypeOK
  /\ Fingerprinted /\ FrozenIsDeclared /\ FrozenAsDeclared /\ FrozenConfiguration

LEMMA FreezeInvInit == FreezeInit => FreezeInv
BY FreezeAssumption
   DEF FreezeInit, FreezeInv, FreezeTypeOK, Fingerprinted, FrozenIsDeclared, FrozenAsDeclared,
       FrozenConfiguration, Declared, Nowhere, Configurations

LEMMA FreezeTypes == FreezeTypeOK /\ [FreezeNext]_freezeVars => FreezeTypeOK'
<1> SUFFICES ASSUME FreezeTypeOK, [FreezeNext]_freezeVars PROVE FreezeTypeOK'
  OBVIOUS
<1> USE DEF freezerVars
<1>1. ASSUME NEW n \in Names, NEW v \in Values,
             set_parameter(n, v) \/ declare_parameter(n, v)
      PROVE  FreezeTypeOK'
  BY <1>1 DEF FreezeTypeOK, set_parameter, declare_parameter, Configurations
<1>2. ASSUME check_system \/ configure_failed \/ on_configured PROVE FreezeTypeOK'
  BY <1>2 DEF FreezeTypeOK, check_system, configure_failed, on_configured
<1>3. ASSUME save_dump \/ written \/ renamed PROVE FreezeTypeOK'
  <2>1. \A final \in BOOLEAN, content \in FileContents :
          File(configuration_hash, final, content)
            \in [dump : Configurations, final : BOOLEAN, content : FileContents]
    BY DEF File, FreezeTypeOK
  <2>2. ASSUME NEW f \in files
        PROVE  Final(f.content) \in [dump : Configurations, final : BOOLEAN, content : FileContents]
    BY <2>1 DEF FreezeTypeOK, Final
  <2>3. ASSUME save_dump \/ written PROVE FreezeTypeOK'
    BY <2>1, <2>3 DEF FreezeTypeOK, save_dump, written, Aside, FileContents
  <2>4. ASSUME renamed PROVE FreezeTypeOK'
    <3>1. files' \subseteq files \cup {Final(f.content) : f \in files}
      BY <2>4 DEF renamed
    <3>2. files' \subseteq [dump : Configurations, final : BOOLEAN, content : FileContents]
      BY <2>2, <3>1 DEF FreezeTypeOK
    <3> QED BY <2>4, <3>2 DEF FreezeTypeOK, renamed
  <2> QED BY <1>3, <2>3, <2>4
<1>4. ASSUME freeze PROVE FreezeTypeOK'
  <2>1. frozen' \in Configurations
    BY <1>4 DEF FreezeTypeOK, freeze, Configurations
  <2> QED BY <1>4, <2>1 DEF FreezeTypeOK, freeze
<1>5. ASSUME transition PROVE FreezeTypeOK'
  BY <1>5 DEF FreezeTypeOK, transition
<1>6. ASSUME crash PROVE FreezeTypeOK'
  BY <1>6 DEF FreezeTypeOK, crash, Declared, Nowhere, Configurations
<1>7. ASSUME UNCHANGED freezeVars PROVE FreezeTypeOK'
  BY <1>7 DEF FreezeTypeOK, freezeVars
<1> QED BY <1>1, <1>2, <1>3, <1>4, <1>5, <1>6, <1>7 DEF FreezeNext

\* Nobody changes what is frozen: neither who sets a parameter nor who
\* declares one.
LEMMA FrozenUnlessChanged ==
  ASSUME FreezeInv, NEW n \in Names, NEW v \in Values,
         set_parameter(n, v) \/ declare_parameter(n, v)
  PROVE  (Fingerprinted /\ FrozenIsDeclared /\ FrozenAsDeclared /\ FrozenConfiguration)'
<1> USE FreezeAssumption DEF freezerVars
<1>1. FreezeTypeOK /\ accepts(n, v) /\ params' = [params EXCEPT ![n] = v] /\ v # Undeclared
  BY DEF set_parameter, declare_parameter, FreezeInv
<1>2. /\ params'[n] = v
      /\ \A m \in Names \ {n} : params'[m] = params[m]
  BY <1>1 DEF FreezeTypeOK, Configurations
<1>3. /\ configured \in {"no", "configuring", "inactive", "active"}
      /\ UNCHANGED <<configured, safety_mode, configuration_hash, frozen, installed, accept_new>>
  BY DEF set_parameter, declare_parameter
<1>4. Fingerprinted'
  BY <1>3 DEF Fingerprinted
<1>5. FrozenIsDeclared'
  BY <1>1, <1>2, <1>3 DEF FrozenIsDeclared, FreezeInv
<1>6. ASSUME safety_mode, configured \in {"inactive", "active"}
      PROVE  params' = params
  <2>1. installed /\ ~accept_new
    BY <1>6 DEF FreezeInv, FrozenAsDeclared
  <2>2. frozen[n] # Undeclared /\ v = frozen[n]
    BY <1>1, <2>1 DEF accepts
  <2>3. params[n] = v
    BY <1>6, <2>2 DEF FreezeInv, FrozenIsDeclared, FrozenAsDeclared
  <2> QED BY <1>1, <2>3 DEF FreezeTypeOK, Configurations
<1>7. (FrozenAsDeclared /\ FrozenConfiguration)'
  BY <1>3, <1>6 DEF FreezeInv, FrozenAsDeclared, FrozenConfiguration
<1> QED BY <1>4, <1>5, <1>7

LEMMA FreezeInvNext == FreezeInv /\ [FreezeNext]_freezeVars => FreezeInv'
<1> SUFFICES ASSUME FreezeInv, [FreezeNext]_freezeVars PROVE FreezeInv'
  OBVIOUS
<1>1. FreezeTypeOK'
  BY FreezeTypes DEF FreezeInv
<1>2. SUFFICES (Fingerprinted /\ FrozenIsDeclared /\ FrozenAsDeclared /\ FrozenConfiguration)'
  BY <1>1 DEF FreezeInv
<1> USE DEF freezerVars
<1>3. ASSUME NEW n \in Names, NEW v \in Values,
             set_parameter(n, v) \/ declare_parameter(n, v)
      PROVE  (Fingerprinted /\ FrozenIsDeclared /\ FrozenAsDeclared /\ FrozenConfiguration)'
  BY <1>3, FrozenUnlessChanged
<1>4. ASSUME check_system \/ configure_failed \/ on_configured
      PROVE  (Fingerprinted /\ FrozenIsDeclared /\ FrozenAsDeclared /\ FrozenConfiguration)'
  BY <1>4 DEF check_system, configure_failed, on_configured, FreezeInv, Fingerprinted,
     FrozenIsDeclared, FrozenAsDeclared, FrozenConfiguration
<1>5. ASSUME save_dump \/ written \/ renamed
      PROVE  (Fingerprinted /\ FrozenIsDeclared /\ FrozenAsDeclared /\ FrozenConfiguration)'
  BY <1>5 DEF save_dump, written, renamed, FreezeInv, Fingerprinted,
     FrozenIsDeclared, FrozenAsDeclared, FrozenConfiguration
<1>6. ASSUME freeze
      PROVE  (Fingerprinted /\ FrozenIsDeclared /\ FrozenAsDeclared /\ FrozenConfiguration)'
  <2>1. params' = params /\ params = configuration_hash' /\ params \in Checked
    BY <1>6 DEF freeze, FreezeInv, Fingerprinted
  <2>2. (Fingerprinted /\ FrozenConfiguration)'
    BY <1>6, <2>1 DEF freeze, Fingerprinted, FrozenConfiguration
  <2>3. FrozenIsDeclared'
    BY <1>6 DEF freeze, FreezeInv, FrozenIsDeclared
  <2>4. FrozenAsDeclared'
    BY <1>6 DEF freeze, FreezeInv, FrozenAsDeclared
  <2> QED BY <2>2, <2>3, <2>4
<1>7. ASSUME transition
      PROVE  (Fingerprinted /\ FrozenIsDeclared /\ FrozenAsDeclared /\ FrozenConfiguration)'
  BY <1>7 DEF transition, FreezeInv, Fingerprinted,
     FrozenIsDeclared, FrozenAsDeclared, FrozenConfiguration
<1>8. ASSUME crash
      PROVE  (Fingerprinted /\ FrozenIsDeclared /\ FrozenAsDeclared /\ FrozenConfiguration)'
  BY <1>8 DEF crash, Nowhere, Fingerprinted, FrozenIsDeclared, FrozenAsDeclared,
     FrozenConfiguration
<1>9. ASSUME UNCHANGED freezeVars
      PROVE  (Fingerprinted /\ FrozenIsDeclared /\ FrozenAsDeclared /\ FrozenConfiguration)'
  BY <1>9 DEF freezeVars, FreezeInv, Fingerprinted,
     FrozenIsDeclared, FrozenAsDeclared, FrozenConfiguration
<1> QED BY <1>3, <1>4, <1>5, <1>6, <1>7, <1>8, <1>9 DEF FreezeNext

\* Whatever the parameters and whoever sets or declares them, over any number
\* of configurations and crashes: in safety mode the nodes run with the values
\* that were fingerprinted and checked (ParameterFreezer::freeze(),
\* SafetySupervisor::on_configured()).
THEOREM ConfigurationFrozen == FreezeSpec => []FrozenConfiguration
<1>1. FreezeInv => FrozenConfiguration
  BY DEF FreezeInv
<1> QED BY <1>1, FreezeInvInit, FreezeInvNext, PTL DEF FreezeSpec

\* What is about to be renamed is closed.
ClosedBeforeRename == configured = "rename" => Aside("open") \notin files
SavedInv == RenamedOnceClosed /\ ClosedBeforeRename

LEMMA SavedInvNext == SavedInv /\ [FreezeNext]_freezeVars => SavedInv'
<1> SUFFICES ASSUME SavedInv, [FreezeNext]_freezeVars PROVE SavedInv'
  OBVIOUS
<1>1. ASSUME save_dump PROVE SavedInv'
  <2>1. configured' # "rename" /\ files' \subseteq files \cup {Aside("open")}
    BY <1>1 DEF save_dump
  <2>2. Aside("open").final = FALSE
    BY DEF Aside, File
  <2> QED BY <2>1, <2>2 DEF SavedInv, RenamedOnceClosed, ClosedBeforeRename
<1>2. ASSUME written PROVE SavedInv'
  BY <1>2 DEF written, SavedInv, RenamedOnceClosed, ClosedBeforeRename, Asides, FileContents,
     Aside, File
<1>3. ASSUME renamed PROVE SavedInv'
  <2>1. configured = "rename" /\ configured' = "freeze"
    BY <1>3 DEF renamed
  <2>2. ASSUME NEW f \in files \cap Asides PROVE f.content # "open"
    <3>1. PICK content \in FileContents : f = Aside(content)
      BY DEF Asides
    <3>2. f.content = content
      BY <3>1 DEF Aside, File
    <3>3. Aside("open") \notin files
      BY <2>1 DEF SavedInv, ClosedBeforeRename
    <3> QED BY <3>1, <3>2, <3>3
  <2>3. \A content : Final(content).content = content
    BY DEF Final, File
  <2>4. files' \subseteq files \cup {Final(f.content) : f \in files \cap Asides}
    BY <1>3 DEF renamed
  <2> QED BY <2>1, <2>2, <2>3, <2>4 DEF SavedInv, RenamedOnceClosed, ClosedBeforeRename
<1>4. ASSUME check_system \/ configure_failed \/ on_configured \/ freeze \/ transition \/ crash
      PROVE  SavedInv'
  BY <1>4 DEF check_system, configure_failed, on_configured, freeze, transition, crash,
     SavedInv, RenamedOnceClosed, ClosedBeforeRename, Aside, File
<1>5. ASSUME NEW n \in Names, NEW v \in Values,
             set_parameter(n, v) \/ declare_parameter(n, v)
      PROVE  SavedInv'
  BY <1>5 DEF set_parameter, declare_parameter, SavedInv, RenamedOnceClosed,
     ClosedBeforeRename, Aside, File
<1>6. ASSUME UNCHANGED freezeVars PROVE SavedInv'
  BY <1>6 DEF freezeVars, SavedInv, RenamedOnceClosed, ClosedBeforeRename, Aside, File
<1> QED BY <1>1, <1>2, <1>3, <1>4, <1>5, <1>6 DEF FreezeNext

\* A file under its final name is one that its stream took and that was closed,
\* wherever a process died and however the disk failed
\* (ConfigurationFingerprint::save_dump()); that its last bytes got to the disk
\* is not asked, and not claimed.
THEOREM DumpIsClosed == FreezeSpec => []RenamedOnceClosed
<1>1. FreezeInit => SavedInv
  BY DEF FreezeInit, SavedInv, RenamedOnceClosed, ClosedBeforeRename
<1>2. SavedInv => RenamedOnceClosed
  BY DEF SavedInv
<1> QED BY <1>1, <1>2, SavedInvNext, PTL DEF FreezeSpec

-----------------------------------------------------------------------------
(* The hand-over of the last pose between localizers.                      *)

\* A loop that is at work has a plugin, which was told the last pose before it
\* updates.  One that was not asked yet knows of none, and has left none.
HandOver ==
  /\ \A l \in Loops : loops[l].step # "none" => loops[l].plugin # NoLocalizer
  /\ \A p \in Localizers : last_known_pose_once[p] = "no" => told[p] = << >>
  /\ last_pose.valid => last_pose.by # NoLocalizer
  /\ last_pose.by # NoLocalizer => last_known_pose_once[last_pose.by] = "done"

LocalizerInv == LocalizerTypeOK /\ HandOver /\ LastPoseFirst

LEMMA LocalizerInvInit == LocalizerNodeInit => LocalizerInv
BY LocalizerAssumption
   DEF LocalizerNodeInit, LocalizerInv, LocalizerTypeOK, HandOver, LastPoseFirst, Loops, Resting

\* The plugins are loaded and released under loops that keep the one they run.
LEMMA LifecycleKeeps ==
  ASSUME LocalizerInv, configure_localizer \/ switch_localizer \/ release_localizer
  PROVE  LocalizerInv'
<1>1. /\ UNCHANGED <<last_pose, last_known_pose_once, told, loops>>
      /\ created \subseteq created' /\ created' \subseteq Localizers
      /\ localizer' \in created' \cup {NoLocalizer}
  BY DEF LocalizerInv, LocalizerTypeOK, configure_localizer, switch_localizer, release_localizer
<1>2. localizer_node' \in {"unconfigured", "inactive", "active"}
  BY DEF configure_localizer, switch_localizer, release_localizer
<1>3. last_pose' \in [by : created' \cup {NoLocalizer}, valid : BOOLEAN]
  BY <1>1 DEF LocalizerInv, LocalizerTypeOK
<1>4. loops' \in [Loops -> [step : {"none", "checking", "telling", "updating"},
                            plugin : created' \cup {NoLocalizer}]]
  <2>1. ASSUME NEW l \in Loops
        PROVE  loops[l] \in [step : {"none", "checking", "telling", "updating"},
                             plugin : created' \cup {NoLocalizer}]
    <3>1. loops[l] \in [step : {"none", "checking", "telling", "updating"},
                        plugin : created \cup {NoLocalizer}]
      BY DEF LocalizerInv, LocalizerTypeOK
    <3> QED BY <1>1, <3>1
  <2> QED BY <1>1, <2>1 DEF LocalizerInv, LocalizerTypeOK
<1>5. LocalizerTypeOK'
  BY <1>1, <1>2, <1>3, <1>4 DEF LocalizerInv, LocalizerTypeOK
<1>6. (HandOver /\ LastPoseFirst)'
  BY <1>1 DEF LocalizerInv, HandOver, LastPoseFirst
<1> QED BY <1>5, <1>6 DEF LocalizerInv

\* What a step of a loop does to its own record.
LEMMA LoopGoes ==
  ASSUME LocalizerInv, NEW l \in Loops, NEW step \in {"telling", "updating"}, Go(l, step)
  PROVE  /\ loops' \in [Loops -> [step : {"none", "checking", "telling", "updating"},
                                  plugin : created \cup {NoLocalizer}]]
         /\ loops'[l].step = step
         /\ \A m \in Loops : loops'[m].plugin = loops[m].plugin
         /\ \A m \in Loops \ {l} : loops'[m] = loops[m]
BY DEF LocalizerInv, LocalizerTypeOK, Go

\* A loop that begins, and one whose plugin was told already.
LEMMA CheckKeeps ==
  ASSUME LocalizerInv, NEW l \in Loops, start_cycle(l) \/ told_already(l)
  PROVE  LocalizerInv'
<1>1. ASSUME start_cycle(l) PROVE LocalizerInv'
  <2>1. /\ loops'[l] = [step |-> "checking", plugin |-> localizer]
        /\ \A m \in Loops \ {l} : loops'[m] = loops[m]
        /\ localizer # NoLocalizer
        /\ UNCHANGED <<localizer_node, localizer, created, last_pose, last_known_pose_once, told>>
    BY <1>1 DEF start_cycle, LocalizerInv, LocalizerTypeOK
  <2>2. LocalizerTypeOK'
    BY <1>1, <2>1 DEF start_cycle, LocalizerInv, LocalizerTypeOK
  <2> QED BY <2>1, <2>2 DEF LocalizerInv, HandOver, LastPoseFirst
<1>2. ASSUME told_already(l) PROVE LocalizerInv'
  <2>1. /\ Go(l, "updating") /\ loops[l].step = "checking"
        /\ last_known_pose_once[loops[l].plugin] = "done"
        /\ UNCHANGED <<localizer_node, localizer, created, last_pose, last_known_pose_once, told>>
    BY <1>2 DEF told_already
  <2>2. LocalizerTypeOK'
    BY <2>1, LoopGoes DEF LocalizerInv, LocalizerTypeOK
  <2> QED BY <2>1, <2>2, LoopGoes DEF LocalizerInv, HandOver, LastPoseFirst
<1> QED BY <1>1, <1>2

\* The first of the loops: the plugin was told nothing, and the pose is not its
\* own.
LEMMA FirstCheckKeeps ==
  ASSUME LocalizerInv, NEW l \in Loops, check_last_known_pose(l)
  PROVE  LocalizerInv'
<1> DEFINE p == loops[l].plugin
<1>1. /\ loops[l].step = "checking"
      /\ last_known_pose_once[p] = "no"
      /\ last_known_pose_once' = [last_known_pose_once EXCEPT ![p] = "running"]
      /\ told' = IF last_pose.valid THEN [told EXCEPT ![p] = Append(@, last_pose.by)] ELSE told
      /\ Go(l, "telling")
      /\ UNCHANGED <<localizer_node, localizer, created, last_pose>>
  BY DEF check_last_known_pose
<1>2. p \in created /\ p \in Localizers
  BY <1>1, LocalizerAssumption DEF LocalizerInv, LocalizerTypeOK, HandOver
<1>3. told[p] = << >> /\ last_pose.by # p
  BY <1>1, <1>2, LocalizerAssumption DEF LocalizerInv, HandOver
<1>4. last_pose.valid => last_pose.by \in Localizers
  BY DEF LocalizerInv, LocalizerTypeOK, HandOver
<1>5. /\ told' \in [Localizers -> Seq(Localizers)]
      /\ \A q \in Localizers \ {p} : told'[q] = told[q]
      /\ told'[p] = IF last_pose.valid THEN << last_pose.by >> ELSE << >>
  BY <1>1, <1>2, <1>3, <1>4 DEF LocalizerInv, LocalizerTypeOK
<1>6. /\ last_known_pose_once' \in [Localizers -> {"no", "running", "done"}]
      /\ last_known_pose_once'[p] = "running"
      /\ \A q \in Localizers \ {p} : last_known_pose_once'[q] = last_known_pose_once[q]
  BY <1>1, <1>2 DEF LocalizerInv, LocalizerTypeOK
<1>7. LocalizerTypeOK'
  BY <1>1, <1>5, <1>6, LoopGoes DEF LocalizerInv, LocalizerTypeOK
<1>8. HandOver'
  <2>1. \A m \in Loops : loops'[m].step # "none" => loops'[m].plugin # NoLocalizer
    BY <1>1, LoopGoes DEF LocalizerInv, HandOver
  <2>2. last_pose.by # NoLocalizer => last_pose.by \in Localizers \ {p}
    BY <1>3 DEF LocalizerInv, LocalizerTypeOK
  <2> QED BY <1>1, <1>5, <1>6, <2>1, <2>2 DEF LocalizerInv, HandOver
<1>9. LastPoseFirst'
  <2>1. \A q \in Localizers :
          Len(told'[q]) <= 1 /\ \A k \in DOMAIN told'[q] : told'[q][k] # q
    <3>1. Len(told'[p]) <= 1 /\ \A k \in DOMAIN told'[p] : told'[p][k] # p
      BY <1>3, <1>4, <1>5
    <3> QED BY <1>5, <3>1 DEF LocalizerInv, LastPoseFirst
  <2>2. ASSUME NEW m \in Loops, loops'[m].step = "updating"
        PROVE  last_known_pose_once'[loops'[m].plugin] = "done"
    <3>1. m # l /\ loops'[m] = loops[m] /\ loops[m].step = "updating"
      BY <1>1, <2>2, LoopGoes
    <3>2. last_known_pose_once[loops[m].plugin] = "done" /\ loops[m].plugin \in Localizers
      BY <3>1 DEF LocalizerInv, LocalizerTypeOK, HandOver, LastPoseFirst
    <3> QED BY <1>1, <1>6, <3>1, <3>2
  <2> QED BY <2>1, <2>2 DEF LastPoseFirst
<1> QED BY <1>7, <1>8, <1>9 DEF LocalizerInv

LEMMA EndOfHookKeeps ==
  ASSUME LocalizerInv, NEW l \in Loops, end_of_hook(l)
  PROVE  LocalizerInv'
<1> DEFINE p == loops[l].plugin
<1>1. /\ loops[l].step = "telling"
      /\ last_known_pose_once' = [last_known_pose_once EXCEPT ![p] = "done"]
      /\ Go(l, "updating")
      /\ UNCHANGED <<localizer_node, localizer, created, last_pose, told>>
  BY DEF end_of_hook
<1>2. p \in Localizers
  BY <1>1 DEF LocalizerInv, LocalizerTypeOK, HandOver
<1>3. /\ last_known_pose_once' \in [Localizers -> {"no", "running", "done"}]
      /\ last_known_pose_once'[p] = "done"
      /\ \A q \in Localizers \ {p} : last_known_pose_once'[q] = last_known_pose_once[q]
  BY <1>1, <1>2 DEF LocalizerInv, LocalizerTypeOK
<1>4. LocalizerTypeOK'
  BY <1>1, <1>3, LoopGoes DEF LocalizerInv, LocalizerTypeOK
<1>5. HandOver'
  <2>1. \A m \in Loops : loops'[m].step # "none" => loops'[m].plugin # NoLocalizer
    BY <1>1, LoopGoes DEF LocalizerInv, HandOver
  <2>2. last_pose.by # NoLocalizer => last_pose.by \in Localizers
    BY DEF LocalizerInv, LocalizerTypeOK
  <2> QED BY <1>1, <1>3, <2>1, <2>2 DEF LocalizerInv, HandOver
<1>6. LastPoseFirst'
  <2>1. ASSUME NEW m \in Loops, loops'[m].step = "updating"
        PROVE  last_known_pose_once'[loops'[m].plugin] = "done"
    <3>1. loops'[m].plugin = loops[m].plugin
      BY <1>1, LoopGoes
    <3>2. CASE m = l
      BY <1>3, <3>1, <3>2
    <3>3. CASE m # l
      <4>1. loops[m].step = "updating" /\ loops[m].plugin \in Localizers
        BY <1>1, <2>1, <3>3, LoopGoes DEF LocalizerInv, LocalizerTypeOK, HandOver
      <4> QED BY <1>3, <3>1, <4>1 DEF LocalizerInv, LastPoseFirst
    <3> QED BY <3>2, <3>3
  <2> QED BY <1>1, <2>1 DEF LocalizerInv, LastPoseFirst
<1> QED BY <1>4, <1>5, <1>6 DEF LocalizerInv

LEMMA UpdateKeeps ==
  ASSUME LocalizerInv, NEW l \in Loops, update_localizer(l)
  PROVE  LocalizerInv'
<1> DEFINE p == loops[l].plugin
<1>1. /\ loops[l].step = "updating"
      /\ last_pose' \in {last_pose} \cup [by : {p}, valid : BOOLEAN]
      /\ loops' = [loops EXCEPT ![l] = Resting]
      /\ UNCHANGED <<localizer_node, localizer, created, last_known_pose_once, told>>
  BY DEF update_localizer
<1>2. p \in created /\ p \in Localizers /\ last_known_pose_once[p] = "done" /\ p # NoLocalizer
  BY <1>1 DEF LocalizerInv, LocalizerTypeOK, HandOver, LastPoseFirst
<1>3. /\ loops' \in [Loops -> [step : {"none", "checking", "telling", "updating"},
                              plugin : created \cup {NoLocalizer}]]
      /\ loops'[l].step = "none"
      /\ \A m \in Loops \ {l} : loops'[m] = loops[m]
  BY <1>1 DEF LocalizerInv, LocalizerTypeOK, Resting
<1>4. last_pose' = last_pose \/ (last_pose'.by = p /\ last_pose'.valid \in BOOLEAN)
  BY <1>1
<1>5. LocalizerTypeOK'
  BY <1>1, <1>2, <1>3 DEF LocalizerInv, LocalizerTypeOK
<1>6. HandOver'
  BY <1>1, <1>2, <1>3, <1>4 DEF LocalizerInv, HandOver
<1>7. LastPoseFirst'
  BY <1>1, <1>3 DEF LocalizerInv, LastPoseFirst
<1> QED BY <1>5, <1>6, <1>7 DEF LocalizerInv

LEMMA LocalizerInvNext == LocalizerInv /\ [LocalizerNodeNext]_localizerNodeVars => LocalizerInv'
<1> SUFFICES ASSUME LocalizerInv, [LocalizerNodeNext]_localizerNodeVars PROVE LocalizerInv'
  OBVIOUS
<1>1. ASSUME configure_localizer \/ switch_localizer \/ release_localizer PROVE LocalizerInv'
  BY <1>1, LifecycleKeeps
<1>2. ASSUME NEW l \in Loops,
             \/ start_cycle(l) \/ check_last_known_pose(l) \/ end_of_hook(l)
             \/ told_already(l) \/ update_localizer(l)
      PROVE  LocalizerInv'
  BY <1>2, CheckKeeps, FirstCheckKeeps, EndOfHookKeeps, UpdateKeeps
<1>3. ASSUME UNCHANGED localizerNodeVars PROVE LocalizerInv'
  BY <1>3 DEF localizerNodeVars, LocalizerInv, LocalizerTypeOK, HandOver, LastPoseFirst
<1> QED BY <1>1, <1>2, <1>3 DEF LocalizerNodeNext

\* However many localizers replace each other while the two loops run them:
\* each is told the last pose once at most, another's, and before its first
\* update (LocalizerMethodBase::check_last_known_pose()).
THEOREM PoseHandedOver == LocalizerNodeSpec => [](LocalizerTypeOK /\ LastPoseFirst)
<1>1. LocalizerInv => LocalizerTypeOK /\ LastPoseFirst
  BY DEF LocalizerInv
<1> QED BY <1>1, LocalizerInvInit, LocalizerInvNext, PTL DEF LocalizerNodeSpec

-----------------------------------------------------------------------------
(* The groups of the blackboard.                                           *)

Listed == {Missing} \cup {Value(type) : type \in ValueTypes \ {"list"}} \cup {List(keys) : keys \in SUBSET Keys}
Calls == [op : {"none", "store", "get_group", "answered", "get_no_group"}, group : SUBSET Groups,
          wanted : SUBSET Keys, out : SUBSET Keys, began : SUBSET Keys]

\* Who changes a group, or reads one, holds the lock and goes by its members.
HoldsLock ==
  \A t \in Threads : calls[t].op \in {"store", "get_group"} =>
    /\ group_mutex_ = t
    /\ \E g \in Groups : calls[t].group = {g}
    /\ calls[t].op = "store" => \A g \in calls[t].group : calls[t].wanted = groups_[g]
    /\ calls[t].op = "get_group" =>
         /\ \A g \in calls[t].group : calls[t].wanted \cup calls[t].out \subseteq groups_[g]
         /\ calls[t].began \subseteq calls[t].wanted \cup calls[t].out
         /\ \A k \in calls[t].began : has_type(k, "value")

\* The list of a group is that of its members, but while someone stores it.
ListAgrees(g) == values_[g].type \in {"list", "missing"} => values_[g].list = groups_[g]
StoredElseAgrees ==
  \A g \in Groups :
    ListAgrees(g) \/ \E t \in Threads : calls[t].op = "store" /\ calls[t].group = {g}

NavInv == NavStateTypeOK /\ HoldsLock /\ StoredElseAgrees

LEMMA NavInvGives == NavInv => GroupsAgree
<1> SUFFICES ASSUME NavInv PROVE GroupsAgree
  OBVIOUS
<1>1. ASSUME group_mutex_ = NoThread, NEW g \in Groups PROVE ListAgrees(g)
  BY <1>1, NavStateAssumption DEF NavInv, HoldsLock, StoredElseAgrees
<1>2. ASSUME NEW t \in Threads, calls[t].op = "get_group", NEW g \in calls[t].group
      PROVE  calls[t].out \subseteq groups_[g] /\ calls[t].began \subseteq calls[t].out \cup calls[t].wanted
  BY <1>2 DEF NavInv, HoldsLock
<1> QED BY <1>1, <1>2 DEF GroupsAgree, ListAgrees

LEMMA NavInvInit == NavStateInit => NavInv
<1> SUFFICES ASSUME NavStateInit PROVE NavInv
  OBVIOUS
<1>1. Missing \in Listed /\ Missing.list = {}
  BY DEF Listed, Missing
<1>2. Idle \in Calls /\ Idle.op = "none"
  BY DEF Idle, Calls
<1>3. NavStateTypeOK
  BY <1>1, <1>2 DEF NavStateInit, NavStateTypeOK, Listed, Calls
<1>4. HoldsLock
  BY <1>2 DEF NavStateInit, HoldsLock
<1>5. StoredElseAgrees
  BY <1>1 DEF NavStateInit, StoredElseAgrees, ListAgrees
<1> QED BY <1>3, <1>4, <1>5 DEF NavInv

\* set() keeps the type of what has one, and stores or changes nothing.
LEMMA SetKeeps ==
  ASSUME NavStateTypeOK, NEW key \in Keys \cup Groups, NEW value \in Listed \ {Missing},
         set(key, value)
  PROVE  /\ values_' \in [Keys \cup Groups -> Listed]
         /\ \A k \in (Keys \cup Groups) \ {key} : values_'[k] = values_[k]
         /\ \/ values_[key].type \in {"missing", value.type} /\ values_'[key] = value
            \/ values_[key].type \notin {"missing", value.type} /\ values_'[key] = values_[key]
<1>1. values_ \in [Keys \cup Groups -> Listed]
  BY DEF NavStateTypeOK, Listed
<1>2. CASE values_[key].type \in {"missing", value.type}
  BY <1>1, <1>2 DEF set
<1>3. CASE values_[key].type \notin {"missing", value.type}
  BY <1>1, <1>3 DEF set
<1> QED BY <1>2, <1>3

\* A call that begins when the lock is free, with the lock or without.
LEMMA SetValueKeeps ==
  ASSUME NavInv, NEW t \in Threads, set_value(t)
  PROVE  NavInv'
<1>1. PICK key \in Keys \cup Groups, type \in ValueTypes \ {"list"} : set(key, Value(type))
  BY DEF set_value
<1>2. /\ Value(type) \in Listed \ {Missing} /\ Value(type).type = type
      /\ type \in {"value", "other"}
  BY DEF Listed, Value, Missing, ValueTypes
<1>3. UNCHANGED <<groups_, group_mutex_, calls>>
  BY DEF set_value
<1>4. /\ values_' \in [Keys \cup Groups -> Listed]
      /\ \A k \in (Keys \cup Groups) \ {key} : values_'[k] = values_[k]
      /\ \/ values_[key].type \in {"missing", type} /\ values_'[key].type = type
         \/ values_'[key] = values_[key]
  BY <1>1, <1>2, SetKeeps DEF NavInv
<1>5. NavStateTypeOK'
  BY <1>3, <1>4 DEF NavInv, NavStateTypeOK, Listed
<1>6. \A k \in Keys : has_type(k, "value") => has_type(k, "value")'
  BY <1>4 DEF has_type
<1>7. HoldsLock'
  <2>1. \A u \in Threads : calls[u].began \subseteq Keys
    BY DEF NavInv, NavStateTypeOK
  <2> QED BY <1>3, <1>6, <2>1 DEF NavInv, HoldsLock
<1>8. \A g \in Groups : ListAgrees(g) => ListAgrees(g)'
  BY <1>2, <1>3, <1>4 DEF ListAgrees
<1>9. StoredElseAgrees'
  BY <1>3, <1>8 DEF NavInv, StoredElseAgrees
<1> QED BY <1>5, <1>7, <1>9 DEF NavInv

\* A thread that takes the lock to store the list of a group whose members it
\* changed.
LEMMA StoreBegins ==
  ASSUME NavInv, NEW t \in Threads, NEW g \in Groups, NEW keys \in SUBSET Keys,
         Lock(t), groups_' = [groups_ EXCEPT ![g] = keys],
         Begin(t, [Idle EXCEPT !.op = "store", !.group = {g}, !.wanted = keys]),
         UNCHANGED values_
  PROVE  NavInv'
<1> DEFINE call == [Idle EXCEPT !.op = "store", !.group = {g}, !.wanted = keys]
<1>1. call \in Calls /\ call.op = "store" /\ call.group = {g} /\ call.wanted = keys
  BY DEF Idle, Calls
<1>2. calls' \in [Threads -> Calls] /\ calls'[t] = call /\ \A u \in Threads \ {t} : calls'[u] = calls[u]
  BY <1>1 DEF Begin, NavInv, NavStateTypeOK, Calls
<1>3. /\ groups_' \in [Groups -> SUBSET Keys] /\ groups_'[g] = keys
      /\ \A h \in Groups \ {g} : groups_'[h] = groups_[h]
  BY DEF NavInv, NavStateTypeOK
<1>4. group_mutex_ = NoThread /\ group_mutex_' = t
  BY DEF Lock
<1>5. \A u \in Threads : calls[u].op \notin {"store", "get_group"}
  BY <1>4, NavStateAssumption DEF NavInv, HoldsLock
<1>6. NavStateTypeOK'
  BY <1>2, <1>3, <1>4 DEF NavInv, NavStateTypeOK, Calls
<1>7. HoldsLock'
  BY <1>1, <1>2, <1>3, <1>4, <1>5 DEF HoldsLock
<1>8. StoredElseAgrees'
  <2>1. ASSUME NEW h \in Groups \ {g} PROVE ListAgrees(h)'
    BY <1>3, <1>5, <2>1 DEF NavInv, StoredElseAgrees, ListAgrees
  <2> QED BY <1>1, <1>2, <2>1 DEF StoredElseAgrees
<1> QED BY <1>6, <1>7, <1>8 DEF NavInv

\* It stores it, and releases the lock also when set() throws.
LEMMA StoreEnds ==
  ASSUME NavInv, NEW t \in Threads, store_group(t)
  PROVE  NavInv'
<1>1. /\ calls[t].op = "store"
      /\ group_mutex_' = NoThread
      /\ calls' = [calls EXCEPT ![t] = Idle]
      /\ UNCHANGED groups_
  BY DEF store_group
<1>2. PICK g \in Groups : calls[t].group = {g}
  BY <1>1 DEF NavInv, HoldsLock
<1>3. set(g, List(calls[t].wanted)) /\ calls[t].wanted = groups_[g] /\ group_mutex_ = t
  BY <1>1, <1>2 DEF store_group, NavInv, HoldsLock
<1>4. /\ List(calls[t].wanted) \in Listed \ {Missing}
      /\ List(calls[t].wanted).type = "list" /\ List(calls[t].wanted).list = groups_[g]
  BY <1>3 DEF NavInv, NavStateTypeOK, Listed, List, Missing
<1>5. /\ values_' \in [Keys \cup Groups -> Listed]
      /\ \A k \in (Keys \cup Groups) \ {g} : values_'[k] = values_[k]
      /\ \/ values_'[g].list = groups_[g]
         \/ values_'[g] = values_[g] /\ values_[g].type \notin {"missing", "list"}
  BY <1>3, <1>4, SetKeeps DEF NavInv
<1>6. Idle \in Calls /\ Idle.op = "none"
  BY DEF Idle, Calls
<1>7. /\ calls' \in [Threads -> Calls] /\ calls'[t].op = "none"
      /\ \A u \in Threads \ {t} : calls'[u] = calls[u]
  BY <1>1, <1>6 DEF NavInv, NavStateTypeOK, Calls
<1>8. \A u \in Threads \ {t} : calls[u].op \notin {"store", "get_group"}
  BY <1>3 DEF NavInv, HoldsLock
<1>9. NavStateTypeOK'
  BY <1>1, <1>5, <1>7 DEF NavInv, NavStateTypeOK, Listed, Calls
<1>10. HoldsLock'
  BY <1>7, <1>8 DEF HoldsLock
<1>11. StoredElseAgrees'
  <2>1. ASSUME NEW h \in Groups \ {g} PROVE ListAgrees(h)'
    <3>1. ListAgrees(h)
      BY <1>2, <1>8 DEF NavInv, StoredElseAgrees
    <3> QED BY <1>1, <1>5, <3>1 DEF ListAgrees
  <2>2. ListAgrees(g)'
    BY <1>1, <1>5 DEF ListAgrees
  <2> QED BY <2>1, <2>2 DEF StoredElseAgrees
<1> QED BY <1>9, <1>10, <1>11 DEF NavInv

\* What a thread does to its own call, while the values and the groups stay.
LEMMA QueryKeeps ==
  ASSUME NavInv, NEW t \in Threads, NEW call \in Calls, calls' = [calls EXCEPT ![t] = call],
         UNCHANGED <<values_, groups_>>, group_mutex_' \in Threads \cup {NoThread},
         calls[t].op # "store", call.op # "store",
         \A u \in Threads \ {t} : calls[u].op \in {"store", "get_group"} => group_mutex_' = u,
         call.op = "get_group" =>
           /\ group_mutex_' = t
           /\ \E g \in Groups :
                call.group = {g} /\ call.wanted \cup call.out \subseteq groups_[g]
           /\ call.began \subseteq call.wanted \cup call.out
           /\ \A k \in call.began : has_type(k, "value")
  PROVE  NavInv'
<1>1. calls' \in [Threads -> Calls] /\ calls'[t] = call /\ \A u \in Threads \ {t} : calls'[u] = calls[u]
  BY DEF NavInv, NavStateTypeOK, Calls
<1>2. NavStateTypeOK'
  BY <1>1 DEF NavInv, NavStateTypeOK, Calls
<1>3. HoldsLock'
  <2>1. ASSUME NEW u \in Threads \ {t}, calls'[u].op \in {"store", "get_group"}
        PROVE  /\ group_mutex_' = u
               /\ \E g \in Groups : calls'[u].group = {g}
               /\ calls'[u].op = "store" => \A g \in calls'[u].group : calls'[u].wanted = groups_'[g]
               /\ calls'[u].op = "get_group" =>
                    /\ \A g \in calls'[u].group : calls'[u].wanted \cup calls'[u].out \subseteq groups_'[g]
                    /\ calls'[u].began \subseteq calls'[u].wanted \cup calls'[u].out
                    /\ \A k \in calls'[u].began : has_type(k, "value")'
    BY <1>1, <2>1 DEF NavInv, HoldsLock, has_type
  <2>2. ASSUME call.op = "get_group"
        PROVE  /\ group_mutex_' = t
               /\ \E g \in Groups : call.group = {g}
               /\ \A g \in call.group : call.wanted \cup call.out \subseteq groups_'[g]
               /\ call.began \subseteq call.wanted \cup call.out
               /\ \A k \in call.began : has_type(k, "value")'
    BY <2>2 DEF has_type
  <2> QED BY <1>1, <2>1, <2>2 DEF HoldsLock
<1>4. StoredElseAgrees'
  BY <1>1 DEF NavInv, StoredElseAgrees, ListAgrees
<1> QED BY <1>2, <1>3, <1>4 DEF NavInv

\* The members of a group, one after the other, under the lock.
LEMMA GetGroupKeeps ==
  ASSUME NavInv, NEW t \in Threads,
         \/ \E g \in Groups : get_group(t, g)
         \/ get_member(t) \/ got_group(t)
  PROVE  NavInv'
<1>1. ASSUME NEW g \in Groups, get_group(t, g) PROVE NavInv'
  <2> DEFINE call == [Idle EXCEPT !.op = "get_group", !.group = {g}, !.wanted = groups_[g],
                                  !.began = {k \in groups_[g] : has_type(k, "value")}]
  <2>1. /\ calls[t].op = "none" /\ calls' = [calls EXCEPT ![t] = call]
        /\ group_mutex_ = NoThread /\ group_mutex_' = t
        /\ UNCHANGED <<values_, groups_>>
    BY <1>1 DEF get_group, Begin, Lock
  <2>2. /\ call \in Calls /\ call.op = "get_group" /\ call.group = {g}
        /\ call.wanted = groups_[g] /\ call.out = {}
        /\ call.began = {k \in groups_[g] : has_type(k, "value")}
    BY DEF Idle, Calls, NavInv, NavStateTypeOK
  <2>3. \A u \in Threads : calls[u].op \notin {"store", "get_group"}
    BY <2>1, NavStateAssumption DEF NavInv, HoldsLock
  <2> HIDE DEF call
  <2> QED BY <2>1, <2>2, <2>3, QueryKeeps
<1>2. ASSUME get_member(t) PROVE NavInv'
  <2>1. PICK k \in calls[t].wanted :
          calls' = [calls EXCEPT ![t].wanted = @ \ {k},
                                 ![t].out = IF has_type(k, "value") THEN @ \cup {k} ELSE @]
    BY <1>2 DEF get_member
  <2>2. calls \in [Threads -> Calls] /\ calls[t] \in Calls
    BY DEF NavInv, NavStateTypeOK, Calls
  <2> DEFINE call == [calls[t] EXCEPT !.wanted = @ \ {k},
                                      !.out = IF has_type(k, "value") THEN @ \cup {k} ELSE @]
  <2>3. calls' = [calls EXCEPT ![t] = call]
    BY <2>1, <2>2
  <2>4. /\ calls[t].op = "get_group" /\ group_mutex_ = t
        /\ UNCHANGED <<values_, groups_, group_mutex_>>
    BY <1>2 DEF get_member, NavInv, HoldsLock
  <2>5. /\ call \in Calls /\ call.op = "get_group" /\ call.group = calls[t].group
        /\ call.wanted = calls[t].wanted \ {k} /\ call.began = calls[t].began
        /\ call.out = IF has_type(k, "value") THEN calls[t].out \cup {k} ELSE calls[t].out
    BY <2>2, <2>4 DEF Calls
  <2>6. \A u \in Threads \ {t} : calls[u].op \notin {"store", "get_group"}
    BY <2>4 DEF NavInv, HoldsLock
  <2>7. /\ \E g \in Groups : call.group = {g} /\ call.wanted \cup call.out \subseteq groups_[g]
        /\ call.began \subseteq call.wanted \cup call.out
        /\ \A j \in call.began : has_type(j, "value")
    <3>1. PICK g \in Groups : calls[t].group = {g}
      BY <2>4 DEF NavInv, HoldsLock
    <3>2. /\ calls[t].wanted \cup calls[t].out \subseteq groups_[g]
          /\ calls[t].began \subseteq calls[t].wanted \cup calls[t].out
          /\ \A j \in calls[t].began : has_type(j, "value")
      BY <2>4, <3>1 DEF NavInv, HoldsLock
    <3> HIDE DEF call
    <3> QED BY <2>5, <3>1, <3>2
  <2> HIDE DEF call
  <2>8. group_mutex_' \in Threads \cup {NoThread}
    BY <2>4
  <2> QED BY <2>3, <2>4, <2>5, <2>6, <2>7, <2>8, QueryKeeps
<1>3. ASSUME got_group(t) PROVE NavInv'
  <2> DEFINE call == [calls[t] EXCEPT !.op = "answered"]
  <2>1. calls \in [Threads -> Calls] /\ calls[t] \in Calls
    BY DEF NavInv, NavStateTypeOK, Calls
  <2>2. /\ calls[t].op = "get_group" /\ group_mutex_ = t /\ group_mutex_' = NoThread
        /\ UNCHANGED <<values_, groups_>>
    BY <1>3 DEF got_group, NavInv, HoldsLock
  <2>3. calls' = [calls EXCEPT ![t] = call] /\ call \in Calls /\ call.op = "answered"
    BY <1>3, <2>1 DEF got_group, Calls
  <2>4. \A u \in Threads \ {t} : calls[u].op \notin {"store", "get_group"}
    BY <2>2 DEF NavInv, HoldsLock
  <2> HIDE DEF call
  <2> QED BY <2>2, <2>3, <2>4, QueryKeeps
<1> QED BY <1>1, <1>2, <1>3

\* The queries that go on without the lock, and the end of each.
LEMMA OthersKeep ==
  ASSUME NavInv, NEW t \in Threads, get_no_group(t) \/ got_no_group(t) \/ use(t)
  PROVE  NavInv'
<1>1. calls \in [Threads -> Calls] /\ calls[t] \in Calls
  BY DEF NavInv, NavStateTypeOK, Calls
<1>2. UNCHANGED <<values_, groups_, group_mutex_>> /\ group_mutex_' \in Threads \cup {NoThread}
  BY DEF get_no_group, got_no_group, use, NavInv, NavStateTypeOK
<1>3. \A u \in Threads : calls[u].op \in {"store", "get_group"} => group_mutex_' = u
  BY <1>2 DEF NavInv, HoldsLock
<1>4. calls[t].op \in {"none", "get_no_group", "answered"}
  BY DEF get_no_group, got_no_group, use, Begin
<1>5. ASSUME get_no_group(t)
      PROVE  \E call \in Calls : calls' = [calls EXCEPT ![t] = call] /\ call.op = "get_no_group"
  <2>1. UNION {groups_[g] : g \in Groups} \in SUBSET Keys
    BY DEF NavInv, NavStateTypeOK
  <2>2. [Idle EXCEPT !.op = "get_no_group", !.began = UNION {groups_[g] : g \in Groups}] \in Calls
    BY <2>1 DEF Idle, Calls
  <2> QED BY <1>5, <2>2 DEF get_no_group, Begin, Idle
<1>6. ASSUME got_no_group(t)
      PROVE  \E call \in Calls : calls' = [calls EXCEPT ![t] = call] /\ call.op = "answered"
  <2> DEFINE found == (get_by_type("value") \cap Keys) \ calls[t].began
             call == [calls[t] EXCEPT !.op = "answered", !.out = found]
  <2>1. calls' = [calls EXCEPT ![t] = call]
    BY <1>1, <1>6 DEF got_no_group
  <2>2. call \in Calls /\ call.op = "answered"
    BY <1>1 DEF Calls
  <2> QED BY <2>1, <2>2
<1>7. ASSUME use(t)
      PROVE  \E call \in Calls : calls' = [calls EXCEPT ![t] = call] /\ call.op = "none"
  <2>1. Idle \in Calls /\ Idle.op = "none"
    BY DEF Idle, Calls
  <2> QED BY <1>7, <2>1 DEF use
<1>8. PICK call \in Calls : /\ calls' = [calls EXCEPT ![t] = call]
                            /\ call.op \in {"none", "get_no_group", "answered"}
  BY <1>5, <1>6, <1>7
<1> QED BY <1>2, <1>3, <1>4, <1>8, QueryKeeps

LEMMA NavInvNext == NavInv /\ [NavStateNext]_navStateVars => NavInv'
<1> SUFFICES ASSUME NavInv, [NavStateNext]_navStateVars PROVE NavInv'
  OBVIOUS
<1>1. ASSUME NEW t \in Threads, NEW g \in Groups, NEW keys \in Grouped, set_group(t, g, keys)
      PROVE  NavInv'
  BY <1>1, StoreBegins, NavStateAssumption DEF set_group
<1>2. ASSUME NEW t \in Threads, NEW g \in Groups, NEW key \in Keys, add_to_group(t, g, key)
      PROVE  NavInv'
  <2>1. groups_[g] \cup {key} \in SUBSET Keys
    BY DEF NavInv, NavStateTypeOK
  <2>2. groups_' = [groups_ EXCEPT ![g] = groups_[g] \cup {key}]
    BY <1>2 DEF add_to_group
  <2> QED BY <1>2, <2>1, <2>2, StoreBegins DEF add_to_group
<1>3. ASSUME NEW t \in Threads, set_value(t) \/ store_group(t) PROVE NavInv'
  BY <1>3, SetValueKeeps, StoreEnds
<1>4. ASSUME NEW t \in Threads,
             \/ \E g \in Groups : get_group(t, g)
             \/ get_member(t) \/ got_group(t)
      PROVE  NavInv'
  BY <1>4, GetGroupKeeps
<1>5. ASSUME NEW t \in Threads, get_no_group(t) \/ got_no_group(t) \/ use(t) PROVE NavInv'
  BY <1>5, OthersKeep
<1>6. ASSUME UNCHANGED navStateVars PROVE NavInv'
  BY <1>6 DEF navStateVars, NavInv, NavStateTypeOK, HoldsLock, StoredElseAgrees, ListAgrees, has_type
<1> QED BY <1>1, <1>2, <1>3, <1>4, <1>5, <1>6 DEF NavStateNext

\* For any number of threads, keys and groups: the value under a group's key
\* lists its members whenever nobody changes them, and get_group() answers the
\* group as it is when the call ends.
THEOREM GroupsStayConsistent == NavStateSpec => [](NavStateTypeOK /\ GroupsAgree)
<1>1. NavInv => NavStateTypeOK /\ GroupsAgree
  BY NavInvGives DEF NavInv
<1> QED BY <1>1, NavInvInit, NavInvNext, PTL DEF NavStateSpec

-----------------------------------------------------------------------------
(* The components side by side: a behaviour of the whole is one of each.   *)

LEMMA EachComponentSteps ==
  [ComponentsNext]_componentVars =>
    /\ [FreezeNext]_freezeVars /\ [SupervisorNext]_supervisorVars /\ [SensorsNext]_sensorsVars
    /\ [NavStateNext]_navStateVars /\ [TransformNext]_transformVars /\ [ViewNext]_viewVars
    /\ [PlannerNext]_plannerVars /\ [LocalizerNodeNext]_localizerNodeVars
<1> SUFFICES ASSUME [ComponentsNext]_componentVars
             PROVE  /\ [FreezeNext]_freezeVars /\ [SupervisorNext]_supervisorVars
                    /\ [SensorsNext]_sensorsVars /\ [NavStateNext]_navStateVars
                    /\ [TransformNext]_transformVars /\ [ViewNext]_viewVars
                    /\ [PlannerNext]_plannerVars /\ [LocalizerNodeNext]_localizerNodeVars
  OBVIOUS
<1>1. CASE FreezePart
  BY <1>1, Zenon DEF FreezePart
<1>2. CASE SupervisorPart
  BY <1>2, Zenon DEF SupervisorPart
<1>3. CASE SensorsPart
  BY <1>3, Zenon DEF SensorsPart
<1>4. CASE NavStatePart
  BY <1>4, Zenon DEF NavStatePart
<1>5. CASE TransformPart
  BY <1>5, Zenon DEF TransformPart
<1>6. CASE ViewPart
  BY <1>6, Zenon DEF ViewPart
<1>7. CASE PlannerPart
  BY <1>7, Zenon DEF PlannerPart
<1>8. CASE LocalizerPart
  BY <1>8, Zenon DEF LocalizerPart
<1>9. CASE UNCHANGED componentVars
  BY <1>9, Zenon DEF componentVars
<1> QED BY <1>1, <1>2, <1>3, <1>4, <1>5, <1>6, <1>7, <1>8, <1>9, Zenon DEF ComponentsNext

LEMMA EachComponentBehaves ==
  Spec => /\ FreezeSpec /\ SupervisorSpec /\ SensorsSpec /\ NavStateSpec /\ TransformSpec
          /\ ViewSpec /\ PlannerSpec /\ LocalizerNodeSpec
<1>1. ComponentsInit => /\ FreezeInit /\ SupervisorInit /\ SensorsInit /\ NavStateInit
                        /\ TransformInit /\ ViewInit /\ PlannerInit /\ LocalizerNodeInit
  BY Zenon DEF ComponentsInit
<1> QED BY <1>1, EachComponentSteps, PTL
        DEF Spec, FreezeSpec, SupervisorSpec, SensorsSpec, NavStateSpec, TransformSpec, ViewSpec,
            PlannerSpec, LocalizerNodeSpec

\* Whatever each component does, every variable of every one of them has a value of
\* its kind, and the pose that a localizer starts from is handed over in time, for
\* any values of the constants (the parts of easynav_common, easynav_core,
\* easynav_planner, easynav_localizer, easynav_sensors and easynav_system that stand
\* on their own).
THEOREM ComponentsTyped == Spec => []TypeOK
<1>1. SupervisorInv => SupervisorTypeOK
  BY DEF SupervisorInv
<1>2. FreezeInv => FreezeTypeOK
  BY DEF FreezeInv
<1>3. FreezeSpec => []FreezeInv
  BY FreezeInvInit, FreezeInvNext, PTL DEF FreezeSpec
<1>4. SupervisorSpec => []SupervisorInv
  BY SupervisorInvariant
<1>5. FreezeTypeOK /\ SupervisorTypeOK /\ SensorsTypeOK /\ NavStateTypeOK /\ TransformTypeOK
      /\ ViewTypeOK /\ PlannerTypeOK /\ LocalizerTypeOK /\ LastPoseFirst => TypeOK
  BY Zenon DEF TypeOK
<1> QED BY <1>1, <1>2, <1>3, <1>4, <1>5, EachComponentBehaves, SensorsTypes, TransformTypes,
           ViewTypes, PlannerTypes, PoseHandedOver, GroupsStayConsistent, PTL
=============================================================================
