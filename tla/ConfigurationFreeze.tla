------------------------- MODULE ConfigurationFreeze -----------------------
(***************************************************************************)
(* What EasyNav was configured with: the parameters of all its nodes, the  *)
(* fingerprint that easynav_system's ConfigurationFingerprint takes of     *)
(* them, the file that keeps what the fingerprint stands for, and the      *)
(* ParameterFreezer that refuses every change in safety mode.  SystemNode  *)
(* is configured, cleaned up and configured again; anyone may set a        *)
(* parameter between two steps of the main thread; plugins declare theirs  *)
(* when they are loaded; the process may crash and start again.            *)
(*                                                                         *)
(* A SHA-256 stands for the dump it is taken of: it is that dump here.     *)
(***************************************************************************)
EXTENDS Integers

CONSTANTS Names,           \* the parameters of all nodes
          PluginNames,     \* those that a plugin declares when it is loaded
          Values,          \* what a parameter may be, "not set" included
          Undeclared,
          SafetyMode, On,  \* "safety.mode", and the value that turns it on
          Checked          \* the configurations that check_controller() accepts

Configurations == [Names -> Values \cup {Undeclared}]

ASSUME FreezeAssumption ==
  /\ Undeclared \notin Values /\ On \in Values
  /\ PluginNames \subseteq Names
  /\ SafetyMode \in Names \ PluginNames
  /\ Checked \subseteq Configurations

VARIABLES
  params,               \* the parameters of the nodes
  configured,           \* where SystemNode is in its life and in on_configure()
  safety_mode,          \* as of the last configure
  configuration_hash,   \* as of the last successful configure
  frozen, installed, accept_new,   \* ParameterFreezer
  files                 \* of the log directory: final or aside, and their content

freezeVars == <<params, configured, safety_mode, configuration_hash,
                frozen, installed, accept_new, files>>
freezerVars == <<frozen, installed, accept_new>>

Nowhere == [n \in Names |-> Undeclared]

\* A file in the log directory is named after the dump it was meant to have.  It
\* is "open" until its stream is closed (and for ever if the process dies before),
\* and then whole or, when the last flush failed, cut.
FileContents == {"open", "whole", "cut"}
File(dump, final, content) == [dump |-> dump, final |-> final, content |-> content]

FreezeTypeOK ==
  /\ params \in Configurations
  /\ configured \in {"no", "configuring", "save", "write", "rename", "freeze", "inactive", "active"}
  /\ safety_mode \in BOOLEAN
  /\ configuration_hash \in Configurations
  /\ frozen \in Configurations
  /\ installed \in BOOLEAN
  /\ accept_new \in BOOLEAN
  /\ files \subseteq [dump : Configurations, final : BOOLEAN, content : FileContents]

\* The nodes of a process that starts declare their parameters, with the
\* values of its parameter files.
Declared == {p \in Configurations : \A n \in Names : p[n] = Undeclared <=> n \in PluginNames}

FreezeInit ==
  /\ params \in Declared
  /\ configured = "no"
  /\ safety_mode = FALSE
  /\ configuration_hash = Nowhere
  /\ frozen = Nowhere /\ installed = FALSE /\ accept_new = TRUE
  /\ files = {}

-----------------------------------------------------------------------------
(* The parameters, from outside and from the plugins.                      *)

\* Mutant: a parameter that is not frozen yet is always accepted.
acceptsNew(n, v) ==
  installed => IF frozen[n] = Undeclared THEN TRUE ELSE v = frozen[n]

\* The callback that freeze() installs in every node.
accepts(n, v) ==
  installed => IF frozen[n] = Undeclared THEN accept_new ELSE v = frozen[n]

\* The main thread serves parameters between two cycles, not while it configures.
set_parameter(n, v) ==
  /\ configured \in {"no", "inactive", "active"}
  /\ params[n] # Undeclared
  /\ accepts(n, v)
  /\ params' = [params EXCEPT ![n] = v]
  /\ UNCHANGED <<configured, safety_mode, configuration_hash, freezerVars, files>>

\* A plugin that is loaded, or one that declares a parameter when it first
\* needs it; what is refused throws and changes nothing.
declare_parameter(n, v) ==
  /\ configured \in {"configuring", "inactive", "active"}
  /\ n \in PluginNames /\ params[n] = Undeclared
  /\ accepts(n, v)
  /\ params' = [params EXCEPT ![n] = v]
  /\ UNCHANGED <<configured, safety_mode, configuration_hash, freezerVars, files>>

-----------------------------------------------------------------------------
(* SystemNode::on_configure().                                             *)

\* Parameters that do not fit each other leave the node unconfigured, with
\* everything else done.
check_system ==
  /\ configured = "no"
  /\ safety_mode' = (params[SafetyMode] = On)
  /\ accept_new' = TRUE
  /\ configured' \in {"no", "configuring"}
  /\ UNCHANGED <<params, configuration_hash, frozen, installed, files>>

\* A subnode that does not configure, or a controller that does not fit the
\* safety channel.
configure_failed ==
  /\ configured = "configuring"
  /\ configured' = "no"
  /\ UNCHANGED <<params, safety_mode, configuration_hash, freezerVars, files>>

\* Fingerprint of what the nodes have now.
on_configured ==
  /\ configured = "configuring"
  /\ params \in Checked
  /\ configuration_hash' = params
  /\ configured' = "save"
  /\ UNCHANGED <<params, safety_mode, freezerVars, files>>

Aside(content) == File(configuration_hash, FALSE, content)
Final(content) == File(configuration_hash, TRUE, content)
Asides == {Aside(content) : content \in FileContents}
Finals == {Final(content) : content \in FileContents}

\* Mutant: it is written under its final name.
save_dumpInPlace ==
  /\ configured = "save"
  /\ \/ configured' = "freeze" /\ UNCHANGED files
     \/ /\ Finals \cap files = {}
        /\ configured' = "write"
        /\ files' = files \cup {Final("open"), Aside("open")}
  /\ UNCHANGED <<params, safety_mode, configuration_hash, freezerVars>>

\* A dump of the same hash is there already, the directory cannot be created,
\* or it is written aside; what was left there is truncated.
save_dump ==
  /\ configured = "save"
  /\ \/ configured' = "freeze" /\ UNCHANGED files
     \/ /\ Finals \cap files = {}
        /\ configured' = "write"
        /\ files' = (files \ Asides) \cup {Aside("open")}
  /\ UNCHANGED <<params, safety_mode, configuration_hash, freezerVars>>

\* The stream failed, and what there is stays aside; or it did not, and is closed:
\* whether what it still had to flush got to the disk is not asked.
written ==
  /\ configured = "write"
  /\ \/ configured' = "freeze" /\ UNCHANGED files
     \/ /\ configured' = "rename"
        /\ \E content \in {"whole", "cut"} :
             files' = (files \ Asides) \cup {Aside(content)}
  /\ UNCHANGED <<params, safety_mode, configuration_hash, freezerVars>>

\* What was written aside gets its final name, or is removed.
renamed ==
  /\ configured = "rename"
  /\ configured' = "freeze"
  /\ \/ files' = (files \ Asides) \cup {Final(f.content) : f \in files \cap Asides}
     \/ files' = files \ Asides
  /\ UNCHANGED <<params, safety_mode, configuration_hash, freezerVars>>

\* In safety mode the values of now are frozen, over those frozen before.
freeze ==
  /\ configured = "freeze"
  /\ configured' = "inactive"
  /\ IF safety_mode
     THEN /\ frozen' = [n \in Names |-> IF params[n] # Undeclared THEN params[n] ELSE frozen[n]]
          /\ installed' = TRUE /\ accept_new' = FALSE
     ELSE UNCHANGED freezerVars
  /\ UNCHANGED <<params, safety_mode, configuration_hash, files>>

\* Activation, deactivation and cleanup, by whoever drives the node.
transition ==
  /\ \/ configured = "inactive" /\ configured' \in {"active", "no"}
     \/ configured = "active" /\ configured' = "inactive"
  /\ UNCHANGED <<params, safety_mode, configuration_hash, freezerVars, files>>

\* The process dies, at any step, and starts again over the same directory.
crash ==
  /\ params' \in Declared
  /\ configured' = "no"
  /\ safety_mode' = FALSE
  /\ configuration_hash' = Nowhere
  /\ frozen' = Nowhere /\ installed' = FALSE /\ accept_new' = TRUE
  /\ UNCHANGED files

FreezeNext ==
  \/ \E n \in Names, v \in Values : set_parameter(n, v) \/ declare_parameter(n, v)
  \/ check_system \/ configure_failed \/ on_configured
  \/ save_dump \/ written \/ renamed \/ freeze
  \/ transition
  \/ crash

FreezeSpec == FreezeInit /\ [][FreezeNext]_freezeVars

-----------------------------------------------------------------------------
(* Once configured in safety mode, every node has the values that were     *)
(* fingerprinted and checked, whoever sets or declares a parameter and     *)
(* however many configurations, failed ones included, came before          *)
(* (ParameterFreezer::freeze(), SafetySupervisor::on_configured()).        *)
FrozenConfiguration ==
  safety_mode /\ configured \in {"inactive", "active"} =>
    params = configuration_hash /\ params \in Checked

\* What the log directory has under its final name was taken by its stream and
\* closed: it is never what a process that died was writing, nor one whose stream
\* had failed, in this or an earlier run over the same directory (save_dump()).
\* It may be cut: a flush that failed when the stream was closed is not seen.
RenamedOnceClosed == \A f \in files : f.final => f.content # "open"
=============================================================================
