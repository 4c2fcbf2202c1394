------------------------------ MODULE NavState -----------------------------
(***************************************************************************)
(* easynav_common's NavState: the typed blackboard through which the       *)
(* components and the threads of the system share what they know.  Each    *)
(* section under state_mutex_ is one action.  group_mutex_ is held over    *)
(* several of them, so set_group(), add_to_group(), get_group() and        *)
(* get_no_group() are steps of a thread that others interleave with.       *)
(*                                                                         *)
(* A value is its type and, of the type that lists the members of a group, *)
(* the list.  The order of the members and of what a query returns is left *)
(* out; has() and has_group(), which take no lock, are left out too.       *)
(***************************************************************************)
EXTENDS Naturals, FiniteSets

CONSTANTS Threads, NoThread,
          Keys,               \* of values
          Groups,             \* of groups, and of the values that list them
          Grouped             \* the lists that set_group() is called with

ASSUME NavStateAssumption ==
  /\ NoThread \notin Threads /\ Keys \cap Groups = {}
  /\ Grouped \subseteq SUBSET Keys

VARIABLES values_, groups_, group_mutex_,
          calls        \* what each thread is doing

navStateVars == <<values_, groups_, group_mutex_, calls>>

ValueTypes == {"value", "other", "list"}
Missing == [type |-> "missing", list |-> {}]
Value(type) == [type |-> type, list |-> {}]
List(keys) == [type |-> "list", list |-> keys]

\* "wanted" is what is left to do, "out" what was found, "began" what groups_
\* said when the call began.
Idle == [op |-> "none", group |-> {}, wanted |-> {}, out |-> {}, began |-> {}]

NavStateTypeOK ==
  /\ values_ \in [Keys \cup Groups ->
       {Missing} \cup {Value(type) : type \in ValueTypes \ {"list"}} \cup {List(keys) : keys \in SUBSET Keys}]
  /\ groups_ \in [Groups -> SUBSET Keys]
  /\ group_mutex_ \in Threads \cup {NoThread}
  /\ calls \in [Threads ->
       [op : {"none", "store", "get_group", "answered", "get_no_group"}, group : SUBSET Groups,
        wanted : SUBSET Keys, out : SUBSET Keys, began : SUBSET Keys]]

NavStateInit ==
  /\ values_ = [k \in Keys \cup Groups |-> Missing]
  /\ groups_ = [g \in Groups |-> {}]
  /\ group_mutex_ = NoThread
  /\ calls = [t \in Threads |-> Idle]

-----------------------------------------------------------------------------
(* Sections under state_mutex_.                                            *)

\* set() throws when the key has a value of another type, and changes nothing.
set(key, value) ==
  IF values_[key].type \in {"missing", value.type}
  THEN values_' = [values_ EXCEPT ![key] = value]
  ELSE UNCHANGED values_

\* What get(), get_safe(), get_ptr() and get_to_vector() find; get_by_type()
\* finds all of them.
has_type(key, type) == values_[key].type = type
get_by_type(type) == {k \in Keys \cup Groups : has_type(k, type)}

-----------------------------------------------------------------------------
(* The calls.                                                              *)

Begin(t, call) == calls[t].op = "none" /\ calls' = [calls EXCEPT ![t] = call]

Lock(t) == group_mutex_ = NoThread /\ group_mutex_' = t

set_value(t) ==
  /\ calls[t].op = "none"
  /\ \E key \in Keys \cup Groups, type \in ValueTypes \ {"list"} : set(key, Value(type))
  /\ UNCHANGED <<groups_, group_mutex_, calls>>

set_group(t, g, keys) ==
  /\ Lock(t)
  /\ groups_' = [groups_ EXCEPT ![g] = keys]
  /\ Begin(t, [Idle EXCEPT !.op = "store", !.group = {g}, !.wanted = keys])
  /\ UNCHANGED values_

\* Mutant: without the lock, as when a thread reads the members, adds its own
\* and calls set_group().
add_to_groupUnlocked(t, g, key) ==
  /\ group_mutex_ \in {t, NoThread} /\ UNCHANGED group_mutex_
  /\ key \notin groups_[g]
  /\ groups_' = [groups_ EXCEPT ![g] = @ \cup {key}]
  /\ Begin(t, [Idle EXCEPT !.op = "store", !.group = {g}, !.wanted = groups_[g] \cup {key}])
  /\ UNCHANGED values_

\* Nothing happens if it is a member already.
add_to_group(t, g, key) ==
  /\ Lock(t)
  /\ key \notin groups_[g]
  /\ groups_' = [groups_ EXCEPT ![g] = @ \cup {key}]
  /\ Begin(t, [Idle EXCEPT !.op = "store", !.group = {g}, !.wanted = groups_[g] \cup {key}])
  /\ UNCHANGED values_

\* The list of the members is a value too.  If set() throws, the lock is
\* released and groups_ keeps what it was given.
store_group(t) ==
  /\ calls[t].op = "store"
  /\ \E g \in calls[t].group : set(g, List(calls[t].wanted))
  /\ group_mutex_' = NoThread
  /\ calls' = [calls EXCEPT ![t] = Idle]
  /\ UNCHANGED groups_

\* get_group<T>(), T being the type "value".  The lock is held from the members
\* to the end; each of them is looked up on its own.
get_group(t, g) ==
  /\ Lock(t)
  /\ Begin(t, [Idle EXCEPT !.op = "get_group", !.group = {g}, !.wanted = groups_[g],
                           !.began = {k \in groups_[g] : has_type(k, "value")}])
  /\ UNCHANGED <<values_, groups_>>

get_member(t) ==
  /\ calls[t].op = "get_group"
  /\ \E k \in calls[t].wanted :
       calls' = [calls EXCEPT ![t].wanted = @ \ {k},
                              ![t].out = IF has_type(k, "value") THEN @ \cup {k} ELSE @]
  /\ UNCHANGED <<values_, groups_, group_mutex_>>

got_group(t) ==
  /\ calls[t].op = "get_group" /\ calls[t].wanted = {}
  /\ group_mutex_' = NoThread
  /\ calls' = [calls EXCEPT ![t].op = "answered"]
  /\ UNCHANGED <<values_, groups_>>

\* The keys of all groups first, under one lock; then the values, under the
\* other.
get_no_group(t) ==
  /\ group_mutex_ = NoThread
  /\ Begin(t, [Idle EXCEPT !.op = "get_no_group", !.began = UNION {groups_[g] : g \in Groups}])
  /\ UNCHANGED <<values_, groups_, group_mutex_>>

got_no_group(t) ==
  /\ calls[t].op = "get_no_group"
  /\ calls' = [calls EXCEPT ![t].op = "answered",
                            ![t].out = (get_by_type("value") \cap Keys) \ calls[t].began]
  /\ UNCHANGED <<values_, groups_, group_mutex_>>

\* The caller uses the answer.
use(t) ==
  /\ calls[t].op = "answered"
  /\ calls' = [calls EXCEPT ![t] = Idle]
  /\ UNCHANGED <<values_, groups_, group_mutex_>>

NavStateNext ==
  \E t \in Threads :
    \/ set_value(t)
    \/ \E g \in Groups, keys \in Grouped : set_group(t, g, keys)
    \/ \E g \in Groups, key \in Keys : add_to_group(t, g, key)
    \/ store_group(t)
    \/ \E g \in Groups : get_group(t, g)
    \/ get_member(t) \/ got_group(t)
    \/ get_no_group(t) \/ got_no_group(t) \/ use(t)

NavStateSpec == NavStateInit /\ [][NavStateNext]_navStateVars

-----------------------------------------------------------------------------
(* While no thread is changing the groups, the value under a group's key   *)
(* lists its members, unless that key was taken for a value of another     *)
(* type; and what get_group() answers is the group as it is when the call  *)
(* ends: nothing of another group or of an earlier list, and all that had  *)
(* a value from the beginning (set_group(), add_to_group(), get_group()).  *)
GroupsAgree ==
  /\ group_mutex_ = NoThread =>
       \A g \in Groups : values_[g].type \in {"list", "missing"} => values_[g].list = groups_[g]
  /\ \A t \in Threads : calls[t].op = "get_group" =>
       \A g \in calls[t].group :
         /\ calls[t].out \subseteq groups_[g]
         /\ calls[t].began \subseteq calls[t].out \cup calls[t].wanted
=============================================================================
