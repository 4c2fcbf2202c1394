----------------------------- MODULE SensorData ----------------------------
(***************************************************************************)
(* easynav_sensors: SensorsNode with its list of perception handlers, the  *)
(* perceptions they keep up to date, the age check of every real-time (RT) *)
(* cycle and its diagnostics.  Messages arrive in the RT thread, late or   *)
(* out of order; views of the point perceptions are fused in the other     *)
(* thread; the node is configured, cleaned up and configured again, and a  *)
(* configuration may fail half-way.                                        *)
(*                                                                         *)
(* A measurement is its stamp: a point of ROS time, 0 when there is none.  *)
(* TF can transform the stamps of the TfWindow before tf_last.  What       *)
(* NavState keeps of a handler that was released is left out, and so is    *)
(* the new_data flag, with which a handler triggers the controller.        *)
(***************************************************************************)
EXTENDS CircularBuffer

CONSTANTS Sensors, Points, Opaque,   \* sensors of point clouds; without get_perception()
          Configurable,              \* the lists that the parameter "sensors" may hold
          BufferSize,                \* of PointPerception's buffer
          MaxStamp, ForgetTime, TfWindow,
          MaxHandlers

ASSUME SensorAssumption ==
  /\ Points \subseteq Sensors /\ Opaque \subseteq Sensors /\ Points \cap Opaque = {}
  /\ Configurable \subseteq Seq(Sensors)
  /\ BufferSize \in Nat \ {0}
  /\ MaxStamp \in Nat \ {0} /\ ForgetTime \in Nat /\ TfWindow \in Nat /\ MaxHandlers \in Nat

VARIABLES
  sensors_node, handler_list, data_states, data_age_reported,
  shown,                   \* the sensors whose perceptions are in NavState
  no_data, stale,          \* diagnostics.sensors
  now, tf_last             \* ROS time; the latest that TF covers

sensorsVars == <<sensors_node, handler_list, data_states, data_age_reported,
                 shown, no_data, stale, now, tf_last>>

Stamps == 1 .. MaxStamp
DataState == {"NO_DATA", "FRESH", "STALE"}

\* "arrived" and "expired" are history variables: what was in the buffer when it
\* last lost a cloud because it was full, and all that arrived since; the age check
\* found it too old and nothing arrived since.
Perception ==
  [stamp : 0 .. MaxStamp, valid : BOOLEAN,
   buffer : Rings(0 .. MaxStamp, BufferSize),
   arrived : SUBSET Stamps, expired : BOOLEAN]

NoPerception ==
  [stamp |-> 0, valid |-> FALSE, buffer |-> NewBuffer(BufferSize, 0),
   arrived |-> {}, expired |-> FALSE]

SensorsTypeOK ==
  /\ sensors_node \in {"unconfigured", "inactive", "active"}
  /\ Len(handler_list) \in 0 .. MaxHandlers
  /\ \A i \in DOMAIN handler_list : handler_list[i] \in [sensor : Sensors, data : Perception]
  /\ \A i \in DOMAIN data_states : data_states[i] \in DataState
  /\ sensors_node # "unconfigured" => Len(data_states) = Len(handler_list)
  /\ data_age_reported \in BOOLEAN
  /\ shown \subseteq {handler_list[i].sensor : i \in DOMAIN handler_list}
  /\ no_data \subseteq Sensors /\ stale \subseteq Sensors
  /\ now \in Stamps /\ tf_last \in 0 .. now

SensorsInit ==
  /\ sensors_node = "unconfigured"
  /\ handler_list = << >> /\ data_states = << >> /\ data_age_reported = FALSE
  /\ shown = {} /\ no_data = {} /\ stale = {}
  /\ now = 1 /\ tf_last = 0

-----------------------------------------------------------------------------
(* PointPerception.                                                        *)

has_tf(stamp) == stamp \in tf_last - TfWindow .. tf_last

\* The newest one that TF can transform if there is one, the newest otherwise;
\* the first of those with the same stamp.
Selected(stamps) ==
  LET usable == {i \in DOMAIN stamps : has_tf(stamps[i])}
      among == IF usable # {} THEN usable ELSE DOMAIN stamps
  IN CHOOSE i \in among : \A j \in among :
       stamps[j] < stamps[i] \/ (stamps[j] = stamps[i] /\ i <= j)

\* Mutant: what is newer than the one that was chosen goes too.
neededAlone(stamp, chosen) == has_tf(chosen) => stamp = chosen

\* What is older than a stamp that TF can transform is not needed any more.
needed(stamp, chosen) == has_tf(chosen) => stamp >= chosen

Rebuilt(ring, stamps, chosen) ==
  LET pushed[n \in 0 .. Len(stamps)] ==
        IF n = 0 THEN ring
        ELSE IF needed(stamps[n], chosen) THEN push(pushed[n - 1], stamps[n])
        ELSE pushed[n - 1]
  IN pushed[Len(stamps)]

\* The whole of the buffer is drained, the perception shows one of its items,
\* and is valid, and the buffer is rebuilt.
integrate_pending_perceptions(data) ==
  IF data.buffer.size = 0 THEN data
  ELSE LET drained == items(data.buffer)
           chosen == drained[Selected(drained)]
           freed == clear([data.buffer EXCEPT !.slots = [i \in DOMAIN @ |-> 0]])
       IN [data EXCEPT !.stamp = chosen, !.valid = TRUE, !.buffer = Rebuilt(freed, drained, chosen)]

Contents(ring) == {items(ring)[i] : i \in 1 .. ring.size}

Arrived(data, stamp) ==
  IF data.buffer.size = BufferSize THEN Contents(push(data.buffer, stamp))
  ELSE data.arrived \cup {stamp}

\* The subscription's callback: set_pending_cloud() and the integration.
receive_points(data, stamp) ==
  integrate_pending_perceptions(
    [data EXCEPT !.buffer = push(@, stamp), !.arrived = Arrived(data, stamp), !.expired = FALSE])

-----------------------------------------------------------------------------
(* The callbacks of the handlers.                                          *)

Received(i, data) ==
  /\ handler_list' = [handler_list EXCEPT ![i].data = data]
  /\ UNCHANGED <<sensors_node, data_states, data_age_reported, shown, no_data, stale,
                 now, tf_last>>

receive(i, stamp) ==
  LET data == handler_list[i].data IN
  IF handler_list[i].sensor \in Points
  THEN Received(i, receive_points(data, stamp))
  ELSE Received(i, [data EXCEPT !.stamp = stamp, !.valid = TRUE, !.expired = FALSE])

\* An image that cannot be decoded.
mark_invalid(i, stamp) ==
  /\ handler_list[i].sensor \notin Points
  /\ Received(i, [handler_list[i].data EXCEPT !.stamp = stamp, !.valid = FALSE])

-----------------------------------------------------------------------------
(* The lifecycle of SensorsNode.                                           *)

Handler(sensor) == [sensor |-> sensor, data |-> NoPerception]

\* Mutant: the next age check does not report unless something changes.
on_configureReported ==
  /\ sensors_node = "unconfigured"
  /\ \E list \in Configurable : \E loaded \in 0 .. Len(list) :
       /\ Len(handler_list) + loaded <= MaxHandlers
       /\ handler_list' = handler_list \o [i \in 1 .. loaded |-> Handler(list[i])]
       /\ IF loaded = Len(list)
          THEN /\ sensors_node' = "inactive"
               /\ data_states' = [i \in DOMAIN handler_list' |-> "NO_DATA"]
               /\ UNCHANGED data_age_reported
          ELSE UNCHANGED <<sensors_node, data_states, data_age_reported>>
  /\ UNCHANGED <<shown, no_data, stale, now, tf_last>>

\* A sensor without a plugin, or whose plugin does not load, ends it: what was
\* loaded before it stays in the list.
on_configure ==
  /\ sensors_node = "unconfigured"
  /\ \E list \in Configurable : \E loaded \in 0 .. Len(list) :
       /\ Len(handler_list) + loaded <= MaxHandlers
       /\ handler_list' = handler_list \o [i \in 1 .. loaded |-> Handler(list[i])]
       /\ IF loaded = Len(list)
          THEN /\ sensors_node' = "inactive"
               /\ data_states' = [i \in DOMAIN handler_list' |-> "NO_DATA"]
               /\ data_age_reported' = FALSE
          ELSE UNCHANGED <<sensors_node, data_states, data_age_reported>>
  /\ UNCHANGED <<shown, no_data, stale, now, tf_last>>

release_handlers ==
  /\ handler_list' = << >> /\ shown' = {}
  /\ UNCHANGED <<data_states, data_age_reported, no_data, stale, now, tf_last>>

\* on_cleanup(), on_shutdown(); on_error() after a handler that throws in
\* initialize().
cleanup ==
  /\ sensors_node \in {"inactive", "unconfigured"}
  /\ sensors_node' = "unconfigured"
  /\ release_handlers

activate_or_deactivate ==
  /\ \/ sensors_node = "inactive" /\ sensors_node' = "active"
     \/ sensors_node = "active" /\ sensors_node' = "inactive"
  /\ UNCHANGED <<handler_list, data_states, data_age_reported, shown, no_data, stale,
                 now, tf_last>>

-----------------------------------------------------------------------------
(* The RT cycle.                                                           *)

expired(data) == now - data.stamp > ForgetTime

\* A handler that does not expose its perception is not checked.
AgeChecked(i) ==
  LET data == handler_list[i].data IN
  IF handler_list[i].sensor \in Opaque THEN [data |-> data, state |-> data_states[i]]
  ELSE IF data.stamp = 0 /\ ~data.valid THEN [data |-> data, state |-> "NO_DATA"]
  ELSE IF expired(data)
       THEN [data |-> [data EXCEPT !.valid = FALSE, !.expired = TRUE], state |-> "STALE"]
  ELSE [data |-> data, state |-> IF data.valid THEN "FRESH" ELSE "STALE"]

SensorsIn(states, state) == {handler_list[i].sensor : i \in {j \in DOMAIN states : states[j] = state}}

\* Each handler puts its perception in NavState and says whether it has new
\* data; then their ages are checked, and reported when anything changed.
cycle_handlers ==
  /\ sensors_node = "active"
  /\ shown' = {handler_list[i].sensor : i \in DOMAIN handler_list}
  /\ handler_list' = [i \in DOMAIN handler_list |->
       [handler_list[i] EXCEPT !.data = AgeChecked(i).data]]
  /\ data_states' = [i \in DOMAIN handler_list |-> AgeChecked(i).state]
  /\ data_age_reported' = TRUE
  /\ IF ~data_age_reported \/ data_states' # data_states
     THEN /\ no_data' = SensorsIn(data_states', "NO_DATA")
          /\ stale' = SensorsIn(data_states', "STALE")
     ELSE UNCHANGED <<no_data, stale>>
  /\ UNCHANGED <<sensors_node, now, tf_last>>

-----------------------------------------------------------------------------
(* The other thread and the rest of the system.                            *)

\* The point perceptions that NavState shows: of the handlers of one sensor,
\* the last one.
Visible ==
  {i \in DOMAIN handler_list :
     /\ handler_list[i].sensor \in Points \cap shown
     /\ \A j \in i + 1 .. Len(handler_list) : handler_list[j].sensor # handler_list[i].sensor}

\* A view has the points of those that are valid when it is built.
InView == {i \in Visible : handler_list[i].data.valid}

\* A view over all of them is built and fused: each one integrates.
fuse ==
  /\ Visible # {}
  /\ handler_list' = [i \in DOMAIN handler_list |->
       IF i \in Visible
       THEN [handler_list[i] EXCEPT !.data = integrate_pending_perceptions(@)]
       ELSE handler_list[i]]
  /\ UNCHANGED <<sensors_node, data_states, data_age_reported, shown, no_data, stale,
                 now, tf_last>>

\* Time passes, TF learns about later stamps and forgets the earliest.
advance ==
  /\ \/ now < MaxStamp /\ now' = now + 1 /\ UNCHANGED tf_last
     \/ tf_last < now /\ tf_last' = tf_last + 1 /\ UNCHANGED now
  /\ UNCHANGED <<sensors_node, handler_list, data_states, data_age_reported, shown,
                 no_data, stale>>

SensorsNext ==
  \/ \E i \in DOMAIN handler_list, stamp \in 1 .. now : receive(i, stamp) \/ mark_invalid(i, stamp)
  \/ on_configure \/ cleanup \/ activate_or_deactivate
  \/ cycle_handlers
  \/ fuse
  \/ advance

SensorsSpec == SensorsInit /\ [][SensorsNext]_sensorsVars

-----------------------------------------------------------------------------
(* After each RT cycle no perception that is too old is valid, and the     *)
(* diagnostics name exactly the sensors without usable data, although they *)
(* are written only when something changed, and whatever configuration,    *)
(* failed or not, came before (check_data_age(), report_data_age()).       *)
StaleIsReported ==
  [][cycle_handlers =>
       LET exposed == {i \in DOMAIN handler_list' : handler_list'[i].sensor \notin Opaque}
           hidden == {i \in DOMAIN handler_list' : handler_list'[i].sensor \in Opaque}
           never == {i \in exposed : handler_list'[i].data.stamp = 0}
           unusable == {i \in exposed \ never : ~handler_list'[i].data.valid}
           named(I) == {handler_list'[i].sensor : i \in I}
       IN /\ \A i \in exposed : handler_list'[i].data.valid => now - handler_list'[i].data.stamp <= ForgetTime
          /\ no_data' = named(never \cup hidden)
          /\ stale' = named(unusable)]_sensorsVars

ShowsNewest(data) ==
  /\ \A stamp \in data.arrived : has_tf(stamp) => stamp <= data.stamp
  /\ has_tf(data.stamp) \/ \A stamp \in data.arrived : stamp <= data.stamp

Integrates(i) ==
  \/ \E stamp \in 1 .. now : receive(i, stamp)
  \/ fuse /\ i \in Visible

\* Whenever a point perception integrates what is pending: of the clouds that
\* arrived, in any order, since the buffer last lost one for want of room, and of
\* those that were in it then, none that TF can transform is newer than the one
\* that is shown, and one that TF cannot transform is shown only if it is the
\* newest, although older ones were let go of (integrate_pending_perceptions()).
NewestUsable ==
  [][\A i \in DOMAIN handler_list \cap DOMAIN handler_list' :
       handler_list[i].sensor \in Points =>
         ShowsNewest(handler_list'[i].data) \/ ~Integrates(i)]_sensorsVars

\* Nothing uses data that the age check found too old until new data arrive
\* (the comment in check_data_age()).
ExpiredIsUnused ==
  [][fuse => \A i \in InView : ~handler_list[i].data.expired]_sensorsVars
=============================================================================
