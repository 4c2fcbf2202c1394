--------------------------- MODULE TransformBuffer -------------------------
(***************************************************************************)
(* easynav_common's RTTFBuffer: tf2's buffer, which answers a lookup a     *)
(* little ahead of the latest transform by going on with the motion of     *)
(* the last extrapolation window.  It asks tf2 several times, while tf2's  *)
(* listener adds transforms and tf2 forgets old ones, so that a call is a  *)
(* sequence of steps.                                                      *)
(*                                                                         *)
(* Frames form a chain, each one named by the edge to its parent, on one   *)
(* axis: the position of a frame in its parent is an integer, a transform  *)
(* is the difference of two positions, and the constant twist a constant   *)
(* speed.  tf2 has a transform for every stamp from the first to the last  *)
(* it knows of an edge.  Time 0 asks for the latest.                       *)
(***************************************************************************)
EXTENDS Integers, FiniteSets

CONSTANTS Frames,                \* but the root, in the order of the chain: 1 .. n
          Legs,                  \* what is looked up
          Fixed,                 \* those whose transform is static
          Motions,               \* what they do: frame -> stamp -> position
          LastStamp, Cache,      \* of tf2
          Extrapolations,        \* max_future_extrapolation
          Window                 \* extrapolation_window

ASSUME TransformAssumption ==
  /\ IsFiniteSet(Frames) /\ Frames = 1 .. Cardinality(Frames)
  /\ Fixed \subseteq Frames
  /\ \A leg \in Legs : leg.target \in Frames \cup {0} /\ leg.source \in Frames \cup {0}
                      /\ leg.time \in 0 .. LastStamp
  /\ Motions \subseteq [Frames -> [1 .. LastStamp -> Int]]
  /\ \A m \in Motions, f \in Fixed, s \in 1 .. LastStamp : m[f][s] = m[f][1]
  /\ LastStamp \in Nat \ {0} /\ Cache \in Nat /\ Window \in Nat \ {0}
  /\ Extrapolations \subseteq Int

VARIABLES motion, known,                    \* the motion; the last stamp tf2 has of each frame
          max_future_extrapolation, lookup  \* the call of the thread that looks something up

transformVars == <<motion, known, max_future_extrapolation, lookup>>

Times == 0 .. LastStamp

\* A leg is what is asked: target, source and time.  A plain lookup has one leg;
\* with a fixed frame, there are two.
\* "at" is the stamp of the latest transform, when the step before found it.
NoLookup == [op |-> "none", legs |-> {}, step |-> "none", at |-> 0, position |-> 0, stamp |-> 0]

TransformTypeOK ==
  /\ motion \in Motions
  /\ known \in [Frames -> Times]
  /\ max_future_extrapolation \in Nat
  /\ lookup.op \in {"none", "lookup", "timed", "fixed"}
  /\ lookup.legs \subseteq Legs \X {1, 2}
  /\ lookup.step \in {"none", "tf2", "latest", "history", "wait", "answered", "failed"}
  /\ lookup.at \in Times /\ lookup.position \in Int /\ lookup.stamp \in Times

\* A negative maximum is zero (set_max_future_extrapolation()).
TransformInit ==
  /\ motion \in Motions
  /\ known = [f \in Frames |-> 0]
  /\ \E max \in Extrapolations : max_future_extrapolation = IF max > 0 THEN max ELSE 0
  /\ lookup = NoLookup

-----------------------------------------------------------------------------
(* tf2.                                                                    *)

\* The edges between two frames of the chain; those that move.
Between(leg) ==
  {f \in Frames : (f <= leg.source /\ f > leg.target) \/ (f <= leg.target /\ f > leg.source)}

Moving(leg) == Between(leg) \ Fixed

Least(S) == CHOOSE x \in S : \A y \in S : x <= y

\* The latest time that all the edges have; 0 for a static chain.
latest_common(leg) == IF Moving(leg) = {} THEN 0 ELSE Least({known[f] : f \in Moving(leg)})

first_known(f) == IF known[f] > Cache THEN known[f] - Cache ELSE 1

Along(leg, time) ==
  LET sum[n \in 0 .. Cardinality(Frames)] ==
        IF n = 0 THEN 0
        ELSE sum[n - 1] + (IF n \in Between(leg) THEN motion[n][time] ELSE 0)
  IN IF leg.source >= leg.target THEN sum[Cardinality(Frames)] ELSE -sum[Cardinality(Frames)]

\* tf2 has no transform of an edge; it has some, but not of that time.
connected(leg) == \A f \in Moving(leg) : known[f] > 0

covered(leg, time) ==
  \/ time = 0
  \/ \A f \in Moving(leg) : time \in first_known(f) .. known[f]

tf2_has(leg, time) == connected(leg) /\ covered(leg, time)

\* At time 0, the latest; a static chain has the same transform at any time.
When(leg, time) ==
  IF Moving(leg) = {} THEN 1 ELSE IF time = 0 THEN latest_common(leg) ELSE time

tf2_lookup(leg, time) == Along(leg, When(leg, time))

-----------------------------------------------------------------------------
(* RTTFBuffer: the steps of a call.  The legs of a call are numbered pairs; *)
(* those that have been answered are gone.                                 *)

Call(new) == lookup' = new /\ UNCHANGED <<motion, known, max_future_extrapolation>>

First(legs) == CHOOSE pair \in legs : \A other \in legs : pair[2] <= other[2]
Asked == First(lookup.legs)[1]

\* canTransform() takes the same steps, and says only whether there is an answer.
lookupTransform ==
  /\ lookup.op = "none"
  /\ \/ \E leg \in Legs, op \in {"lookup", "timed"} :
          Call([NoLookup EXCEPT !.op = op, !.legs = {<<leg, 1>>}, !.step = "tf2"])
     \/ \E first, second \in Legs :
          /\ first.source = second.target
          /\ Call([NoLookup EXCEPT !.op = "fixed", !.legs = {<<first, 1>>, <<second, 2>>},
                                   !.step = "tf2"])

StampOf(leg) == IF leg.time = 0 THEN latest_common(leg) ELSE leg.time

\* A leg has its answer, and tf2's answer over a fixed frame is that of both
\* legs; the stamp is that of the first one.
Answer(position, stamp) ==
  LET rest == lookup.legs \ {First(lookup.legs)}
  IN Call([lookup EXCEPT !.legs = rest, !.position = @ + position,
                         !.stamp = IF lookup.op = "fixed" /\ Cardinality(rest) = 0 THEN @ ELSE stamp,
                         !.step = IF rest = {} THEN "answered" ELSE "tf2"])

\* A lookup that can wait goes back to tf2 for the timeout.
NotAnswered ==
  Call([lookup EXCEPT !.step = IF lookup.op = "timed" THEN "wait" ELSE "failed"])

\* tf2 answers, or something has to be done about the time; anything else ends
\* it.  With a timeout, canTransform() is asked, and any reason will do.
ask_tf2 ==
  /\ lookup.step = "tf2"
  /\ IF tf2_has(Asked, Asked.time) THEN Answer(tf2_lookup(Asked, Asked.time), StampOf(Asked))
     ELSE IF connected(Asked) \/ lookup.op = "timed" THEN Call([lookup EXCEPT !.step = "latest"])
     ELSE NotAnswered

\* extrapolate(): how far ahead of the latest transform.
find_latest ==
  /\ lookup.step = "latest"
  /\ IF /\ max_future_extrapolation > 0
        /\ tf2_has(Asked, 0)
        /\ latest_common(Asked) # 0
        /\ Asked.time - latest_common(Asked) \in 1 .. max_future_extrapolation
     THEN Call([lookup EXCEPT !.step = "history", !.at = latest_common(Asked)])
     ELSE NotAnswered

\* Mutant: the motion of the window is taken for that of a unit of time.
predictedPerUnit(last, before, ahead) == last + (last - before) * ahead

\* The motion of the window, for as long as the time is ahead; it divides.
predicted(last, before, ahead) == last + ((last - before) * ahead) \div Window

\* extrapolate(): one window before the latest.  tf2 takes time 0 for the
\* latest here too.
extrapolate ==
  /\ lookup.step = "history"
  /\ LET last == tf2_lookup(Asked, lookup.at)
         before == lookup.at - Window
     IN IF before >= 0 /\ tf2_has(Asked, before)
        THEN Answer(predicted(last, tf2_lookup(Asked, before), Asked.time - lookup.at), Asked.time)
        ELSE NotAnswered

\* The transform arrives in time or not.
wait_for_tf2 ==
  /\ lookup.step = "wait"
  /\ \/ tf2_has(Asked, Asked.time) /\ Answer(tf2_lookup(Asked, Asked.time), StampOf(Asked))
     \/ Call([lookup EXCEPT !.step = "failed"])

done ==
  /\ lookup.step \in {"answered", "failed"}
  /\ Call(NoLookup)

\* The listener hears of a frame.
hear ==
  /\ \E f \in Frames \ Fixed :
       known[f] < LastStamp /\ known' = [known EXCEPT ![f] = @ + 1]
  /\ UNCHANGED <<motion, max_future_extrapolation, lookup>>

TransformNext ==
  \/ lookupTransform
  \/ ask_tf2 \/ find_latest \/ extrapolate \/ wait_for_tf2
  \/ done
  \/ hear

TransformSpec == TransformInit /\ [][TransformNext]_transformVars

-----------------------------------------------------------------------------
Speed(leg, s) == Along(leg, s) - Along(leg, s - 1)

\* One speed from the beginning of the window to the time that is asked.
steady(leg, latest) ==
  \A s \in latest - Window + 1 .. leg.time : Speed(leg, s) = Speed(leg, leg.time)

\* Whatever the listener hears and tf2 forgets between the steps of a lookup, an
\* answer of a given time is where the frame was then; ahead of tf2, it
\* is where the frame will be, if it goes on as during the window; and it is never
\* further ahead than the maximum (extrapolate()).  Not at the one stamp
\* that is a window after time 0.
AnswersAreTrue ==
  [][\A leg \in Legs :
       /\ lookup.step \in {"tf2", "history", "wait"} /\ leg = Asked
       /\ leg.time > 0 /\ Moving(leg) # {}
       /\ lookup'.legs # lookup.legs
       => /\ leg.time <= latest_common(leg) + max_future_extrapolation
          /\ \/ lookup.step = "history" /\ (lookup.at = Window \/ ~steady(leg, lookup.at))
             \/ lookup'.position - lookup.position = Along(leg, leg.time)]_transformVars
=============================================================================
