--------------------------- MODULE PointCloudView --------------------------
(***************************************************************************)
(* easynav_sensors' PointPerceptionsOpsView: a thread builds a view over   *)
(* the point perceptions of NavState and applies filters, fusion, down-    *)
(* sampling, collapse and additions in any order, at once or when the      *)
(* points are taken out, while the real-time (RT) thread replaces and      *)
(* invalidates the perceptions under the view.                             *)
(*                                                                         *)
(* A point has two coordinates: x, which a transform shifts, and z, which  *)
(* is collapsed; bounds are the coordinates that they let through.  What a *)
(* thread sees of a cloud that is being replaced is the old or the new one *)
(* here: the code reads it without a lock.                                 *)
(***************************************************************************)
EXTENDS Integers, Sequences, FiniteSets

CONSTANTS Clouds,          \* what may be measured
          Offset,          \* of the frames: where they are
          Bounds,          \* of filters
          Resolution,      \* of downsampling
          Plane,           \* what z collapses to
          MaxPerceptions

ASSUME ViewAssumption ==
  /\ Clouds \subseteq Seq([x : Int, z : Int])
  /\ \A frame \in DOMAIN Offset : Offset[frame] \in Int
  /\ Resolution \in Nat \ {0} /\ Plane \in Int /\ MaxPerceptions \in Nat \ {0}

VARIABLES perceptions,     \* of the view; the first is shared unless it is a copy
          view

viewVars == <<perceptions, view>>

\* "given" and "last" are history variables, one for each perception: it had
\* data at the last fusion; the last filter, if it is one that holds for these
\* points: kept for later or not, and the frame in which it was given.
NoView ==
  [built |-> FALSE, copied |-> FALSE, owned |-> FALSE, indices |-> << >>,
   has_target_frame |-> FALSE, target_frame |-> "", tf |-> << >>, post_filter |-> {},
   collapse_z |-> FALSE, given |-> << >>, last |-> << >>]

ViewTypeOK ==
  /\ Len(perceptions) \in 1 .. MaxPerceptions
  /\ \A i \in DOMAIN perceptions :
       /\ perceptions[i].valid \in BOOLEAN /\ perceptions[i].frame \in DOMAIN Offset
       /\ \A k \in DOMAIN perceptions[i].cloud : perceptions[i].cloud[k] \in [x : Int, z : Int]
  /\ view.built =>
       /\ DOMAIN view.indices = DOMAIN perceptions /\ DOMAIN view.tf = DOMAIN perceptions
       /\ DOMAIN view.given = DOMAIN perceptions /\ DOMAIN view.last = DOMAIN perceptions
       /\ \A i \in DOMAIN view.tf : view.tf[i] \in {"none", "valid", "failed"}
  /\ view.has_target_frame => view.target_frame \in DOMAIN Offset
  /\ view.post_filter \subseteq Bounds /\ Cardinality(view.post_filter) <= 1

ViewInit ==
  /\ \E frame \in DOMAIN Offset :
       perceptions = <<[valid |-> FALSE, frame |-> frame, cloud |-> << >>]>>
  /\ view = NoView

-----------------------------------------------------------------------------
(* What the view shows.                                                    *)

has_data(perception) == perception.valid /\ perception.cloud # << >>

\* A point of a perception, in another frame.
Shifted(i, frame, point) ==
  [point EXCEPT !.x = @ + Offset[perceptions[i].frame] - Offset[frame]]

\* The transform is applied where there is one.
Moved(i, point) ==
  IF view.has_target_frame /\ view.tf[i] = "valid" THEN Shifted(i, view.target_frame, point)
  ELSE point

Within(point, bounds) == point.x \in bounds.x /\ point.z \in bounds.z

\* The points of a perception that as_points() gives: an index beyond the end
\* of the cloud is skipped.
as_points(i) ==
  {k \in view.indices[i] \cap DOMAIN perceptions[i].cloud :
     /\ has_data(perceptions[i])
     /\ ~(view.has_target_frame /\ view.tf[i] = "failed")
     /\ \A bounds \in view.post_filter : Within(Moved(i, perceptions[i].cloud[k]), bounds)}

-----------------------------------------------------------------------------
(* The operations of the view.                                             *)

Operation(new) == view.built /\ view' = new

\* Over a container, moved in or not, of shared perceptions, or over a copy.
build ==
  /\ ~view.built
  /\ \E copied, owned \in BOOLEAN :
       /\ copied => owned
       /\ view' = [NoView EXCEPT !.built = TRUE, !.copied = copied, !.owned = owned,
            !.indices = [i \in DOMAIN perceptions |->
               IF has_data(perceptions[i]) THEN DOMAIN perceptions[i].cloud ELSE {}],
            !.tf = [i \in DOMAIN perceptions |-> "none"],
            !.given = [i \in DOMAIN perceptions |-> FALSE],
            !.last = [i \in DOMAIN perceptions |-> {}]]
  /\ UNCHANGED perceptions

\* The view is gone; the perceptions that it added with it.
drop ==
  /\ view.built
  /\ perceptions' = SubSeq(perceptions, 1, 1)
  /\ view' = NoView

\* Mutant: a perception without its transform is filtered where it is.
left_outUnmoved(i) == ~has_data(perceptions[i])

\* Without its transform the bounds cannot be checked.
left_out(i) ==
  ~has_data(perceptions[i]) \/ (view.has_target_frame /\ view.tf[i] = "failed")

\* History: what was added after the fusion, or had no data, is filtered where
\* it is.
Applied(bounds, kept) ==
  [i \in DOMAIN perceptions |->
     IF view.has_target_frame /\ ~kept /\ ~view.given[i] THEN {}
     ELSE {[kept |-> kept, bounds |-> bounds,
            in |-> IF view.has_target_frame THEN view.target_frame ELSE perceptions[i].frame]}]

\* Other points: a filter that was kept will apply to them.
Kept(filters) == {f \in filters : f.kept}

\* Kept for as_points() after a fusion, unless asked otherwise; at once before.
filter(bounds, lazy_post_fuse) ==
  /\ IF view.has_target_frame /\ lazy_post_fuse
     THEN Operation([view EXCEPT !.post_filter = {bounds}, !.last = Applied(bounds, TRUE)])
     ELSE Operation([view EXCEPT
            !.post_filter = IF lazy_post_fuse THEN @ ELSE {},
            !.indices = [i \in DOMAIN perceptions |->
               IF left_out(i) THEN {}
               ELSE {k \in view.indices[i] \cap DOMAIN perceptions[i].cloud :
                       Within(Moved(i, perceptions[i].cloud[k]), bounds)}],
            !.last = Applied(bounds, FALSE)])
  /\ UNCHANGED perceptions

\* The voxel of a point in the frame of its sensor.
Voxel(point) ==
  [x |-> point.x \div Resolution, z |-> (IF view.collapse_z THEN Plane ELSE point.z) \div Resolution]

\* The first point of each voxel; a single index is kept whatever it is.
downsample ==
  /\ Operation([view EXCEPT !.indices =
       [i \in DOMAIN perceptions |->
          IF ~has_data(perceptions[i]) \/ Cardinality(view.indices[i]) <= 1 THEN view.indices[i]
          ELSE LET cloud == perceptions[i].cloud
                   there == view.indices[i] \cap DOMAIN cloud
               IN {k \in there : \A j \in there : Voxel(cloud[j]) = Voxel(cloud[k]) => k <= j}]])
  /\ UNCHANGED perceptions

collapse_later ==
  /\ Operation([view EXCEPT !.collapse_z = TRUE])
  /\ UNCHANGED perceptions

\* The points themselves, those that others see too.  A view that does not own
\* its container ignores it.
collapse_now ==
  /\ view.owned
  /\ perceptions' = [i \in DOMAIN perceptions |->
       IF has_data(perceptions[i])
       THEN [perceptions[i] EXCEPT !.cloud = [k \in DOMAIN @ |-> [@[k] EXCEPT !.z = Plane]]]
       ELSE perceptions[i]]
  /\ Operation([view EXCEPT !.collapse_z = FALSE, !.last = [i \in DOMAIN @ |-> Kept(@[i])]])

\* What integrate_pending_perceptions() may do: show another cloud or not.
Integrated(perception) ==
  {perception} \cup {[perception EXCEPT !.valid = TRUE, !.cloud = cloud] : cloud \in Clouds}

\* Into any frame, as often as wanted; a filter that was kept stays, and so do
\* the indices.  TF knows some frames.  Perceptions without data, and those in
\* the target frame, need no transform.  The one that is shared or copied
\* integrates; those that were added have nothing to integrate.
fuse_into(target, shown_now, known_frames) ==
  LET fused == [perceptions EXCEPT ![1] = shown_now]
  IN /\ perceptions' = fused
     /\ Operation([view EXCEPT !.has_target_frame = TRUE, !.target_frame = target,
          !.tf = [i \in DOMAIN fused |->
             IF ~has_data(fused[i]) \/ fused[i].frame = target THEN "none"
             ELSE IF fused[i].frame \in known_frames THEN "valid" ELSE "failed"],
          !.given = [i \in DOMAIN fused |-> has_data(fused[i])],
          !.last = [i \in DOMAIN fused |->
             IF fused[i] = perceptions[i] THEN @[i] ELSE Kept(@[i])]])

fuse_view ==
  \E target \in DOMAIN Offset : \E shown_now \in Integrated(perceptions[1]),
     known_frames \in SUBSET (DOMAIN Offset \ {target}) : fuse_into(target, shown_now, known_frames)

\* Only a view that owns its container.  What is added after a fusion is taken to
\* be in the target frame.
add ==
  /\ view.owned /\ Len(perceptions) < MaxPerceptions
  /\ \E frame \in DOMAIN Offset, cloud \in Clouds :
       /\ perceptions' = Append(perceptions, [valid |-> TRUE, frame |-> frame, cloud |-> cloud])
       /\ Operation([view EXCEPT !.indices = Append(@, DOMAIN cloud), !.tf = Append(@, "none"),
                                 !.given = Append(@, FALSE), !.last = Append(@, {})])

-----------------------------------------------------------------------------
(* The RT thread.                                                          *)

\* A message arrives, or the perception gets too old.
rt_thread ==
  /\ ~view.copied
  /\ \E cloud \in Clouds :
       perceptions' \in {[perceptions EXCEPT ![1].valid = FALSE],
                         [perceptions EXCEPT ![1].valid = TRUE, ![1].cloud = cloud]}
  /\ view' = IF view.built /\ perceptions'[1].cloud # perceptions[1].cloud
             THEN [view EXCEPT !.last[1] = Kept(@)] ELSE view

ViewNext ==
  \/ build \/ drop
  \/ \E bounds \in Bounds, lazy_post_fuse \in BOOLEAN : filter(bounds, lazy_post_fuse)
  \/ downsample \/ collapse_later \/ collapse_now
  \/ fuse_view \/ add
  \/ rt_thread

ViewSpec == ViewInit /\ [][ViewNext]_viewVars

-----------------------------------------------------------------------------
(* In whatever order a view was built up, and into however many frames it  *)
(* is fused: each point of a perception that had data at the last fusion   *)
(* is in its target frame, or was transformed to it.  Each lies within the *)
(* bounds of the last filter: one that was applied at once holds in the    *)
(* frame in which it was given, until the cloud is replaced, even when the *)
(* view is fused into another frame later; one that was kept holds in the  *)
(* target frame of the last fusion (filter(), fuse(), add(), as_points()). *)
InFrameAndBounds ==
  view.built =>
    \A i \in DOMAIN perceptions : \A k \in as_points(i) :
      LET point == perceptions[i].cloud[k] IN
      /\ view.given[i] => perceptions[i].frame = view.target_frame \/ view.tf[i] = "valid"
      /\ \A f \in view.last[i] :
           IF f.kept THEN view.given[i] => Within(Shifted(i, view.target_frame, point), f.bounds)
           ELSE Within(Shifted(i, f.in, point), f.bounds)
=============================================================================
