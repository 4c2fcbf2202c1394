-------------------------- MODULE PerceptionProofs -------------------------
(***************************************************************************)
(* For any clouds, frames, filters, sensors and sizes of buffers: what a   *)
(* view over the perceptions gives is within its filters and in its frame, *)
(* a perception shows the newest cloud that can be used, and the age check *)
(* reports what is too old.                                                *)
(***************************************************************************)
EXTENDS PointCloudView, SensorData, BufferProofs, FiniteSetTheorems

-----------------------------------------------------------------------------
(* PointCloudView: types.                                                  *)

APoint == [x : Int, z : Int]
Shown == [valid : BOOLEAN, frame : DOMAIN Offset, cloud : Seq(APoint)]
LastFilter == SUBSET [kept : BOOLEAN, bounds : Bounds, in : DOMAIN Offset]
Transforms == {"none", "valid", "failed"}
Views ==
  [built : BOOLEAN, copied : BOOLEAN, owned : BOOLEAN, indices : Seq(SUBSET Nat),
   has_target_frame : BOOLEAN, target_frame : DOMAIN Offset \cup {""},
   tf : Seq(Transforms), post_filter : SUBSET Bounds,
   collapse_z : BOOLEAN, given : Seq(BOOLEAN), last : Seq(LastFilter)]

\* One value of each kind for every perception.
Aligned(v, n) ==
  Len(v.indices) = n /\ Len(v.tf) = n /\ Len(v.given) = n /\ Len(v.last) = n

Single(S) == Cardinality(S) <= 1

ViewTyped ==
  /\ perceptions \in Seq(Shown) /\ Len(perceptions) \in 1 .. MaxPerceptions
  /\ view \in Views
  /\ view.built => Aligned(view, Len(perceptions))
  /\ view.has_target_frame => view.target_frame \in DOMAIN Offset
  /\ Single(view.post_filter)

\* The parameters of the proofs below: what the assumption says of them.
LEMMA ViewConstants ==
  /\ Clouds \subseteq Seq(APoint)
  /\ \A frame \in DOMAIN Offset : Offset[frame] \in Int
  /\ Resolution \in Nat \ {0} /\ Plane \in Int /\ MaxPerceptions \in Nat \ {0}
BY ViewAssumption DEF APoint

LEMMA SingleSets == Single({}) /\ \A e : Single({e})
<1>1. Cardinality({}) = 0 /\ \A e : Cardinality({e}) = 1
  BY FS_EmptySet, FS_Singleton
<1>2. 0 <= 1 /\ 1 <= 1
  OBVIOUS
<1> QED BY <1>1, <1>2, Zenon DEF Single

-----------------------------------------------------------------------------
(* The fields of a view.                                                   *)

LEMMA WithIndices ==
  ASSUME NEW v \in Views, NEW s \in Seq(SUBSET Nat)
  PROVE  [v EXCEPT !.indices = s] \in Views
BY DEF Views

LEMMA WithTf ==
  ASSUME NEW v \in Views, NEW s \in Seq(Transforms)
  PROVE  [v EXCEPT !.tf = s] \in Views
BY DEF Views

LEMMA WithGiven ==
  ASSUME NEW v \in Views, NEW s \in Seq(BOOLEAN)
  PROVE  [v EXCEPT !.given = s] \in Views
BY DEF Views

LEMMA WithLast ==
  ASSUME NEW v \in Views, NEW s \in Seq(LastFilter)
  PROVE  [v EXCEPT !.last = s] \in Views
BY DEF Views

LEMMA WithFilter ==
  ASSUME NEW v \in Views, NEW s \in SUBSET Bounds
  PROVE  [v EXCEPT !.post_filter = s] \in Views
BY DEF Views

LEMMA NoViewTyped == NoView \in Views
<1>1. << >> \in Seq(SUBSET Nat) /\ << >> \in Seq(Transforms) /\ << >> \in Seq(BOOLEAN)
      /\ << >> \in Seq(LastFilter)
  OBVIOUS
<1> QED BY <1>1 DEF NoView, Views

LEMMA FiltersTyped ==
  {} \in LastFilter /\ \A filters \in LastFilter : Kept(filters) \in LastFilter
BY DEF Kept, LastFilter

\* A value for each item of a sequence.
LEMMA ForEach ==
  ASSUME NEW S, NEW q \in Seq(S), NEW T, NEW f \in [DOMAIN q -> T]
  PROVE  f \in Seq(T) /\ Len(f) = Len(q) /\ DOMAIN f = 1 .. Len(q) /\ DOMAIN q = 1 .. Len(q)
<1>1. Len(q) \in Nat /\ DOMAIN q = 1 .. Len(q)
  OBVIOUS
<1>2. PICK n \in Nat : n = Len(q)
  BY <1>1
<1>3. f \in [1 .. n -> T]
  BY <1>1, <1>2
<1>4. f \in Seq(T) /\ Len(f) = n /\ DOMAIN f = 1 .. n
  BY <1>3
<1> QED BY <1>1, <1>2, <1>4

\* What the proofs need to know of a view that follows v.
Becomes(v, w, I, h, to, T, F, G, L) ==
  /\ w \in Views /\ w.built = v.built
  /\ w.indices = I /\ w.has_target_frame = h /\ w.target_frame = to
  /\ w.tf = T /\ w.post_filter = F
  /\ w.given = G /\ w.last = L

LEMMA NewFilter ==
  ASSUME NEW v \in Views, NEW F \in SUBSET Bounds, NEW L \in Seq(LastFilter)
  PROVE  \E w : /\ w = [v EXCEPT !.post_filter = F, !.last = L]
                /\ Becomes(v, w, v.indices, v.has_target_frame, v.target_frame, v.tf, F, v.given, L)
<1>1. PICK a \in Views : a = [v EXCEPT !.post_filter = F]
  BY WithFilter
<1>2. PICK w \in Views : w = [a EXCEPT !.last = L]
  BY WithLast
<1>3. w = [v EXCEPT !.post_filter = F, !.last = L]
  BY <1>1, <1>2
<1>4. w.last = L /\ w.post_filter = F /\ w.built = v.built /\ w.indices = v.indices
      /\ w.has_target_frame = v.has_target_frame /\ w.target_frame = v.target_frame
      /\ w.tf = v.tf /\ w.given = v.given
  BY <1>1, <1>2 DEF Views
<1> QED BY <1>3, <1>4 DEF Becomes

LEMMA NewFilterNow ==
  ASSUME NEW v \in Views, NEW F \in SUBSET Bounds, NEW I \in Seq(SUBSET Nat),
         NEW L \in Seq(LastFilter)
  PROVE  \E w : /\ w = [v EXCEPT !.post_filter = F, !.indices = I, !.last = L]
                /\ Becomes(v, w, I, v.has_target_frame, v.target_frame, v.tf, F, v.given, L)
<1>1. PICK a \in Views : a = [v EXCEPT !.post_filter = F]
  BY WithFilter
<1>2. PICK b \in Views : b = [a EXCEPT !.indices = I]
  BY WithIndices
<1>3. PICK w \in Views : w = [b EXCEPT !.last = L]
  BY WithLast
<1>4. w = [v EXCEPT !.post_filter = F, !.indices = I, !.last = L]
  BY <1>1, <1>2, <1>3
<1>5. w.last = L /\ w.post_filter = F /\ w.built = v.built /\ w.indices = I
      /\ w.has_target_frame = v.has_target_frame /\ w.target_frame = v.target_frame
      /\ w.tf = v.tf /\ w.given = v.given
  BY <1>1, <1>2, <1>3 DEF Views
<1> QED BY <1>4, <1>5 DEF Becomes

LEMMA NewFrames ==
  ASSUME NEW v \in Views, NEW target \in DOMAIN Offset, NEW T \in Seq(Transforms),
         NEW G \in Seq(BOOLEAN), NEW L \in Seq(LastFilter)
  PROVE  \E w : /\ w = [v EXCEPT !.has_target_frame = TRUE, !.target_frame = target, !.tf = T,
                              !.given = G, !.last = L]
                /\ Becomes(v, w, v.indices, TRUE, target, T, v.post_filter, G, L)
<1>1. PICK a \in Views : a = [v EXCEPT !.has_target_frame = TRUE, !.target_frame = target]
  <2>1. PICK u \in Views : u = [v EXCEPT !.has_target_frame = TRUE]
    BY DEF Views
  <2>2. [u EXCEPT !.target_frame = target] \in Views
    BY DEF Views
  <2> QED BY <2>1, <2>2
<1>2. PICK b \in Views : b = [a EXCEPT !.tf = T]
  BY WithTf
<1>3. PICK c \in Views : c = [b EXCEPT !.given = G]
  BY WithGiven
<1>4. PICK w \in Views : w = [c EXCEPT !.last = L]
  BY WithLast
<1>5. w = [v EXCEPT !.has_target_frame = TRUE, !.target_frame = target, !.tf = T,
                    !.given = G, !.last = L]
  BY <1>1, <1>2, <1>3, <1>4
<1>6. w.last = L /\ w.post_filter = v.post_filter /\ w.built = v.built
      /\ w.indices = v.indices /\ w.has_target_frame = TRUE /\ w.target_frame = target
      /\ w.tf = T /\ w.given = G
  BY <1>1, <1>2, <1>3, <1>4 DEF Views
<1> QED BY <1>5, <1>6 DEF Becomes

LEMMA NewPerception ==
  ASSUME NEW v \in Views, NEW I \in Seq(SUBSET Nat), NEW T \in Seq(Transforms),
         NEW G \in Seq(BOOLEAN), NEW L \in Seq(LastFilter)
  PROVE  \E w : /\ w = [v EXCEPT !.indices = I, !.tf = T, !.given = G, !.last = L]
                /\ Becomes(v, w, I, v.has_target_frame, v.target_frame, T, v.post_filter, G, L)
<1>1. PICK a \in Views : a = [v EXCEPT !.indices = I]
  BY WithIndices
<1>2. PICK b \in Views : b = [a EXCEPT !.tf = T]
  BY WithTf
<1>3. PICK c \in Views : c = [b EXCEPT !.given = G]
  BY WithGiven
<1>4. PICK w \in Views : w = [c EXCEPT !.last = L]
  BY WithLast
<1>5. w = [v EXCEPT !.indices = I, !.tf = T, !.given = G, !.last = L]
  BY <1>1, <1>2, <1>3, <1>4
<1>6. w.last = L /\ w.post_filter = v.post_filter /\ w.built = v.built
      /\ w.indices = I /\ w.has_target_frame = v.has_target_frame
      /\ w.target_frame = v.target_frame /\ w.tf = T /\ w.given = G
  BY <1>1, <1>2, <1>3, <1>4 DEF Views
<1> QED BY <1>5, <1>6 DEF Becomes

-----------------------------------------------------------------------------
(* The inductive invariant: what the last filter of each perception left.  *)

Far(p, frame, point) == [point EXCEPT !.x = @ + Offset[p.frame] - Offset[frame]]

There(p, I) == I \cap DOMAIN p.cloud

InFrame(p, I, f) == \A k \in There(p, I) : Within(Far(p, f.in, p.cloud[k]), f.bounds)

\* Perception p, with the indices I and the last filter l, under a view that
\* keeps the filter F for later.
Filtered(p, I, F, l) == \A f \in l : IF f.kept THEN F = {f.bounds} ELSE InFrame(p, I, f)

\* With data at the last fusion, it is where it has to be or has a transform.
Framed(p, h, to, t, g) == g => h /\ (t = "none" => p.frame = to)

Filters(v, P) ==
  /\ v.post_filter # {} => v.has_target_frame
  /\ \A i \in 1 .. Len(P) :
       /\ Filtered(P[i], v.indices[i], v.post_filter, v.last[i])
       /\ Framed(P[i], v.has_target_frame, v.target_frame, v.tf[i], v.given[i])

ViewInv == ViewTyped /\ (view.built => Filters(view, perceptions))

LEMMA Unfiltered ==
  ASSUME NEW p, NEW I, NEW F
  PROVE  Filtered(p, I, F, {})
BY DEF Filtered

\* Other points: what was kept for later is still there.
LEMMA KeptFiltered ==
  ASSUME NEW p, NEW q, NEW I, NEW F, NEW l, Filtered(p, I, F, l)
  PROVE  Filtered(q, I, F, Kept(l))
BY DEF Filtered, Kept

LEMMA FewerFiltered ==
  ASSUME NEW p, NEW I, NEW J, NEW F, NEW l, Filtered(p, I, F, l),
         There(p, J) \subseteq There(p, I)
  PROVE  Filtered(p, J, F, l)
BY DEF Filtered, InFrame

LEMMA SameFrame ==
  ASSUME NEW p \in Shown, NEW point \in APoint
  PROVE  Far(p, p.frame, point) = point
<1>1. Offset[p.frame] \in Int /\ point.x \in Int
  BY ViewConstants DEF APoint, Shown
<1>2. point.x + Offset[p.frame] - Offset[p.frame] = point.x
  BY <1>1
<1>3. Far(p, p.frame, point) = [point EXCEPT !.x = point.x]
  BY <1>2 DEF Far
<1> QED BY <1>3 DEF APoint

\* What ViewTyped says of one perception.
LEMMA OnePerception ==
  ASSUME ViewTyped, NEW i \in 1 .. Len(perceptions)
  PROVE  /\ perceptions[i] \in Shown /\ perceptions[i].cloud \in Seq(APoint)
         /\ DOMAIN perceptions = 1 .. Len(perceptions)
         /\ DOMAIN perceptions[i].cloud \in SUBSET Nat
         /\ \A k \in DOMAIN perceptions[i].cloud : perceptions[i].cloud[k] \in APoint
         /\ view.built => /\ view.indices[i] \in SUBSET Nat /\ view.tf[i] \in Transforms
                          /\ view.given[i] \in BOOLEAN /\ view.last[i] \in LastFilter
<1>1. perceptions \in Seq(Shown) /\ perceptions[i] \in Shown /\ view \in Views
  BY DEF ViewTyped
<1>2. perceptions[i].cloud \in Seq(APoint)
  BY <1>1 DEF Shown
<1>3. PICK c \in Seq(APoint) : c = perceptions[i].cloud
  BY <1>2
<1>4. DOMAIN c \in SUBSET Nat /\ \A k \in DOMAIN c : c[k] \in APoint
  BY <1>3
<1>5. ASSUME view.built
      PROVE  /\ view.indices[i] \in SUBSET Nat /\ view.tf[i] \in Transforms
             /\ view.given[i] \in BOOLEAN /\ view.last[i] \in LastFilter
  <2>1. Aligned(view, Len(perceptions))
    BY <1>5 DEF ViewTyped
  <2>2. /\ view.indices \in Seq(SUBSET Nat) /\ view.tf \in Seq(Transforms)
        /\ view.given \in Seq(BOOLEAN) /\ view.last \in Seq(LastFilter)
    BY <1>1 DEF Views
  <2> QED BY <2>1, <2>2, ElementOfSeq DEF Aligned
<1> QED BY <1>1, <1>2, <1>3, <1>4, <1>5

\* The invariant after a step, from one perception at a time.
LEMMA NextInv ==
  ASSUME ViewTyped',
         view'.post_filter # {} => view'.has_target_frame,
         ASSUME NEW i \in 1 .. Len(perceptions')
         PROVE  /\ Filtered(perceptions'[i], view'.indices[i], view'.post_filter, view'.last[i])
                /\ Framed(perceptions'[i], view'.has_target_frame, view'.target_frame,
                          view'.tf[i], view'.given[i])
  PROVE  ViewInv'
BY DEF ViewInv, Filters

\* A view over the same perceptions.
LEMMA NextTyped ==
  ASSUME ViewTyped, view.built, UNCHANGED perceptions,
         NEW I \in Seq(SUBSET Nat), NEW h, NEW to, h => to \in DOMAIN Offset,
         NEW T \in Seq(Transforms), NEW F, NEW G \in Seq(BOOLEAN),
         NEW L \in Seq(LastFilter), Becomes(view, view', I, h, to, T, F, G, L), Single(F),
         Len(I) = Len(perceptions), Len(T) = Len(perceptions),
         Len(G) = Len(perceptions), Len(L) = Len(perceptions)
  PROVE  ViewTyped'
<1>1. /\ view' \in Views /\ Aligned(view', Len(perceptions)) /\ view'.post_filter = F
      /\ (view'.has_target_frame => view'.target_frame \in DOMAIN Offset)
  BY DEF Becomes, Aligned
<1>2. Single(view'.post_filter)
  BY <1>1, Zenon
<1>3. perceptions' = perceptions
  OBVIOUS
<1>4. perceptions \in Seq(Shown) /\ Len(perceptions) \in 1 .. MaxPerceptions
  BY DEF ViewTyped
<1> QED BY <1>1, <1>2, <1>3, <1>4, Zenon DEF ViewTyped

-----------------------------------------------------------------------------
(* One action at a time.                                                   *)

LEMMA build_Inv == ViewInv /\ build => ViewInv'
<1> SUFFICES ASSUME ViewInv, build PROVE ViewInv'
  OBVIOUS
<1>1. ViewTyped /\ perceptions \in Seq(Shown) /\ perceptions' = perceptions
      /\ Len(perceptions) \in 1 .. MaxPerceptions
  BY DEF ViewInv, ViewTyped, build
<1>2. PICK I, T, G, L :
        /\ I = [i \in DOMAIN perceptions |->
                 IF has_data(perceptions[i]) THEN DOMAIN perceptions[i].cloud ELSE {}]
        /\ T = [i \in DOMAIN perceptions |-> "none"]
        /\ G = [i \in DOMAIN perceptions |-> FALSE]
        /\ L = [i \in DOMAIN perceptions |-> {}]
  OBVIOUS
<1>3. /\ I \in Seq(SUBSET Nat) /\ Len(I) = Len(perceptions)
      /\ T \in Seq(Transforms) /\ Len(T) = Len(perceptions)
      /\ G \in Seq(BOOLEAN) /\ Len(G) = Len(perceptions)
      /\ L \in Seq(LastFilter) /\ Len(L) = Len(perceptions)
      /\ DOMAIN perceptions = 1 .. Len(perceptions)
  <2>1. \A i \in DOMAIN perceptions : DOMAIN perceptions[i].cloud \in SUBSET Nat
    BY <1>1, OnePerception
  <2>2. I \in [DOMAIN perceptions -> SUBSET Nat]
    BY <1>2, <2>1
  <2>3. T \in [DOMAIN perceptions -> Transforms]
    BY <1>2 DEF Transforms
  <2>4. G \in [DOMAIN perceptions -> BOOLEAN]
    BY <1>2
  <2>5. L \in [DOMAIN perceptions -> LastFilter]
    BY <1>2, FiltersTyped
  <2> QED BY <1>1, <2>2, <2>3, <2>4, <2>5, ForEach
<1>4. PICK copied, owned \in BOOLEAN :
        view' = [NoView EXCEPT !.built = TRUE, !.copied = copied, !.owned = owned,
                               !.indices = I, !.tf = T, !.given = G, !.last = L]
  BY <1>2 DEF build
<1>5. PICK w \in Views : /\ w = [NoView EXCEPT !.built = TRUE, !.copied = copied, !.owned = owned]
                         /\ w.built = TRUE /\ w.post_filter = {} /\ w.has_target_frame = FALSE
                         /\ w.target_frame = ""
  <2>1. PICK a \in Views : a = [NoView EXCEPT !.built = TRUE]
    BY NoViewTyped DEF Views
  <2>2. PICK b \in Views : b = [a EXCEPT !.copied = copied]
    BY DEF Views
  <2>3. PICK c \in Views : c = [b EXCEPT !.owned = owned]
    BY DEF Views
  <2>4. c = [NoView EXCEPT !.built = TRUE, !.copied = copied, !.owned = owned]
    BY <2>1, <2>2, <2>3
  <2>5. NoView.post_filter = {} /\ NoView.has_target_frame = FALSE /\ NoView.target_frame = ""
    BY DEF NoView
  <2>6. c.built = TRUE /\ c.post_filter = {} /\ c.has_target_frame = FALSE
        /\ c.target_frame = ""
    BY <2>1, <2>2, <2>3, <2>5, NoViewTyped DEF Views
  <2> QED BY <2>4, <2>6
<1>6. Becomes(w, view', I, FALSE, "", T, {}, G, L)
  <2>1. view' = [w EXCEPT !.indices = I, !.tf = T, !.given = G, !.last = L]
    BY <1>4, <1>5
  <2>2. PICK u : /\ u = [w EXCEPT !.indices = I, !.tf = T, !.given = G, !.last = L]
                 /\ Becomes(w, u, I, w.has_target_frame, w.target_frame, T, w.post_filter, G, L)
    BY <1>3, NewPerception
  <2> QED BY <1>5, <2>1, <2>2
<1>7. ViewTyped'
  <2>1. /\ view' \in Views /\ Aligned(view', Len(perceptions)) /\ view'.post_filter = {}
        /\ view'.has_target_frame = FALSE
    BY <1>3, <1>6 DEF Becomes, Aligned
  <2> QED BY <1>1, <2>1, SingleSets DEF ViewTyped
<1>8. ASSUME NEW i \in 1 .. Len(perceptions')
      PROVE  /\ Filtered(perceptions'[i], view'.indices[i], view'.post_filter, view'.last[i])
             /\ Framed(perceptions'[i], view'.has_target_frame, view'.target_frame,
                       view'.tf[i], view'.given[i])
  <2>1. i \in DOMAIN perceptions
    BY <1>1, <1>3
  <2>2. view'.last[i] = {} /\ view'.given[i] = FALSE
    BY <1>2, <1>6, <2>1 DEF Becomes
  <2> QED BY <2>2, Unfiltered DEF Framed
<1>9. view'.post_filter = {}
  BY <1>6 DEF Becomes
<1> QED BY <1>7, <1>8, <1>9, NextInv

LEMMA drop_Inv == ViewInv /\ drop => ViewInv'
<1> SUFFICES ASSUME ViewInv, drop PROVE ViewInv'
  OBVIOUS
<1>1. perceptions \in Seq(Shown) /\ Len(perceptions) \in 1 .. MaxPerceptions
      /\ perceptions' = SubSeq(perceptions, 1, 1) /\ view' = NoView
  BY DEF ViewInv, ViewTyped, drop
<1>2. perceptions' \in Seq(Shown) /\ Len(perceptions') = 1
  <2>1. \A i \in 1 .. 1 : perceptions[i] \in Shown
    BY <1>1
  <2> QED BY <1>1, <2>1, SubSeqProperties
<1>3. view' \in Views /\ view'.built = FALSE /\ view'.post_filter = {}
      /\ view'.has_target_frame = FALSE
  BY <1>1, NoViewTyped DEF NoView
<1>4. 1 \in 1 .. MaxPerceptions
  BY ViewConstants
<1>5. Single(view'.post_filter)
  BY <1>3, SingleSets, Zenon
<1> QED BY <1>2, <1>3, <1>4, <1>5 DEF ViewInv, ViewTyped

\* A filter that waits for as_points() to give the points.
LEMMA filter_later_Inv ==
  ASSUME ViewInv, NEW bounds \in Bounds, view.has_target_frame, filter(bounds, TRUE)
  PROVE  ViewInv'
<1>1. ViewTyped /\ view \in Views /\ view.built /\ perceptions \in Seq(Shown)
      /\ Aligned(view, Len(perceptions)) /\ Filters(view, perceptions)
      /\ (view.has_target_frame => view.target_frame \in DOMAIN Offset)
      /\ UNCHANGED perceptions
  BY DEF ViewInv, ViewTyped, filter, Operation
<1>2. DOMAIN perceptions = 1 .. Len(perceptions)
  BY <1>1
<1>3. PICK f : f = [kept |-> TRUE, bounds |-> bounds, in |-> view.target_frame]
  OBVIOUS
<1>4. {f} \in LastFilter /\ f.kept = TRUE /\ f.bounds = bounds
  BY <1>1, <1>3 DEF LastFilter
<1>5. PICK L : L = Applied(bounds, TRUE)
  OBVIOUS
<1>6. L = [i \in DOMAIN perceptions |-> {f}]
  BY <1>3, <1>5 DEF Applied
<1>7. L \in Seq(LastFilter) /\ Len(L) = Len(perceptions)
  <2>1. L \in [DOMAIN perceptions -> LastFilter]
    BY <1>4, <1>6
  <2> QED BY <1>1, <2>1, ForEach
<1>8. Becomes(view, view', view.indices, view.has_target_frame, view.target_frame,
              view.tf, {bounds}, view.given, L)
  <2>1. view' = [view EXCEPT !.post_filter = {bounds}, !.last = L]
    BY <1>5 DEF filter, Operation
  <2>2. {bounds} \in SUBSET Bounds
    OBVIOUS
  <2>3. PICK w : /\ w = [view EXCEPT !.post_filter = {bounds}, !.last = L]
                 /\ Becomes(view, w, view.indices, view.has_target_frame, view.target_frame,
                            view.tf, {bounds}, view.given, L)
    BY <1>1, <1>7, <2>2, NewFilter
  <2> QED BY <2>1, <2>3
<1>9. ViewTyped'
  BY <1>1, <1>7, <1>8, SingleSets, NextTyped DEF Aligned, Views
<1>10. ASSUME NEW i \in 1 .. Len(perceptions')
       PROVE  /\ Filtered(perceptions'[i], view'.indices[i], view'.post_filter, view'.last[i])
              /\ Framed(perceptions'[i], view'.has_target_frame, view'.target_frame,
                        view'.tf[i], view'.given[i])
  <2>1. i \in 1 .. Len(perceptions) /\ i \in DOMAIN perceptions /\ perceptions'[i] = perceptions[i]
    BY <1>1, <1>2
  <2>2. view'.post_filter = {bounds} /\ view'.last[i] = {f}
    BY <1>6, <1>8, <2>1 DEF Becomes
  <2>3. Filtered(perceptions[i], view'.indices[i], {bounds}, {f})
    BY <1>4 DEF Filtered
  <2>4. Framed(perceptions[i], view'.has_target_frame, view'.target_frame,
               view'.tf[i], view'.given[i])
    BY <1>1, <1>8, <2>1 DEF Becomes, Filters
  <2> QED BY <2>1, <2>2, <2>3, <2>4
<1>11. view'.has_target_frame
  BY <1>8 DEF Becomes
<1> QED BY <1>9, <1>10, <1>11, NextInv

\* A filter that applies at once: before a fusion, or when it is asked to.
LEMMA filter_now_Inv ==
  ASSUME ViewInv, NEW bounds \in Bounds, NEW lazy \in BOOLEAN,
         ~(view.has_target_frame /\ lazy), filter(bounds, lazy)
  PROVE  ViewInv'
<1>1. ViewTyped /\ view \in Views /\ view.built /\ perceptions \in Seq(Shown)
      /\ Aligned(view, Len(perceptions)) /\ Filters(view, perceptions)
      /\ (view.has_target_frame => view.target_frame \in DOMAIN Offset)
      /\ UNCHANGED perceptions
  BY DEF ViewInv, ViewTyped, filter, Operation
<1>2. DOMAIN perceptions = 1 .. Len(perceptions)
  BY <1>1
<1>3. PICK F : F = IF lazy THEN view.post_filter ELSE {}
  OBVIOUS
<1>4. F = {}
  BY <1>1, <1>3 DEF Filters
<1>5. PICK I : I = [i \in DOMAIN perceptions |->
                     IF left_out(i) THEN {}
                     ELSE {k \in view.indices[i] \cap DOMAIN perceptions[i].cloud :
                             Within(Moved(i, perceptions[i].cloud[k]), bounds)}]
  OBVIOUS
<1>6. PICK L : L = Applied(bounds, FALSE)
  OBVIOUS
<1>7. \A i \in DOMAIN perceptions :
        L[i] = IF ~view.has_target_frame
               THEN {[kept |-> FALSE, bounds |-> bounds, in |-> perceptions[i].frame]}
               ELSE IF view.given[i]
               THEN {[kept |-> FALSE, bounds |-> bounds, in |-> view.target_frame]} ELSE {}
  BY <1>6 DEF Applied
<1>8. I \in Seq(SUBSET Nat) /\ Len(I) = Len(perceptions)
  <2>1. \A i \in DOMAIN perceptions : view.indices[i] \in SUBSET Nat
    BY <1>1, <1>2, OnePerception
  <2>2. I \in [DOMAIN perceptions -> SUBSET Nat]
    BY <1>5, <2>1
  <2> QED BY <1>1, <2>2, ForEach
<1>9. L \in Seq(LastFilter) /\ Len(L) = Len(perceptions)
  <2>1. ASSUME NEW i \in DOMAIN perceptions PROVE L[i] \in LastFilter
    <3>1. perceptions[i].frame \in DOMAIN Offset
      BY <1>1, <1>2, OnePerception DEF Shown
    <3>2. \A f \in DOMAIN Offset :
            [kept |-> FALSE, bounds |-> bounds, in |-> f]
              \in [kept : BOOLEAN, bounds : Bounds, in : DOMAIN Offset]
      OBVIOUS
    <3>3. CASE ~view.has_target_frame
      <4>1. PICK f : f = [kept |-> FALSE, bounds |-> bounds, in |-> perceptions[i].frame]
        OBVIOUS
      <4>2. L[i] = {f}
        BY <1>7, <3>3, <4>1
      <4>3. f \in [kept : BOOLEAN, bounds : Bounds, in : DOMAIN Offset]
        BY <3>1, <3>2, <4>1
      <4> QED BY <4>2, <4>3 DEF LastFilter
    <3>4. CASE view.has_target_frame
      BY <1>1, <1>7, <3>2, <3>4 DEF LastFilter
    <3> QED BY <3>3, <3>4
  <2>2. L \in [DOMAIN perceptions -> LastFilter]
    BY <1>6, <2>1 DEF Applied
  <2> QED BY <1>1, <2>2, ForEach
<1>10. Becomes(view, view', I, view.has_target_frame, view.target_frame, view.tf, {}, view.given, L)
  <2>1. view' = [view EXCEPT !.post_filter = F, !.indices = I, !.last = L]
    BY <1>3, <1>5, <1>6 DEF filter, Operation
  <2>2. F \in SUBSET Bounds
    BY <1>4
  <2>3. PICK w : /\ w = [view EXCEPT !.post_filter = F, !.indices = I, !.last = L]
                 /\ Becomes(view, w, I, view.has_target_frame, view.target_frame,
                            view.tf, F, view.given, L)
    BY <1>1, <1>8, <1>9, <2>2, NewFilterNow
  <2> QED BY <1>4, <2>1, <2>3
<1>11. ViewTyped'
  BY <1>1, <1>8, <1>9, <1>10, SingleSets, NextTyped DEF Aligned, Views
<1>12. view'.post_filter = {}
  BY <1>10 DEF Becomes
<1>13. ASSUME NEW i \in 1 .. Len(perceptions')
       PROVE  /\ Filtered(perceptions'[i], view'.indices[i], view'.post_filter, view'.last[i])
              /\ Framed(perceptions'[i], view'.has_target_frame, view'.target_frame,
                        view'.tf[i], view'.given[i])
  <2>1. /\ i \in 1 .. Len(perceptions) /\ i \in DOMAIN perceptions
        /\ perceptions'[i] = perceptions[i]
    BY <1>1, <1>2
  <2>2. PICK p \in Shown : p = perceptions[i] /\ \A k \in DOMAIN p.cloud : p.cloud[k] \in APoint
    BY <1>1, <2>1, OnePerception
  <2>3. view'.last[i] = L[i] /\ view'.indices[i] = I[i]
    BY <1>10 DEF Becomes
  <2>4. Framed(p, view.has_target_frame, view.target_frame, view.tf[i], view.given[i])
    BY <1>1, <2>1, <2>2 DEF Filters
  <2>5. Framed(p, view'.has_target_frame, view'.target_frame, view'.tf[i], view'.given[i])
    BY <1>10, <2>4 DEF Becomes
  <2>6. ASSUME NEW k \in There(p, I[i])
        PROVE  /\ ~left_out(i) /\ k \in DOMAIN p.cloud
               /\ Within(Moved(i, p.cloud[k]), bounds)
    BY <1>5, <2>1, <2>2 DEF There
  <2>7. CASE ~view.has_target_frame
    <3>0. PICK f : f = [kept |-> FALSE, bounds |-> bounds, in |-> p.frame]
      OBVIOUS
    <3>1. L[i] = {f} /\ f.in = p.frame /\ f.bounds = bounds /\ f.kept = FALSE
      BY <1>7, <2>1, <2>2, <2>7, <3>0
    <3>2. ASSUME NEW k \in There(p, I[i]) PROVE Within(Far(p, p.frame, p.cloud[k]), bounds)
      <4>1. Far(p, p.frame, p.cloud[k]) = p.cloud[k]
        BY <2>2, <2>6, SameFrame
      <4> QED BY <2>6, <2>7, <4>1 DEF Moved
    <3>3. Filtered(p, I[i], {}, L[i])
      BY <3>1, <3>2 DEF Filtered, InFrame
    <3> QED BY <1>12, <2>1, <2>2, <2>3, <2>5, <3>3
  <2>8. CASE view.has_target_frame /\ view.given[i]
    <3>0. PICK f : f = [kept |-> FALSE, bounds |-> bounds, in |-> view.target_frame]
      OBVIOUS
    <3>1. L[i] = {f} /\ f.in = view.target_frame /\ f.bounds = bounds /\ f.kept = FALSE
      BY <1>7, <2>1, <2>8, <3>0
    <3>2. ASSUME NEW k \in There(p, I[i])
          PROVE  Within(Far(p, view.target_frame, p.cloud[k]), bounds)
      <4>1. view.tf[i] = "valid" \/ view.tf[i] = "none"
        <5>1. view.tf[i] # "failed"
          BY <2>6, <2>8 DEF left_out
        <5> QED BY <1>1, <2>1, <5>1, OnePerception DEF Transforms
      <4>2. CASE view.tf[i] = "valid"
        BY <2>2, <2>6, <2>8, <4>2 DEF Moved, Shifted, Far
      <4>3. CASE view.tf[i] = "none"
        <5>1. p.frame = view.target_frame
          BY <2>4, <2>8, <4>3 DEF Framed
        <5>2. Far(p, view.target_frame, p.cloud[k]) = p.cloud[k]
          BY <2>2, <2>6, <5>1, SameFrame
        <5>3. Moved(i, p.cloud[k]) = p.cloud[k]
          BY <4>3 DEF Moved
        <5> QED BY <2>6, <5>2, <5>3
      <4> QED BY <4>1, <4>2, <4>3
    <3>3. Filtered(p, I[i], {}, L[i])
      BY <3>1, <3>2 DEF Filtered, InFrame
    <3> QED BY <1>12, <2>1, <2>2, <2>3, <2>5, <3>3
  <2>9. CASE view.has_target_frame /\ ~view.given[i]
    <3>1. L[i] = {}
      BY <1>7, <2>1, <2>9
    <3> QED BY <2>1, <2>2, <2>3, <2>5, <3>1, Unfiltered
  <2> QED BY <2>7, <2>8, <2>9
<1> QED BY <1>11, <1>12, <1>13, NextInv

LEMMA filter_Inv == ViewInv /\ (\E bounds \in Bounds, lazy \in BOOLEAN : filter(bounds, lazy)) => ViewInv'
<1> SUFFICES ASSUME ViewInv, NEW bounds \in Bounds, NEW lazy \in BOOLEAN, filter(bounds, lazy)
             PROVE  ViewInv'
  OBVIOUS
<1>1. CASE view.has_target_frame /\ lazy
  <2>1. filter(bounds, TRUE)
    BY <1>1
  <2> QED BY <1>1, <2>1, filter_later_Inv
<1>2. CASE ~(view.has_target_frame /\ lazy)
  BY <1>2, filter_now_Inv
<1> QED BY <1>1, <1>2

LEMMA downsample_Inv == ViewInv /\ downsample => ViewInv'
<1> SUFFICES ASSUME ViewInv, downsample PROVE ViewInv'
  OBVIOUS
<1>1. ViewTyped /\ view \in Views /\ view.built /\ perceptions \in Seq(Shown)
      /\ Aligned(view, Len(perceptions)) /\ Filters(view, perceptions)
      /\ UNCHANGED perceptions
  BY DEF ViewInv, ViewTyped, downsample, Operation
<1>2. DOMAIN perceptions = 1 .. Len(perceptions)
  BY <1>1
<1>3. PICK I : /\ view' = [view EXCEPT !.indices = I]
               /\ I \in [DOMAIN perceptions -> SUBSET Nat]
               /\ \A i \in DOMAIN perceptions : I[i] \subseteq view.indices[i]
  <2>1. PICK I : I = [i \in DOMAIN perceptions |->
          IF ~has_data(perceptions[i]) \/ Cardinality(view.indices[i]) <= 1 THEN view.indices[i]
          ELSE {k \in view.indices[i] \cap DOMAIN perceptions[i].cloud :
                  \A j \in view.indices[i] \cap DOMAIN perceptions[i].cloud :
                    Voxel(perceptions[i].cloud[j]) = Voxel(perceptions[i].cloud[k]) => k <= j}]
    OBVIOUS
  <2>2. view' = [view EXCEPT !.indices = I]
    BY <2>1 DEF downsample, Operation
  <2>3. \A i \in DOMAIN perceptions : I[i] \subseteq view.indices[i]
    BY <2>1
  <2>4. \A i \in DOMAIN perceptions : view.indices[i] \in SUBSET Nat
    BY <1>1, <1>2, OnePerception
  <2>5. I \in [DOMAIN perceptions -> SUBSET Nat]
    BY <2>1, <2>3, <2>4
  <2> QED BY <2>2, <2>3, <2>5
<1>4. I \in Seq(SUBSET Nat) /\ Len(I) = Len(perceptions)
  BY <1>1, <1>3, ForEach
<1>5. /\ view' \in Views /\ view'.built /\ view'.indices = I
      /\ view'.has_target_frame = view.has_target_frame
      /\ view'.target_frame = view.target_frame /\ view'.tf = view.tf
      /\ view'.post_filter = view.post_filter /\ view'.given = view.given /\ view'.last = view.last
  BY <1>1, <1>3, <1>4, WithIndices DEF Views
<1>6. ViewTyped'
  <2>1. /\ Single(view.post_filter)
        /\ (view.has_target_frame => view.target_frame \in DOMAIN Offset)
    BY <1>1 DEF ViewTyped
  <2>2. Aligned(view', Len(perceptions))
    BY <1>1, <1>4, <1>5 DEF Aligned
  <2> QED BY <1>1, <1>5, <2>1, <2>2 DEF ViewTyped
<1>7. ASSUME NEW i \in 1 .. Len(perceptions')
      PROVE  /\ Filtered(perceptions'[i], view'.indices[i], view'.post_filter, view'.last[i])
             /\ Framed(perceptions'[i], view'.has_target_frame, view'.target_frame,
                       view'.tf[i], view'.given[i])
  <2>1. /\ i \in 1 .. Len(perceptions) /\ i \in DOMAIN perceptions
        /\ perceptions'[i] = perceptions[i]
    BY <1>1, <1>2
  <2>2. There(perceptions[i], view'.indices[i]) \subseteq There(perceptions[i], view.indices[i])
    BY <1>3, <1>5, <2>1 DEF There
  <2>3. /\ Filtered(perceptions[i], view.indices[i], view.post_filter, view.last[i])
        /\ Framed(perceptions[i], view.has_target_frame, view.target_frame,
                  view.tf[i], view.given[i])
    BY <1>1, <2>1 DEF Filters
  <2>4. Filtered(perceptions[i], view'.indices[i], view.post_filter, view.last[i])
    BY <2>2, <2>3, FewerFiltered
  <2> QED BY <1>5, <2>1, <2>3, <2>4
<1>8. view'.post_filter # {} => view'.has_target_frame
  BY <1>1, <1>5 DEF Filters
<1> QED BY <1>6, <1>7, <1>8, NextInv

LEMMA collapse_later_Inv == ViewInv /\ collapse_later => ViewInv'
<1> SUFFICES ASSUME ViewInv, collapse_later PROVE ViewInv'
  OBVIOUS
<1>1. view \in Views /\ view' = [view EXCEPT !.collapse_z = TRUE] /\ UNCHANGED perceptions
  BY DEF ViewInv, ViewTyped, collapse_later, Operation
<1>2. /\ view' \in Views /\ view'.built = view.built /\ view'.indices = view.indices
      /\ view'.has_target_frame = view.has_target_frame
      /\ view'.target_frame = view.target_frame /\ view'.tf = view.tf
      /\ view'.post_filter = view.post_filter /\ view'.given = view.given /\ view'.last = view.last
  BY <1>1 DEF Views
<1> QED BY <1>1, <1>2 DEF ViewInv, ViewTyped, Aligned, Filters

\* The perceptions after a step, one at a time.
LEMMA NextPerceptions ==
  ASSUME NEW P \in Seq(Shown), NEW f \in [DOMAIN P -> Shown]
  PROVE  f \in Seq(Shown) /\ Len(f) = Len(P) /\ DOMAIN f = DOMAIN P
<1>1. f \in Seq(Shown) /\ Len(f) = Len(P) /\ DOMAIN f = 1 .. Len(P) /\ DOMAIN P = 1 .. Len(P)
  BY ForEach
<1> QED BY <1>1

LEMMA CollapsedShown ==
  ASSUME NEW p \in Shown
  PROVE  [p EXCEPT !.cloud = [k \in DOMAIN @ |-> [@[k] EXCEPT !.z = Plane]]] \in Shown
<1>1. PICK c \in Seq(APoint) : c = p.cloud
  BY DEF Shown
<1>2. PICK d : d = [k \in DOMAIN c |-> [c[k] EXCEPT !.z = Plane]]
  OBVIOUS
<1>3. \A k \in DOMAIN c : [c[k] EXCEPT !.z = Plane] \in APoint
  <2>1. \A k \in DOMAIN c : c[k] \in APoint
    OBVIOUS
  <2> QED BY <2>1, ViewConstants DEF APoint
<1>4. d \in Seq(APoint)
  <2>1. d \in [DOMAIN c -> APoint]
    BY <1>2, <1>3
  <2> QED BY <2>1, ForEach
<1>5. [p EXCEPT !.cloud = d] \in Shown
  BY <1>4 DEF Shown
<1> QED BY <1>1, <1>2, <1>5

LEMMA collapse_now_Inv == ViewInv /\ collapse_now => ViewInv'
<1> SUFFICES ASSUME ViewInv, collapse_now PROVE ViewInv'
  OBVIOUS
<1>1. ViewTyped /\ view \in Views /\ view.built /\ perceptions \in Seq(Shown)
      /\ Aligned(view, Len(perceptions)) /\ Filters(view, perceptions)
  BY DEF ViewInv, ViewTyped, collapse_now, Operation
<1>2. DOMAIN perceptions = 1 .. Len(perceptions) /\ view.last \in Seq(LastFilter)
      /\ DOMAIN view.last = 1 .. Len(perceptions)
  <2>1. view.last \in Seq(LastFilter)
    BY <1>1 DEF Views
  <2>2. Len(view.last) = Len(perceptions)
    BY <1>1 DEF Aligned
  <2> QED BY <1>1, <2>1, <2>2
<1>3. PICK P : P = [i \in DOMAIN perceptions |->
                     IF has_data(perceptions[i])
                     THEN [perceptions[i] EXCEPT !.cloud = [k \in DOMAIN @ |-> [@[k] EXCEPT !.z = Plane]]]
                     ELSE perceptions[i]]
  OBVIOUS
<1>4. perceptions' = P /\ P \in [DOMAIN perceptions -> Shown]
  <2>1. \A i \in DOMAIN perceptions : perceptions[i] \in Shown
    BY <1>1
  <2>2. \A i \in DOMAIN perceptions : P[i] \in Shown
    BY <1>3, <2>1, CollapsedShown
  <2> QED BY <1>3, <2>2 DEF collapse_now
<1>5. /\ perceptions' \in Seq(Shown) /\ Len(perceptions') = Len(perceptions)
      /\ DOMAIN perceptions' = DOMAIN perceptions
  BY <1>1, <1>4, NextPerceptions
<1>6. \A i \in DOMAIN perceptions : perceptions'[i].frame = perceptions[i].frame
  <2>1. ASSUME NEW i \in DOMAIN perceptions, NEW d
        PROVE  [perceptions[i] EXCEPT !.cloud = d].frame = perceptions[i].frame
    <3>1. perceptions[i] \in Shown
      BY <1>1
    <3> QED BY <3>1 DEF Shown
  <2> QED BY <1>3, <1>4, <2>1
<1>7. PICK L : L = [i \in DOMAIN view.last |-> Kept(view.last[i])]
  OBVIOUS
<1>8. L \in Seq(LastFilter) /\ Len(L) = Len(perceptions)
  <2>1. \A i \in DOMAIN view.last : view.last[i] \in LastFilter
    BY <1>2
  <2>2. L \in [DOMAIN view.last -> LastFilter]
    BY <1>7, <2>1, FiltersTyped
  <2> QED BY <1>1, <1>2, <2>2, ForEach DEF Aligned
<1>9. /\ view' \in Views /\ view'.built /\ view'.indices = view.indices
      /\ view'.has_target_frame = view.has_target_frame
      /\ view'.target_frame = view.target_frame /\ view'.tf = view.tf
      /\ view'.post_filter = view.post_filter /\ view'.given = view.given /\ view'.last = L
  <2>1. view' = [view EXCEPT !.collapse_z = FALSE, !.last = L]
    BY <1>7 DEF collapse_now, Operation
  <2>2. PICK v \in Views : v = [view EXCEPT !.collapse_z = FALSE]
    BY <1>1 DEF Views
  <2>3. PICK w \in Views : w = [v EXCEPT !.last = L]
    BY <1>8, WithLast
  <2>4. view' = w
    BY <2>1, <2>2, <2>3
  <2>5. /\ w.built = view.built /\ w.indices = view.indices
        /\ w.has_target_frame = view.has_target_frame
        /\ w.target_frame = view.target_frame /\ w.tf = view.tf
        /\ w.post_filter = view.post_filter /\ w.given = view.given /\ w.last = L
    BY <1>1, <2>2, <2>3 DEF Views
  <2> QED BY <1>1, <2>4, <2>5
<1>10. ViewTyped'
  <2>1. /\ Single(view.post_filter) /\ Len(perceptions) \in 1 .. MaxPerceptions
        /\ (view.has_target_frame => view.target_frame \in DOMAIN Offset)
    BY <1>1 DEF ViewTyped
  <2>2. Aligned(view', Len(perceptions))
    BY <1>1, <1>8, <1>9 DEF Aligned
  <2> QED BY <1>5, <1>9, <2>1, <2>2 DEF ViewTyped
<1>11. ASSUME NEW i \in 1 .. Len(perceptions')
       PROVE  /\ Filtered(perceptions'[i], view'.indices[i], view'.post_filter, view'.last[i])
              /\ Framed(perceptions'[i], view'.has_target_frame, view'.target_frame,
                        view'.tf[i], view'.given[i])
  <2>1. /\ i \in 1 .. Len(perceptions) /\ i \in DOMAIN perceptions
        /\ view'.last[i] = Kept(view.last[i])
    BY <1>2, <1>5, <1>7, <1>9
  <2>2. Framed(perceptions[i], view.has_target_frame, view.target_frame, view.tf[i], view.given[i])
    BY <1>1, <2>1 DEF Filters
  <2>3. Framed(perceptions'[i], view'.has_target_frame, view'.target_frame,
               view'.tf[i], view'.given[i])
    BY <1>6, <1>9, <2>1, <2>2 DEF Framed
  <2>4. Filtered(perceptions[i], view.indices[i], view.post_filter, view.last[i])
    BY <1>1, <2>1 DEF Filters
  <2>5. Filtered(perceptions'[i], view'.indices[i], view'.post_filter, view'.last[i])
    BY <1>9, <2>1, <2>4, KeptFiltered
  <2> QED BY <2>3, <2>5
<1>12. view'.post_filter # {} => view'.has_target_frame
  BY <1>1, <1>9 DEF Filters
<1> QED BY <1>10, <1>11, <1>12, NextInv

\* What a perception may show after a message.
LEMMA IntegratedShown ==
  ASSUME NEW p \in Shown, NEW q \in Integrated(p)
  PROVE  q \in Shown /\ q.frame = p.frame
<1>1. CASE q = p
  BY <1>1
<1>2. CASE q # p
  <2>1. PICK cloud \in Clouds : q = [p EXCEPT !.valid = TRUE, !.cloud = cloud]
    BY <1>2 DEF Integrated
  <2>2. cloud \in Seq(APoint)
    BY ViewConstants
  <2>3. PICK a \in Shown : a = [p EXCEPT !.valid = TRUE]
    BY DEF Shown
  <2>4. PICK b \in Shown : b = [a EXCEPT !.cloud = cloud]
    BY <2>2 DEF Shown
  <2>5. q = b
    BY <2>1, <2>3, <2>4
  <2>6. b.frame = p.frame
    BY <2>3, <2>4 DEF Shown
  <2> QED BY <2>5, <2>6
<1> QED BY <1>1, <1>2

LEMMA fuse_view_Inv == ViewInv /\ fuse_view => ViewInv'
<1> SUFFICES ASSUME ViewInv, fuse_view PROVE ViewInv'
  OBVIOUS
<1>1. ViewTyped /\ view \in Views /\ view.built /\ perceptions \in Seq(Shown)
      /\ Aligned(view, Len(perceptions)) /\ Filters(view, perceptions)
      /\ Len(perceptions) \in 1 .. MaxPerceptions /\ Single(view.post_filter)
  BY DEF ViewInv, ViewTyped, fuse_view, fuse_into, Operation
<1>2. DOMAIN perceptions = 1 .. Len(perceptions) /\ view.last \in Seq(LastFilter)
      /\ DOMAIN view.last = 1 .. Len(perceptions) /\ 1 \in DOMAIN perceptions
  <2>1. view.last \in Seq(LastFilter)
    BY <1>1 DEF Views
  <2>2. Len(view.last) = Len(perceptions)
    BY <1>1 DEF Aligned
  <2> QED BY <1>1, <2>1, <2>2
<1> DEFINE Fused(new) == [perceptions EXCEPT ![1] = new]
           Tf(Q, to, known1) ==
             [i \in DOMAIN Q |->
                IF ~has_data(Q[i]) \/ Q[i].frame = to THEN "none"
                ELSE IF Q[i].frame \in known1 THEN "valid" ELSE "failed"]
           Given(Q) == [i \in DOMAIN Q |-> has_data(Q[i])]
           Last(Q) == [i \in DOMAIN Q |-> IF Q[i] = perceptions[i] THEN view.last[i]
                                          ELSE Kept(view.last[i])]
<1>3. PICK target \in DOMAIN Offset, shown1 \in Integrated(perceptions[1]),
           known1 \in SUBSET DOMAIN Offset :
        /\ perceptions' = Fused(shown1)
        /\ view' = [view EXCEPT !.has_target_frame = TRUE, !.target_frame = target,
                                !.tf = Tf(Fused(shown1), target, known1),
                                !.given = Given(Fused(shown1)), !.last = Last(Fused(shown1))]
  <2>1. PICK target \in DOMAIN Offset :
          \E shown1 \in Integrated(perceptions[1]), known1 \in SUBSET (DOMAIN Offset \ {target}) :
            fuse_into(target, shown1, known1)
    BY DEF fuse_view
  <2>2. PICK shown1 \in Integrated(perceptions[1]), known1 \in SUBSET (DOMAIN Offset \ {target}) :
          fuse_into(target, shown1, known1)
    BY <2>1
  <2>3. known1 \in SUBSET DOMAIN Offset
    BY <2>2
  <2>4. /\ perceptions' = Fused(shown1)
        /\ view' = [view EXCEPT !.has_target_frame = TRUE, !.target_frame = target,
                                !.tf = Tf(Fused(shown1), target, known1),
                                !.given = Given(Fused(shown1)), !.last = Last(Fused(shown1))]
    BY <2>2, Zenon DEF fuse_into, Operation
  <2>5. target \in DOMAIN Offset /\ shown1 \in Integrated(perceptions[1])
    BY <2>1, <2>2
  <2> HIDE DEF Fused, Tf, Given, Last
  <2> QED BY <2>3, <2>4, <2>5
<1> DEFINE P == Fused(shown1)
           T == Tf(P, target, known1)
           G == Given(P)
           L == Last(P)
<1>a. perceptions' = P
  BY <1>3
<1>b. P = [perceptions EXCEPT ![1] = shown1]
  OBVIOUS
<1>c. view' = [view EXCEPT !.has_target_frame = TRUE, !.target_frame = target, !.tf = T,
                          !.given = G, !.last = L]
  BY <1>3, Zenon
<1> HIDE DEF P
<1>d. /\ DOMAIN T = DOMAIN P /\ DOMAIN G = DOMAIN P /\ DOMAIN L = DOMAIN P
      /\ T \in [DOMAIN P -> Transforms]
      /\ \A i \in DOMAIN P :
           /\ T[i] = "none" => ~has_data(P[i]) \/ P[i].frame = target
           /\ G[i] = has_data(P[i])
           /\ L[i] = IF P[i] = perceptions[i] THEN view.last[i] ELSE Kept(view.last[i])
  BY DEF Transforms
<1>e. G = [i \in DOMAIN P |-> G[i]] /\ L = [i \in DOMAIN P |-> L[i]]
  OBVIOUS
<1> HIDE DEF T, G, L
<1>4. /\ P \in Seq(Shown) /\ Len(P) = Len(perceptions) /\ DOMAIN P = DOMAIN perceptions
  <2>1. perceptions[1] \in Shown
    BY <1>1, <1>2
  <2>2. shown1 \in Shown
    BY <2>1, IntegratedShown
  <2>3. P \in [DOMAIN perceptions -> Shown]
    BY <1>1, <1>b, <2>2
  <2> QED BY <1>1, <2>3, NextPerceptions
<1>5. /\ T \in Seq(Transforms) /\ Len(T) = Len(perceptions)
      /\ G \in Seq(BOOLEAN) /\ Len(G) = Len(perceptions)
      /\ L \in Seq(LastFilter) /\ Len(L) = Len(perceptions)
  <2>1. T \in [DOMAIN P -> Transforms]
    BY <1>d
  <2>2. G \in [DOMAIN P -> BOOLEAN]
    <3>1. \A i \in DOMAIN P : P[i].valid \in BOOLEAN
      <4>1. \A i \in DOMAIN P : P[i] \in Shown
        BY <1>4
      <4> QED BY <4>1 DEF Shown
    <3>2. \A i \in DOMAIN P : has_data(P[i]) \in BOOLEAN
      BY <3>1 DEF has_data
    <3> QED BY <1>d, <1>e, <3>2
  <2>3. L \in [DOMAIN P -> LastFilter]
    <3>1. \A i \in DOMAIN P : view.last[i] \in LastFilter
      BY <1>2, <1>4
    <3>2. \A i \in DOMAIN P : L[i] \in LastFilter
      BY <1>d, <3>1, FiltersTyped
    <3> QED BY <1>e, <3>2
  <2> QED BY <1>4, <2>1, <2>2, <2>3, ForEach
<1>6. Becomes(view, view', view.indices, TRUE, target, T, view.post_filter, G, L)
  <2>1. PICK w : /\ w = [view EXCEPT !.has_target_frame = TRUE, !.target_frame = target,
                                       !.tf = T, !.given = G, !.last = L]
                 /\ Becomes(view, w, view.indices, TRUE, target, T, view.post_filter, G, L)
    BY <1>1, <1>5, NewFrames
  <2> QED BY <1>c, <2>1
<1>7. ViewTyped'
  <2>1. /\ view' \in Views /\ Aligned(view', Len(P)) /\ view'.post_filter = view.post_filter
        /\ view'.target_frame \in DOMAIN Offset
    BY <1>1, <1>4, <1>5, <1>6 DEF Becomes, Aligned
  <2> QED BY <1>1, <1>a, <1>4, <2>1 DEF ViewTyped
<1>8. ASSUME NEW i \in 1 .. Len(perceptions')
      PROVE  /\ Filtered(perceptions'[i], view'.indices[i], view'.post_filter, view'.last[i])
             /\ Framed(perceptions'[i], view'.has_target_frame, view'.target_frame,
                       view'.tf[i], view'.given[i])
  <2>1. i \in 1 .. Len(perceptions) /\ i \in DOMAIN P /\ perceptions'[i] = P[i]
    BY <1>2, <1>a, <1>4
  <2>2. /\ view'.indices = view.indices /\ view'.post_filter = view.post_filter
        /\ view'.has_target_frame = TRUE /\ view'.target_frame = target /\ view'.tf = T
       
        /\ view'.given = G /\ view'.last = L
    BY <1>6 DEF Becomes
  <2>3. G[i] = has_data(P[i])
    BY <1>d, <2>1
  <2>4. T[i] = "none" => ~has_data(P[i]) \/ P[i].frame = target
    BY <1>d, <2>1
  <2>5. Framed(P[i], TRUE, target, T[i], G[i])
    BY <2>3, <2>4 DEF Framed
  <2>6. Filtered(P[i], view.indices[i], view.post_filter, L[i])
    <3>1. CASE P[i] = perceptions[i]
      <4>1. L[i] = view.last[i]
        BY <1>d, <2>1, <3>1
      <4> QED BY <1>1, <2>1, <3>1, <4>1 DEF Filters
    <3>2. CASE P[i] # perceptions[i]
      <4>1. L[i] = Kept(view.last[i])
        BY <1>d, <2>1, <3>2
      <4>2. Filtered(perceptions[i], view.indices[i], view.post_filter, view.last[i])
        BY <1>1, <2>1 DEF Filters
      <4> QED BY <4>1, <4>2, KeptFiltered
    <3> QED BY <3>1, <3>2
  <2> QED BY <2>1, <2>2, <2>5, <2>6
<1>9. view'.has_target_frame
  BY <1>6 DEF Becomes
<1> QED BY <1>7, <1>8, <1>9, NextInv

Extended(S, q, e, r) ==
  /\ r \in Seq(S) /\ Len(r) = Len(q) + 1
  /\ \A i \in 1 .. Len(q) : r[i] = q[i]
  /\ r[Len(q) + 1] = e

LEMMA OneMore ==
  ASSUME NEW S, NEW q \in Seq(S), NEW e \in S
  PROVE  Extended(S, q, e, Append(q, e))
BY AppendProperties DEF Extended

FirstIs(S, q, e, r) ==
  /\ r \in Seq(S) /\ Len(r) = Len(q) /\ r[1] = e
  /\ \A i \in 2 .. Len(q) : r[i] = q[i]
  /\ DOMAIN r = DOMAIN q

LEMMA FirstReplaced ==
  ASSUME NEW S, NEW q \in Seq(S), Len(q) # 0, NEW e \in S
  PROVE  FirstIs(S, q, e, [q EXCEPT ![1] = e])
<1>1. PICK n \in Nat : n = Len(q) /\ DOMAIN q = 1 .. n /\ 1 \in 1 .. n /\ q \in [1 .. n -> S]
  OBVIOUS
<1>2. PICK r : r = [q EXCEPT ![1] = e]
  OBVIOUS
<1>3. r \in [1 .. n -> S] /\ r[1] = e /\ \A i \in 2 .. n : r[i] = q[i]
  BY <1>1, <1>2
<1>4. r \in Seq(S) /\ Len(r) = n /\ DOMAIN r = 1 .. n
  BY <1>3
<1> QED BY <1>1, <1>2, <1>3, <1>4 DEF FirstIs

LEMMA add_Inv == ViewInv /\ add => ViewInv'
<1> SUFFICES ASSUME ViewInv, add PROVE ViewInv'
  OBVIOUS
<1>1. ViewTyped /\ view \in Views /\ view.built /\ perceptions \in Seq(Shown)
      /\ Aligned(view, Len(perceptions)) /\ Filters(view, perceptions)
      /\ Single(view.post_filter) /\ Len(perceptions) \in 1 .. MaxPerceptions
      /\ Len(perceptions) < MaxPerceptions
      /\ (view.has_target_frame => view.target_frame \in DOMAIN Offset)
  BY DEF ViewInv, ViewTyped, add, Operation
<1>2. PICK frame \in DOMAIN Offset, cloud \in Clouds :
        /\ perceptions' = Append(perceptions, [valid |-> TRUE, frame |-> frame, cloud |-> cloud])
        /\ view' = [view EXCEPT !.indices = Append(view.indices, DOMAIN cloud),
                                !.tf = Append(view.tf, "none"), !.given = Append(view.given, FALSE),
                                !.last = Append(view.last, {})]
  BY DEF add, Operation
<1>a. cloud \in Seq(APoint)
  BY ViewConstants
<1>b. [valid |-> TRUE, frame |-> frame, cloud |-> cloud] \in Shown /\ DOMAIN cloud \in SUBSET Nat
  BY <1>a DEF Shown
<1>3. PICK new \in Shown : new = [valid |-> TRUE, frame |-> frame, cloud |-> cloud]
  BY <1>b
<1>4. PICK P \in Seq(Shown) : /\ perceptions' = P /\ Len(P) = Len(perceptions) + 1
                              /\ \A i \in 1 .. Len(perceptions) : P[i] = perceptions[i]
  BY <1>1, <1>2, <1>3, AppendProperties
<1>5. /\ view.indices \in Seq(SUBSET Nat) /\ view.tf \in Seq(Transforms)
      /\ view.given \in Seq(BOOLEAN) /\ view.last \in Seq(LastFilter)
      /\ "none" \in Transforms /\ FALSE \in BOOLEAN
  BY <1>1 DEF Views, Transforms
<1>6. PICK I : I = Append(view.indices, DOMAIN cloud)
               /\ Extended(SUBSET Nat, view.indices, DOMAIN cloud, I)
  BY <1>b, <1>5, OneMore
<1>7. PICK T : T = Append(view.tf, "none") /\ Extended(Transforms, view.tf, "none", T)
  BY <1>5, OneMore
<1>8. PICK G : G = Append(view.given, FALSE) /\ Extended(BOOLEAN, view.given, FALSE, G)
  BY <1>5, OneMore
<1>9. PICK L : L = Append(view.last, {}) /\ Extended(LastFilter, view.last, {}, L)
  BY <1>5, FiltersTyped, OneMore
<1>10. Becomes(view, view', I, view.has_target_frame, view.target_frame, T, view.post_filter, G, L)
  <2>1. PICK w : /\ w = [view EXCEPT !.indices = I, !.tf = T, !.given = G, !.last = L]
                 /\ Becomes(view, w, I, view.has_target_frame, view.target_frame,
                            T, view.post_filter, G, L)
    BY <1>1, <1>6, <1>7, <1>8, <1>9, NewPerception DEF Extended
  <2> QED BY <1>2, <1>6, <1>7, <1>8, <1>9, <2>1
<1>11. ViewTyped'
  <2>1. /\ view' \in Views /\ Aligned(view', Len(P)) /\ view'.post_filter = view.post_filter
        /\ (view'.has_target_frame => view'.target_frame \in DOMAIN Offset)
    BY <1>1, <1>4, <1>6, <1>7, <1>8, <1>9, <1>10 DEF Becomes, Aligned, Extended
  <2>2. Len(P) \in 1 .. MaxPerceptions
    BY <1>1, <1>4, ViewConstants
  <2> QED BY <1>1, <1>4, <2>1, <2>2 DEF ViewTyped
<1>12. ASSUME NEW i \in 1 .. Len(perceptions')
       PROVE  /\ Filtered(perceptions'[i], view'.indices[i], view'.post_filter, view'.last[i])
              /\ Framed(perceptions'[i], view'.has_target_frame, view'.target_frame,
                        view'.tf[i], view'.given[i])
  <2>1. /\ view'.indices = I /\ view'.post_filter = view.post_filter
        /\ view'.has_target_frame = view.has_target_frame
        /\ view'.target_frame = view.target_frame /\ view'.tf = T
        /\ view'.given = G /\ view'.last = L
    BY <1>10 DEF Becomes
  <2>2. i \in 1 .. Len(perceptions) \/ i = Len(perceptions) + 1
    BY <1>1, <1>4
  <2>3. CASE i \in 1 .. Len(perceptions)
    <3>1. /\ Filtered(perceptions[i], view.indices[i], view.post_filter, view.last[i])
          /\ Framed(perceptions[i], view.has_target_frame, view.target_frame,
                    view.tf[i], view.given[i])
      BY <1>1, <2>3 DEF Filters
    <3>2. P[i] = perceptions[i] /\ I[i] = view.indices[i] /\ T[i] = view.tf[i]
          /\ G[i] = view.given[i] /\ L[i] = view.last[i]
      BY <1>1, <1>4, <1>6, <1>7, <1>8, <1>9, <2>3 DEF Aligned, Extended
    <3> QED BY <1>4, <2>1, <3>1, <3>2
  <2>4. CASE i = Len(perceptions) + 1
    <3>1. L[i] = {} /\ G[i] = FALSE
      BY <1>1, <1>8, <1>9, <2>4 DEF Aligned, Extended
    <3> QED BY <2>1, <3>1, Unfiltered DEF Framed
  <2> QED BY <2>2, <2>3, <2>4
<1>13. view'.post_filter # {} => view'.has_target_frame
  BY <1>1, <1>10 DEF Becomes, Filters
<1> QED BY <1>11, <1>12, <1>13, NextInv

LEMMA rt_thread_Inv == ViewInv /\ rt_thread => ViewInv'
<1> SUFFICES ASSUME ViewInv, rt_thread PROVE ViewInv'
  OBVIOUS
<1>1. ViewTyped /\ view \in Views /\ perceptions \in Seq(Shown)
      /\ Single(view.post_filter) /\ Len(perceptions) \in 1 .. MaxPerceptions
      /\ (view.has_target_frame => view.target_frame \in DOMAIN Offset)
  BY DEF ViewInv, ViewTyped
<1>2. DOMAIN perceptions = 1 .. Len(perceptions) /\ 1 \in DOMAIN perceptions
      /\ perceptions[1] \in Shown
  BY <1>1
<1>3. PICK new \in Shown : /\ perceptions' = [perceptions EXCEPT ![1] = new]
                           /\ new.frame = perceptions[1].frame
  <2>1. PICK cloud \in Clouds :
          \/ perceptions' = [perceptions EXCEPT ![1].valid = FALSE]
          \/ perceptions' = [perceptions EXCEPT ![1].valid = TRUE, ![1].cloud = cloud]
    BY DEF rt_thread
  <2>2. PICK p \in Shown : p = perceptions[1]
    BY <1>2
  <2>3. CASE perceptions' = [perceptions EXCEPT ![1].valid = FALSE]
    <3>1. PICK q \in Shown : q = [p EXCEPT !.valid = FALSE]
      BY DEF Shown
    <3>2. q.frame = p.frame
      BY <3>1 DEF Shown
    <3> QED BY <2>2, <2>3, <3>1, <3>2
  <2>4. CASE perceptions' = [perceptions EXCEPT ![1].valid = TRUE, ![1].cloud = cloud]
    <3>1. cloud \in Seq(APoint)
      BY ViewConstants
    <3>2. PICK a \in Shown : a = [p EXCEPT !.valid = TRUE]
      BY DEF Shown
    <3>3. PICK q \in Shown : q = [a EXCEPT !.cloud = cloud]
      BY <3>1 DEF Shown
    <3>4. q.frame = p.frame
      BY <3>2, <3>3 DEF Shown
    <3>5. perceptions' = [perceptions EXCEPT ![1] = q]
      <4>1. PICK P : P = [perceptions EXCEPT ![1] = a] /\ FirstIs(Shown, perceptions, a, P)
        <5>1. Len(perceptions) # 0
          BY <1>1, ViewConstants
        <5> QED BY <1>1, <3>2, <5>1, FirstReplaced
      <4>2. perceptions' = [P EXCEPT ![1].cloud = cloud]
        BY <2>2, <2>4, <3>2, <4>1
      <4>3. P[1] = a /\ DOMAIN P = DOMAIN perceptions
        BY <4>1 DEF FirstIs
      <4>4. perceptions' = [P EXCEPT ![1] = q]
        BY <3>3, <4>2, <4>3
      <4> QED BY <1>2, <4>1, <4>4
    <3> QED BY <2>2, <3>4, <3>5
  <2> QED BY <2>1, <2>3, <2>4
<1>4. /\ perceptions' \in Seq(Shown) /\ Len(perceptions') = Len(perceptions)
      /\ perceptions'[1] = new
      /\ \A i \in 2 .. Len(perceptions) : perceptions'[i] = perceptions[i]
  BY <1>1, <1>2, <1>3
<1>5. CASE ~view.built
  <2>1. view' = view
    BY <1>5 DEF rt_thread
  <2> QED BY <1>1, <1>4, <1>5, <2>1 DEF ViewInv, ViewTyped
<1>6. CASE view.built
  <2>1. /\ Aligned(view, Len(perceptions)) /\ Filters(view, perceptions)
        /\ view.last \in Seq(LastFilter)
    BY <1>1, <1>6 DEF ViewInv, ViewTyped, Views
  <2>2. PICK L \in Seq(LastFilter) :
          /\ Becomes(view, view', view.indices, view.has_target_frame, view.target_frame,
                     view.tf, view.post_filter, view.given, L)
          /\ Len(L) = Len(perceptions)
          /\ \A i \in 2 .. Len(perceptions) : L[i] = view.last[i]
          /\ L[1] = IF new.cloud # perceptions[1].cloud THEN Kept(view.last[1])
                    ELSE view.last[1]
    <3>a. 1 \in 1 .. Len(view.last)
      BY <1>1, <2>1, ViewConstants DEF Aligned
    <3>b. view.last[1] \in LastFilter
      BY <2>1, <3>a
    <3>0. Kept(view.last[1]) \in LastFilter
      BY <3>b, FiltersTyped
    <3>1. CASE new.cloud # perceptions[1].cloud
      <4>1. PICK L : /\ L = [view.last EXCEPT ![1] = Kept(view.last[1])]
                     /\ FirstIs(LastFilter, view.last, Kept(view.last[1]), L)
        <5>1. Len(view.last) # 0
          BY <1>1, <2>1 DEF Aligned
        <5> QED BY <2>1, <3>0, <5>1, FirstReplaced
      <4>2. /\ Len(L) = Len(perceptions) /\ L[1] = Kept(view.last[1])
            /\ \A i \in 2 .. Len(perceptions) : L[i] = view.last[i]
            /\ L \in Seq(LastFilter)
        BY <2>1, <4>1 DEF Aligned, FirstIs
      <4>3. view' = [view EXCEPT !.last = L]
        BY <1>4, <1>6, <3>1, <4>1 DEF rt_thread
      <4>4. Becomes(view, view', view.indices, view.has_target_frame, view.target_frame,
                    view.tf, view.post_filter, view.given, L)
        <5>1. PICK w \in Views : w = [view EXCEPT !.last = L]
          BY <1>1, <4>2, WithLast
        <5> QED BY <1>1, <4>3, <5>1 DEF Becomes, Views
      <4> QED BY <3>1, <4>2, <4>4
    <3>2. CASE new.cloud = perceptions[1].cloud
      <4>1. view' = view
        BY <1>4, <3>2 DEF rt_thread
      <4>2. Becomes(view, view', view.indices, view.has_target_frame, view.target_frame,
                    view.tf, view.post_filter, view.given, view.last)
        BY <1>1, <4>1 DEF Becomes
      <4> QED BY <2>1, <3>2, <4>2 DEF Aligned
    <3> QED BY <3>1, <3>2
  <2>3. ViewTyped'
    <3>1. /\ view' \in Views /\ Aligned(view', Len(perceptions))
          /\ view'.post_filter = view.post_filter
          /\ (view'.has_target_frame => view'.target_frame \in DOMAIN Offset)
      BY <1>1, <2>1, <2>2 DEF Becomes, Aligned
    <3> QED BY <1>1, <1>4, <3>1 DEF ViewTyped
  <2>4. ASSUME NEW i \in 1 .. Len(perceptions')
        PROVE  /\ Filtered(perceptions'[i], view'.indices[i], view'.post_filter, view'.last[i])
               /\ Framed(perceptions'[i], view'.has_target_frame, view'.target_frame,
                         view'.tf[i], view'.given[i])
    <3>1. i \in 2 .. Len(perceptions) \/ i = 1
      BY <1>1, <1>4
    <3>2. i \in 1 .. Len(perceptions)
      BY <1>4
    <3>3. /\ Filtered(perceptions[i], view.indices[i], view.post_filter, view.last[i])
          /\ Framed(perceptions[i], view.has_target_frame, view.target_frame,
                    view.tf[i], view.given[i])
      BY <2>1, <3>2 DEF Filters
    <3>4. /\ view'.indices = view.indices /\ view'.post_filter = view.post_filter
          /\ view'.has_target_frame = view.has_target_frame
          /\ view'.target_frame = view.target_frame /\ view'.tf = view.tf
          /\ view'.given = view.given /\ view'.last = L
      BY <2>2 DEF Becomes
    <3>5. CASE i \in 2 .. Len(perceptions)
      BY <1>4, <2>2, <3>3, <3>4, <3>5
    <3>6. CASE i = 1
      <4>1. Framed(new, view'.has_target_frame, view'.target_frame, view'.tf[i], view'.given[i])
        BY <1>3, <3>3, <3>4, <3>6 DEF Framed
      <4>2. Filtered(perceptions[1], view.indices[1], view.post_filter, view.last[1])
        BY <3>3, <3>6
      <4>3. CASE new.cloud # perceptions[1].cloud
        <5>1. L[1] = Kept(view.last[1])
          BY <2>2, <4>3
        <5>2. Filtered(new, view.indices[1], view.post_filter, L[1])
          BY <4>2, <5>1, KeptFiltered
        <5> QED BY <1>4, <3>4, <3>6, <4>1, <5>2
      <4>4. CASE new.cloud = perceptions[1].cloud
        <5>1. L[1] = view.last[1]
          BY <2>2, <4>4
        <5>2. Filtered(new, view.indices[1], view.post_filter, view.last[1])
          BY <1>3, <4>2, <4>4 DEF Filtered, InFrame, There, Far
        <5> QED BY <1>4, <3>4, <3>6, <4>1, <5>1, <5>2
      <4> QED BY <4>3, <4>4
    <3> QED BY <3>1, <3>5, <3>6
  <2>5. view'.post_filter # {} => view'.has_target_frame
    BY <2>1, <2>2 DEF Becomes, Filters
  <2> QED BY <2>3, <2>4, <2>5, NextInv
<1> QED BY <1>5, <1>6

-----------------------------------------------------------------------------
(* The theorems about the view.                                            *)

LEMMA ViewInit_Inv == ViewInit => ViewInv
<1> SUFFICES ASSUME ViewInit PROVE ViewInv
  OBVIOUS
<1>1. PICK frame \in DOMAIN Offset :
        perceptions = <<[valid |-> FALSE, frame |-> frame, cloud |-> << >>]>>
  BY DEF ViewInit
<1>2. [valid |-> FALSE, frame |-> frame, cloud |-> << >>] \in Shown
  BY DEF Shown
<1>3. perceptions \in Seq(Shown) /\ Len(perceptions) = 1
  BY <1>1, <1>2
<1>4. view = NoView /\ view \in Views /\ view.built = FALSE /\ view.post_filter = {}
      /\ view.has_target_frame = FALSE
  BY NoViewTyped DEF ViewInit, NoView
<1>5. Single(view.post_filter) /\ 1 \in 1 .. MaxPerceptions
  BY <1>4, SingleSets, ViewConstants
<1> QED BY <1>3, <1>4, <1>5 DEF ViewInv, ViewTyped

LEMMA ViewNext_Inv == ViewInv /\ [ViewNext]_viewVars => ViewInv'
<1> SUFFICES ASSUME ViewInv, [ViewNext]_viewVars PROVE ViewInv'
  OBVIOUS
<1>1. CASE ViewNext
  BY <1>1, build_Inv, drop_Inv, filter_Inv, downsample_Inv, collapse_later_Inv, collapse_now_Inv,
     fuse_view_Inv, add_Inv, rt_thread_Inv DEF ViewNext
<1>2. CASE UNCHANGED viewVars
  BY <1>2 DEF viewVars, ViewInv, ViewTyped, Aligned, Filters
<1> QED BY <1>1, <1>2

THEOREM ViewInvariance == ViewSpec => []ViewInv
<1> QED BY ViewInit_Inv, ViewNext_Inv, PTL DEF ViewSpec

\* Every variable of a view has a value of its kind, and one for each perception.
THEOREM ViewTypes == ViewSpec => []ViewTypeOK
<1>1. ViewInv => ViewTypeOK
  <2> SUFFICES ASSUME ViewInv PROVE ViewTypeOK
    OBVIOUS
  <2>1. ViewTyped /\ Len(perceptions) \in 1 .. MaxPerceptions /\ view \in Views
        /\ perceptions \in Seq(Shown) /\ Cardinality(view.post_filter) <= 1
        /\ (view.has_target_frame => view.target_frame \in DOMAIN Offset)
    BY DEF ViewInv, ViewTyped, Single
  <2>2. DOMAIN perceptions = 1 .. Len(perceptions)
    BY <2>1
  <2>3. ASSUME NEW i \in DOMAIN perceptions
        PROVE  /\ perceptions[i].valid \in BOOLEAN /\ perceptions[i].frame \in DOMAIN Offset
               /\ \A k \in DOMAIN perceptions[i].cloud : perceptions[i].cloud[k] \in [x : Int, z : Int]
    BY <2>1, <2>2, OnePerception DEF Shown, APoint
  <2>4. ASSUME view.built
        PROVE  /\ DOMAIN view.indices = DOMAIN perceptions /\ DOMAIN view.tf = DOMAIN perceptions
               /\ DOMAIN view.given = DOMAIN perceptions /\ DOMAIN view.last = DOMAIN perceptions
               /\ \A i \in DOMAIN view.tf : view.tf[i] \in {"none", "valid", "failed"}
    <3>1. /\ view.indices \in Seq(SUBSET Nat) /\ view.tf \in Seq(Transforms)
          /\ view.given \in Seq(BOOLEAN) /\ view.last \in Seq(LastFilter)
          /\ Aligned(view, Len(perceptions))
      BY <2>1, <2>4 DEF ViewTyped, Views
    <3>2. /\ DOMAIN view.indices = 1 .. Len(perceptions) /\ DOMAIN view.tf = 1 .. Len(perceptions)
          /\ DOMAIN view.given = 1 .. Len(perceptions) /\ DOMAIN view.last = 1 .. Len(perceptions)
      BY <3>1 DEF Aligned
    <3>3. \A i \in DOMAIN view.tf : view.tf[i] \in Transforms
      BY <3>1
    <3> QED BY <2>2, <3>2, <3>3 DEF Transforms
  <2>5. view.post_filter \subseteq Bounds
    BY <2>1 DEF Views
  <2> QED BY <2>1, <2>3, <2>4, <2>5 DEF ViewTypeOK
<1> QED BY <1>1, ViewInvariance, PTL

\* In whatever order a view is built up over clouds that are replaced under it,
\* and into however many frames it is fused: what it gives is in its target frame,
\* within the last filter in the frame in which it was given, or, when the filter
\* was kept for later, in the target frame of now (filter(), fuse(), add(),
\* as_points()).
THEOREM ViewInFrameAndBounds == ViewSpec => []InFrameAndBounds
<1>1. ViewInv => InFrameAndBounds
  <2> SUFFICES ASSUME ViewInv, view.built, NEW i \in DOMAIN perceptions, NEW k \in as_points(i)
               PROVE  LET point == perceptions[i].cloud[k] IN
                      /\ view.given[i] => perceptions[i].frame = view.target_frame
                                          \/ view.tf[i] = "valid"
                      /\ \A f \in view.last[i] :
                           IF f.kept
                           THEN view.given[i] => Within(Shifted(i, view.target_frame, point), f.bounds)
                           ELSE Within(Shifted(i, f.in, point), f.bounds)
    BY DEF InFrameAndBounds
  <2>1. ViewTyped /\ Filters(view, perceptions) /\ perceptions \in Seq(Shown)
    BY DEF ViewInv, ViewTyped
  <2>2. i \in 1 .. Len(perceptions)
    BY <2>1
  <2>3. PICK p \in Shown : /\ p = perceptions[i]
                           /\ \A j \in DOMAIN p.cloud : p.cloud[j] \in APoint
    BY <2>1, <2>2, OnePerception
  <2>4. PICK l : l = view.last[i]
    OBVIOUS
  <2>5. view.tf[i] \in Transforms
    BY <2>1, <2>2, OnePerception
  <2>6. /\ Filtered(p, view.indices[i], view.post_filter, l)
        /\ Framed(p, view.has_target_frame, view.target_frame, view.tf[i], view.given[i])
    BY <2>1, <2>2, <2>3, <2>4 DEF Filters
  <2>7. /\ k \in There(p, view.indices[i]) /\ p.cloud[k] \in APoint
        /\ ~(view.has_target_frame /\ view.tf[i] = "failed")
        /\ \A bounds \in view.post_filter : Within(Moved(i, p.cloud[k]), bounds)
    BY <2>3 DEF as_points, There
  <2>8. view.given[i] => p.frame = view.target_frame \/ view.tf[i] = "valid"
    BY <2>5, <2>6, <2>7 DEF Framed, Transforms
  <2>9. \A frame : Shifted(i, frame, p.cloud[k]) = Far(p, frame, p.cloud[k])
    BY <2>3 DEF Shifted, Far
  <2>10. view.given[i] => Moved(i, p.cloud[k]) = Shifted(i, view.target_frame, p.cloud[k])
    <3> SUFFICES ASSUME view.given[i]
                 PROVE  Moved(i, p.cloud[k]) = Shifted(i, view.target_frame, p.cloud[k])
      OBVIOUS
    <3>1. view.has_target_frame /\ (view.tf[i] = "valid" \/ view.tf[i] = "none")
      BY <2>5, <2>6, <2>7 DEF Framed, Transforms
    <3>2. CASE view.tf[i] = "valid"
      BY <3>1, <3>2 DEF Moved
    <3>3. CASE view.tf[i] = "none"
      <4>1. Moved(i, p.cloud[k]) = p.cloud[k]
        BY <3>3 DEF Moved
      <4>2. p.frame = view.target_frame
        BY <2>6, <3>3 DEF Framed
      <4>3. Far(p, view.target_frame, p.cloud[k]) = p.cloud[k]
        BY <2>7, <4>2, SameFrame
      <4> QED BY <2>9, <4>1, <4>3
    <3> QED BY <3>1, <3>2, <3>3
  <2>11. ASSUME NEW f \in l, f.kept, view.given[i]
         PROVE  Within(Shifted(i, view.target_frame, p.cloud[k]), f.bounds)
    <3>1. f.bounds \in view.post_filter
      BY <2>6, <2>11 DEF Filtered
    <3> QED BY <2>7, <2>10, <2>11, <3>1
  <2>12. ASSUME NEW f \in l, ~f.kept
         PROVE  Within(Shifted(i, f.in, p.cloud[k]), f.bounds)
    <3>1. InFrame(p, view.indices[i], f)
      BY <2>6, <2>12 DEF Filtered
    <3> QED BY <2>7, <2>9, <3>1 DEF InFrame
  <2> QED BY <2>3, <2>4, <2>8, <2>11, <2>12
<1> QED BY <1>1, ViewInvariance, PTL

-----------------------------------------------------------------------------
(* SensorData: the ring of a point perception, as the sequence it holds.   *)

LEMMA SensorConstants ==
  /\ BufferSize \in Nat \ {0} /\ MaxStamp \in Nat \ {0}
  /\ ForgetTime \in Nat /\ TfWindow \in Nat /\ MaxHandlers \in Nat
  /\ Points \subseteq Sensors /\ Opaque \subseteq Sensors
  /\ Configurable \subseteq Seq(Sensors)
BY SensorAssumption

Slots == 0 .. MaxStamp
BufferRings == Rings(Slots, BufferSize)

Holds(ring, q) ==
  /\ IsRing(ring, Slots, BufferSize) /\ ring \in BufferRings
  /\ q \in Seq(Stamps) /\ q = items(ring) /\ Len(q) = ring.size /\ Len(q) <= BufferSize

HeldValues(q) == {q[i] : i \in 1 .. Len(q)}

LEMMA RingFacts ==
  ASSUME NEW ring, IsRing(ring, Slots, BufferSize)
  PROVE  /\ ring \in BufferRings /\ ring.size \in 0 .. BufferSize
         /\ items(ring) \in Seq(Slots) /\ Len(items(ring)) = ring.size
<1>1. PICK s, t, n : /\ Stored(BufferSize, s, t, n, Slots)
                     /\ ring = Ring(BufferSize, s, After(BufferSize, t, n), t, n)
  BY DEF IsRing
<1>2. PICK h \in 0 .. BufferSize - 1 : h = After(BufferSize, t, n)
  BY <1>1, Behind DEF Stored
<1>3. t \in 0 .. BufferSize - 1 /\ n \in 0 .. BufferSize /\ s \in [0 .. BufferSize - 1 -> Slots]
  BY <1>1 DEF Stored, Place
<1>4. ring = Ring(BufferSize, s, h, t, n)
  BY <1>1, <1>2
<1>5. ring \in BufferRings
  BY <1>2, <1>3, <1>4 DEF Ring, Rings, BufferRings
<1>6. ring.size = n
  BY <1>4, RingFields
<1>7. items(ring) = Items(BufferSize, s, t, n)
  BY <1>4, RingItems
<1>8. Items(BufferSize, s, t, n) \in Seq(Slots) /\ Len(Items(BufferSize, s, t, n)) = n
  BY <1>1, ItemsType
<1> QED BY <1>3, <1>5, <1>6, <1>7, <1>8

LEMMA HeldContents ==
  ASSUME NEW ring, NEW q, Holds(ring, q)
  PROVE  Contents(ring) = HeldValues(q)
BY DEF Holds, Contents, HeldValues

LEMMA Valued ==
  ASSUME NEW q \in Seq(Stamps), NEW v \in Stamps
  PROVE  /\ Append(q, v) \in Seq(Stamps) /\ Len(Append(q, v)) = Len(q) + 1
         /\ HeldValues(Append(q, v)) = HeldValues(q) \cup {v}
<1>1. PICK r \in Seq(Stamps) : /\ r = Append(q, v) /\ Len(r) = Len(q) + 1
                              /\ r[Len(q) + 1] = v /\ \A i \in 1 .. Len(q) : r[i] = q[i]
  <2>1. /\ Append(q, v) \in Seq(Stamps) /\ Len(Append(q, v)) = Len(q) + 1
        /\ Append(q, v)[Len(q) + 1] = v /\ \A i \in 1 .. Len(q) : Append(q, v)[i] = q[i]
    BY Appended
  <2> QED BY <2>1
<1>2. PICK n \in Nat : n = Len(q)
  OBVIOUS
<1>3. \A i : i \in 1 .. n + 1 <=> i \in 1 .. n \/ i = n + 1
  OBVIOUS
<1>4. HeldValues(r) = HeldValues(q) \cup {v}
  BY <1>1, <1>2, <1>3 DEF HeldValues
<1> QED BY <1>1, <1>4

\* push(), of a ring that has room and of one that has none.
LEMMA PushHolds ==
  ASSUME NEW ring, NEW q, Holds(ring, q), NEW v \in Stamps
  PROVE  /\ Len(q) < BufferSize =>
              /\ Holds(push(ring, v), Append(q, v))
              /\ Contents(push(ring, v)) = Contents(ring) \cup {v}
         /\ \E p : Holds(push(ring, v), p)
<1>1. /\ q \in Seq(Stamps) /\ Len(q) = ring.size /\ Len(q) <= BufferSize /\ q = items(ring)
      /\ IsRing(ring, Slots, BufferSize)
  BY DEF Holds
<1>2. v \in Slots /\ BufferSize \in Nat \ {0}
  BY SensorConstants DEF Slots, Stamps
<1>3. PICK r : r = push(ring, v)
  OBVIOUS
<1>4. /\ IsRing(r, Slots, BufferSize)
      /\ items(r) = IF ring.size < BufferSize THEN Append(q, v) ELSE Append(Tail(q), v)
  BY <1>1, <1>2, <1>3, PushIsEnqueue
<1>5. /\ r \in BufferRings /\ r.size \in 0 .. BufferSize /\ Len(items(r)) = r.size
  BY <1>4, RingFacts
<1>6. CASE Len(q) < BufferSize
  <2>1. items(r) = Append(q, v)
    BY <1>1, <1>4, <1>6
  <2>2. Append(q, v) \in Seq(Stamps) /\ HeldValues(Append(q, v)) = HeldValues(q) \cup {v}
    BY <1>1, Valued
  <2>3. Holds(r, Append(q, v))
    BY <1>2, <1>4, <1>5, <2>1, <2>2 DEF Holds
  <2>4. Contents(r) = HeldValues(Append(q, v)) /\ Contents(ring) = HeldValues(q)
    BY <2>3, HeldContents
  <2> QED BY <1>3, <2>2, <2>3, <2>4
<1>7. CASE ~(Len(q) < BufferSize)
  <2>1. items(r) = Append(Tail(q), v)
    BY <1>1, <1>4, <1>7
  <2>2. Tail(q) \in Seq(Stamps)
    <3>1. Len(q) # 0
      BY <1>1, <1>2, <1>7
    <3> QED BY <1>1, <3>1, TailOf
  <2>3. Append(Tail(q), v) \in Seq(Stamps)
    BY <2>2, Valued
  <2>4. Holds(r, Append(Tail(q), v))
    BY <1>2, <1>4, <1>5, <2>1, <2>3 DEF Holds
  <2> QED BY <1>3, <1>7, <2>4
<1> QED BY <1>6, <1>7

Freed(ring) == clear([ring EXCEPT !.slots = [i \in DOMAIN @ |-> 0]])

LEMMA FreedHolds ==
  ASSUME NEW ring, NEW q, Holds(ring, q)
  PROVE  Holds(Freed(ring), << >>)
<1>1. ring \in BufferRings
  BY DEF Holds
<1>2. BufferSize \in Nat \ {0} /\ 0 \in Slots
  BY SensorConstants DEF Slots
<1>3. PICK e : e = NewBuffer(BufferSize, 0)
  OBVIOUS
<1>4. IsRing(e, Slots, BufferSize) /\ items(e) = << >>
  BY <1>2, <1>3, NewIsEmpty
<1>5. Freed(ring) = e
  <2>1. PICK s : s = [i \in DOMAIN ring.slots |-> 0]
    OBVIOUS
  <2>2. DOMAIN ring.slots = 0 .. BufferSize - 1 /\ ring.capacity = BufferSize
    BY <1>1 DEF BufferRings, Rings
  <2>3. s = [i \in 0 .. BufferSize - 1 |-> 0]
    BY <2>1, <2>2
  <2>4. s \in [0 .. BufferSize - 1 -> Slots]
    BY <1>2, <2>3
  <2>5. PICK r \in Record([0 .. BufferSize - 1 -> Slots]) : r = [ring EXCEPT !.slots = s]
    <3>1. ring \in Record([0 .. BufferSize - 1 -> Slots])
      BY <1>1, <1>2 DEF BufferRings, Rings, Record
    <3> QED BY <2>4, <3>1 DEF Record
  <2>6. r.slots = s /\ r.capacity = BufferSize
    BY <1>1, <2>2, <2>5 DEF BufferRings, Rings
  <2>7. PICK w : w = [r EXCEPT !.head = 0, !.tail = 0, !.size = 0]
    OBVIOUS
  <2>8. w = Ring(BufferSize, s, 0, 0, 0)
    BY <2>5, <2>6, <2>7 DEF Record, Ring
  <2>9. Freed(ring) = w
    BY <2>1, <2>5, <2>7 DEF Freed, clear
  <2>10. e = Ring(BufferSize, s, 0, 0, 0)
    BY <1>3, <2>3 DEF NewBuffer, Ring
  <2> QED BY <2>8, <2>9, <2>10
<1>6. e \in BufferRings /\ Len(items(e)) = e.size
  BY <1>4, RingFacts
<1>7. << >> \in Seq(Stamps) /\ Len(<< >>) = 0 /\ 0 <= BufferSize
  BY <1>2
<1> QED BY <1>4, <1>5, <1>6, <1>7 DEF Holds

LEMMA NewHolds == Holds(NewBuffer(BufferSize, 0), << >>)
<1>1. BufferSize \in Nat \ {0} /\ 0 \in Slots
  BY SensorConstants DEF Slots
<1>2. PICK e : e = NewBuffer(BufferSize, 0) /\ IsRing(e, Slots, BufferSize) /\ items(e) = << >>
  BY <1>1, NewIsEmpty
<1>3. e \in BufferRings /\ Len(items(e)) = e.size
  BY <1>2, RingFacts
<1>4. << >> \in Seq(Stamps) /\ Len(<< >>) = 0 /\ 0 <= BufferSize
  BY <1>1
<1> QED BY <1>2, <1>3, <1>4 DEF Holds

-----------------------------------------------------------------------------
(* What integrate_pending_perceptions() chooses and keeps.                 *)

\* v is the one to show of the values V.
Newest(v, V) ==
  /\ v \in V
  /\ \A w \in V : has_tf(w) => has_tf(v) /\ w <= v
  /\ ~has_tf(v) => \A w \in V : w <= v

\* There is a first of the newest ones among some positions.
LEMMA FirstNewest ==
  ASSUME NEW q \in Seq(Stamps), NEW among, among \subseteq 1 .. Len(q), among # {}
  PROVE  \E i \in among : \A j \in among : q[j] < q[i] \/ (q[j] = q[i] /\ i <= j)
<1>1. MaxStamp \in Nat /\ \A i \in among : q[i] \in 1 .. MaxStamp /\ i \in Nat
  BY SensorConstants DEF Stamps
<1>2. PICK ages : ages = {MaxStamp - q[i] : i \in among}
  OBVIOUS
<1>3. ages \subseteq Nat /\ ages # {}
  <2>1. \A i \in among : MaxStamp - q[i] \in Nat
    BY <1>1
  <2> QED BY <1>2, <2>1
<1>4. PICK age \in ages : \A a \in ages : age <= a
  BY <1>3, NatLeast
<1>5. PICK first : first = {i \in among : MaxStamp - q[i] = age}
  OBVIOUS
<1>6. first \subseteq Nat /\ first # {}
  BY <1>1, <1>2, <1>4, <1>5
<1>7. PICK i \in first : \A j \in first : i <= j
  BY <1>6, NatLeast
<1>8. ASSUME NEW j \in among PROVE q[j] < q[i] \/ (q[j] = q[i] /\ i <= j)
  <2>1. age <= MaxStamp - q[j] /\ MaxStamp - q[i] = age
    BY <1>2, <1>4, <1>5, <1>7
  <2>2. q[i] \in Nat /\ q[j] \in Nat
    BY <1>1, <1>5, <1>7
  <2>3. CASE MaxStamp - q[j] = age
    <3>1. j \in first
      BY <1>5, <2>3
    <3>2. q[j] = q[i]
      BY <1>1, <2>1, <2>2, <2>3
    <3> QED BY <1>7, <3>1, <3>2
  <2>4. CASE MaxStamp - q[j] # age
    <3>1. q[j] < q[i]
      BY <1>1, <2>1, <2>2, <2>4
    <3> QED BY <3>1
  <2> QED BY <2>3, <2>4
<1> QED BY <1>5, <1>7, <1>8

\* The code's two passes in one: the newest that TF can transform, or the newest.
LEMMA SelectedIsNewest ==
  ASSUME NEW q \in Seq(Stamps), Len(q) # 0
  PROVE  q[Selected(q)] \in Stamps /\ Newest(q[Selected(q)], HeldValues(q))
<1>1. DOMAIN q = 1 .. Len(q) /\ Len(q) \in Nat /\ \A i \in 1 .. Len(q) : q[i] \in Stamps
  OBVIOUS
<1>2. \A i \in 1 .. Len(q) : q[i] \in Int
  BY <1>1, SensorConstants DEF Stamps
<1>3. PICK usable : usable = {i \in DOMAIN q : has_tf(q[i])}
  OBVIOUS
<1>4. PICK among : among = IF usable # {} THEN usable ELSE DOMAIN q
  OBVIOUS
<1>5. among \subseteq 1 .. Len(q) /\ among # {}
  <2>1. 1 \in 1 .. Len(q)
    BY <1>1
  <2> QED BY <1>1, <1>3, <1>4, <2>1
<1>6. PICK s : s = CHOOSE i \in among : \A j \in among : q[j] < q[i] \/ (q[j] = q[i] /\ i <= j)
  OBVIOUS
<1>7. s \in among /\ \A j \in among : q[j] < q[s] \/ (q[j] = q[s] /\ s <= j)
  <2>1. \E i \in among : \A j \in among : q[j] < q[i] \/ (q[j] = q[i] /\ i <= j)
    BY <1>5, FirstNewest
  <2> QED BY <1>6, <2>1
<1>8. Selected(q) = s
  BY <1>3, <1>4, <1>6 DEF Selected
<1>9. s \in 1 .. Len(q) /\ \A j \in among : q[j] <= q[s]
  BY <1>2, <1>5, <1>7
<1>10. q[s] \in HeldValues(q) /\ q[s] \in Stamps
  BY <1>1, <1>9 DEF HeldValues
<1>11. CASE usable # {}
  <2>1. has_tf(q[s])
    BY <1>3, <1>4, <1>7, <1>11
  <2>2. ASSUME NEW w \in HeldValues(q), has_tf(w) PROVE w <= q[s]
    <3>1. PICK j \in 1 .. Len(q) : w = q[j]
      BY DEF HeldValues
    <3>2. j \in among
      BY <1>1, <1>3, <1>4, <1>11, <2>2, <3>1
    <3> QED BY <1>9, <3>1, <3>2
  <2> QED BY <1>8, <1>10, <2>1, <2>2 DEF Newest
<1>12. CASE usable = {}
  <2>1. \A w \in HeldValues(q) : ~has_tf(w)
    BY <1>1, <1>3, <1>12 DEF HeldValues
  <2>2. \A w \in HeldValues(q) : w <= q[s]
    BY <1>1, <1>4, <1>9, <1>12 DEF HeldValues
  <2> QED BY <1>8, <1>10, <2>1, <2>2 DEF Newest
<1> QED BY <1>11, <1>12

\* The ring is rebuilt from those that are needed.
LEMMA RebuiltHolds ==
  ASSUME NEW ring, Holds(ring, << >>), NEW q \in Seq(Stamps), Len(q) <= BufferSize,
         NEW chosen \in Stamps
  PROVE  \E p : /\ Holds(Rebuilt(ring, q, chosen), p)
                /\ HeldValues(p) = {v \in HeldValues(q) : needed(v, chosen)}
<1> DEFINE Is(f, m) ==
      f = [n \in 0 .. m |->
             IF n = 0 THEN ring
             ELSE IF needed(q[n], chosen) THEN push(f[n - 1], q[n])
             ELSE f[n - 1]]
<1>1. \A m \in Nat : \E f : Is(f, m)
  <2> DEFINE Some == {m \in Nat : \E f : Is(f, m)}
  <2>1. 0 \in Some
    <3>1. PICK f : f = [n \in 0 .. 0 |-> ring]
      OBVIOUS
    <3>2. \A n \in 0 .. 0 : n = 0
      OBVIOUS
    <3>3. Is(f, 0)
      BY <3>1, <3>2
    <3> QED BY <3>3
  <2>2. ASSUME NEW m \in Nat, m \in Some PROVE m + 1 \in Some
    <3>1. PICK f : Is(f, m)
      BY <2>2
    <3>2. PICK g : g = [n \in 0 .. m + 1 |->
                         IF n \in 0 .. m THEN f[n]
                         ELSE IF needed(q[n], chosen) THEN push(f[n - 1], q[n])
                         ELSE f[n - 1]]
      OBVIOUS
    <3>3. ASSUME NEW n \in 0 .. m + 1
          PROVE  g[n] = IF n = 0 THEN ring
                        ELSE IF needed(q[n], chosen) THEN push(g[n - 1], q[n])
                        ELSE g[n - 1]
      <4>1. CASE n = 0
        <5>1. 0 \in 0 .. m /\ 0 \in 0 .. m + 1
          OBVIOUS
        <5> QED BY <3>1, <3>2, <4>1, <5>1
      <4>2. CASE n \in 1 .. m
        <5>1. n \in 0 .. m /\ n - 1 \in 0 .. m /\ n - 1 \in 0 .. m + 1 /\ n # 0
          BY <4>2
        <5> QED BY <3>1, <3>2, <5>1
      <4>3. CASE n = m + 1
        <5>1. n \notin 0 .. m /\ n - 1 \in 0 .. m /\ n - 1 \in 0 .. m + 1 /\ n # 0
          BY <4>3
        <5> QED BY <3>2, <5>1
      <4>4. n = 0 \/ n \in 1 .. m \/ n = m + 1
        OBVIOUS
      <4> QED BY <4>1, <4>2, <4>3, <4>4
    <3>4. g = [n \in 0 .. m + 1 |-> g[n]]
      BY <3>2
    <3>5. Is(g, m + 1)
      BY <3>3, <3>4
    <3> QED BY <3>5
  <2> HIDE DEF Some
  <2>3. Nat \subseteq Some
    BY <2>1, <2>2, NatSetInduction
  <2> USE DEF Some
  <2> QED BY <2>3
<1>2. PICK k \in Nat : k = Len(q) /\ k <= BufferSize
  OBVIOUS
<1> DEFINE pushed == CHOOSE f : Is(f, k)
<1>3. Is(pushed, k)
  <2>1. \E f : Is(f, k)
    BY <1>1
  <2> HIDE DEF Is
  <2> QED BY <2>1
<1>4. Rebuilt(ring, q, chosen) = pushed[k]
  BY <1>2 DEF Rebuilt
<1> HIDE DEF pushed
<1>5. /\ pushed[0] = ring
      /\ \A n \in 1 .. k :
           pushed[n] = IF needed(q[n], chosen) THEN push(pushed[n - 1], q[n]) ELSE pushed[n - 1]
  <2>1. 0 \in 0 .. k /\ \A n \in 1 .. k : n \in 0 .. k /\ n # 0
    OBVIOUS
  <2> QED BY <1>3, <2>1
<1> HIDE DEF Is
<1> DEFINE Wanted(n) == {v \in {q[i] : i \in 1 .. n} : needed(v, chosen)}
           Done(n) == \E p : Holds(pushed[n], p) /\ Len(p) <= n /\ HeldValues(p) = Wanted(n)
           All == {n \in Nat : n <= k => Done(n)}
<1>6. 0 \in All
  <2>1. Len(<< >>) <= 0 /\ HeldValues(<< >>) = {} /\ Wanted(0) = {}
    BY DEF HeldValues
  <2>2. Done(0)
    BY <1>5, <2>1
  <2> QED BY <2>2
<1>7. ASSUME NEW n \in Nat, n \in All PROVE n + 1 \in All
  <2> SUFFICES ASSUME n + 1 <= k PROVE Done(n + 1)
    OBVIOUS
  <2>1. n <= k /\ n + 1 \in 1 .. k /\ (n + 1) - 1 = n
    BY <1>2
  <2>2. PICK p : Holds(pushed[n], p) /\ Len(p) <= n /\ HeldValues(p) = Wanted(n)
    BY <1>7, <2>1
  <2>3. q[n + 1] \in Stamps
    BY <1>2, <2>1
  <2>4. \A i : i \in 1 .. n + 1 <=> i \in 1 .. n \/ i = n + 1
    OBVIOUS
  <2>5. p \in Seq(Stamps) /\ Len(p) \in Nat
    BY <2>2 DEF Holds
  <2>6. CASE needed(q[n + 1], chosen)
    <3>1. pushed[n + 1] = push(pushed[n], q[n + 1])
      BY <1>5, <2>1, <2>6
    <3>2. Len(p) < BufferSize
      BY <1>2, <2>1, <2>2, <2>5, SensorConstants
    <3>3. Holds(push(pushed[n], q[n + 1]), Append(p, q[n + 1]))
      BY <2>2, <2>3, <3>2, PushHolds
    <3>4. /\ Len(Append(p, q[n + 1])) = Len(p) + 1
          /\ HeldValues(Append(p, q[n + 1])) = HeldValues(p) \cup {q[n + 1]}
      BY <2>3, <2>5, Valued
    <3>5. Len(Append(p, q[n + 1])) <= n + 1
      BY <2>2, <2>5, <3>4
    <3>6. Wanted(n + 1) = Wanted(n) \cup {q[n + 1]}
      BY <2>4, <2>6
    <3>7. HeldValues(Append(p, q[n + 1])) = Wanted(n + 1)
      BY <2>2, <3>4, <3>6
    <3> HIDE DEF Wanted
    <3> QED BY <3>1, <3>3, <3>5, <3>7
  <2>7. CASE ~needed(q[n + 1], chosen)
    <3>1. pushed[n + 1] = pushed[n]
      BY <1>5, <2>1, <2>7
    <3>2. Wanted(n + 1) = Wanted(n)
      BY <2>4, <2>7
    <3>3. Len(p) <= n + 1
      BY <2>2, <2>5
    <3> HIDE DEF Wanted
    <3> QED BY <2>2, <3>1, <3>2, <3>3
  <2> QED BY <2>6, <2>7
<1>8. Done(k)
  <2>1. Nat \subseteq All
    <3> HIDE DEF All
    <3> QED BY <1>6, <1>7, NatSetInduction
  <2> HIDE DEF Done
  <2>2. k \in All /\ k <= k
    BY <2>1
  <2> QED BY <2>2
<1>9. Wanted(k) = {v \in HeldValues(q) : needed(v, chosen)}
  BY <1>2 DEF HeldValues
<1> HIDE DEF Wanted
<1> QED BY <1>4, <1>8, <1>9

-----------------------------------------------------------------------------
(* One perception: what has arrived is covered by what is in its buffer.   *)

\* t is the latest that TF covers: a stamp that is gone is no longer needed,
\* because TF can transform a newer one.
Covered(arrived, held, t) ==
  \A a \in arrived : \E h \in held : h = a \/ (a < h /\ h <= t)

Good(d, t) ==
  /\ d \in Perception
  /\ d.valid => d.stamp # 0
  /\ \E q : Holds(d.buffer, q)
  /\ Covered(d.arrived, Contents(d.buffer), t)

LEMMA PerceptionFields ==
  ASSUME NEW d \in Perception
  PROVE  /\ d.stamp \in Slots /\ d.valid \in BOOLEAN /\ d.buffer \in BufferRings
         /\ d.arrived \in SUBSET Stamps /\ d.expired \in BOOLEAN
BY DEF Perception, Slots, BufferRings

LEMMA NewPerceptionGood == \A t : Good(NoPerception, t)
<1>1. Holds(NewBuffer(BufferSize, 0), << >>)
  BY NewHolds
<1>2. NewBuffer(BufferSize, 0) \in BufferRings
  BY <1>1 DEF Holds
<1>3. 0 \in 0 .. MaxStamp
  BY SensorConstants
<1>4. NoPerception \in Perception
  BY <1>2, <1>3 DEF NoPerception, Perception, BufferRings, Slots
<1>5. NoPerception.buffer = NewBuffer(BufferSize, 0) /\ NoPerception.valid = FALSE
      /\ NoPerception.arrived = {}
  BY DEF NoPerception
<1> QED BY <1>1, <1>4, <1>5 DEF Good, Covered

\* What is shown changes, or what is in the buffer.
ShownAs(d, s, r, w) ==
  w \in Perception /\ w.stamp = s /\ w.valid = TRUE /\ w.buffer = r /\ w.arrived = d.arrived

PushedAs(d, r, A, w) ==
  w \in Perception /\ w.stamp = d.stamp /\ w.valid = d.valid /\ w.buffer = r /\ w.arrived = A

LEMMA ShownData ==
  ASSUME NEW d \in Perception, NEW s \in Slots, NEW r \in BufferRings
  PROVE  ShownAs(d, s, r, [d EXCEPT !.stamp = s, !.valid = TRUE, !.buffer = r])
<1>1. PICK a \in Perception : a = [d EXCEPT !.stamp = s]
  BY DEF Perception, Slots
<1>2. PICK b \in Perception : b = [a EXCEPT !.valid = TRUE]
  BY DEF Perception
<1>3. PICK w \in Perception : w = [b EXCEPT !.buffer = r]
  BY DEF Perception, BufferRings, Slots
<1>4. w = [d EXCEPT !.stamp = s, !.valid = TRUE, !.buffer = r]
  BY <1>1, <1>2, <1>3
<1>5. w.stamp = s /\ w.valid = TRUE /\ w.buffer = r /\ w.arrived = d.arrived
  BY <1>1, <1>2, <1>3 DEF Perception
<1> QED BY <1>4, <1>5 DEF ShownAs

LEMMA PushedData ==
  ASSUME NEW d \in Perception, NEW r \in BufferRings, NEW A \in SUBSET Stamps
  PROVE  PushedAs(d, r, A, [d EXCEPT !.buffer = r, !.arrived = A, !.expired = FALSE])
<1>1. PICK a \in Perception : a = [d EXCEPT !.buffer = r]
  BY DEF Perception, BufferRings, Slots
<1>2. PICK b \in Perception : b = [a EXCEPT !.arrived = A]
  BY DEF Perception
<1>3. PICK w \in Perception : w = [b EXCEPT !.expired = FALSE]
  BY DEF Perception
<1>4. w = [d EXCEPT !.buffer = r, !.arrived = A, !.expired = FALSE]
  BY <1>1, <1>2, <1>3
<1>5. w.stamp = d.stamp /\ w.valid = d.valid /\ w.buffer = r /\ w.arrived = A
  BY <1>1, <1>2, <1>3 DEF Perception
<1> QED BY <1>4, <1>5 DEF PushedAs

\* What integrates is as good, and shows the newest.
LEMMA IntegrateGood ==
  ASSUME NEW d, Good(d, tf_last), tf_last \in Int
  PROVE  /\ Good(integrate_pending_perceptions(d), tf_last)
         /\ ShowsNewest(integrate_pending_perceptions(d))
<1>1. d \in Perception /\ Covered(d.arrived, Contents(d.buffer), tf_last)
  BY DEF Good
<1>2. PICK q : Holds(d.buffer, q)
  BY DEF Good
<1>3. /\ q \in Seq(Stamps) /\ q = items(d.buffer) /\ Len(q) = d.buffer.size
      /\ Len(q) <= BufferSize /\ Contents(d.buffer) = HeldValues(q)
  BY <1>2, HeldContents DEF Holds
<1>4. \A v \in Stamps : v \in Int /\ v # 0 /\ v \in Slots
  BY SensorConstants DEF Stamps, Slots
<1>5. d.arrived \subseteq Stamps /\ HeldValues(q) \subseteq Stamps
  BY <1>1, <1>3, PerceptionFields DEF HeldValues
<1>6. TfWindow \in Nat
  BY SensorConstants
<1>7. CASE d.buffer.size = 0
  <2>1. integrate_pending_perceptions(d) = d
    BY <1>7 DEF integrate_pending_perceptions
  <2>2. HeldValues(q) = {}
    BY <1>3, <1>7 DEF HeldValues
  <2>3. d.arrived = {}
    BY <1>1, <1>3, <2>2 DEF Covered
  <2> QED BY <2>1, <2>3 DEF ShowsNewest
<1>8. CASE d.buffer.size # 0
  <2>1. PICK c : c = q[Selected(q)]
    OBVIOUS
  <2>2. c \in Stamps /\ Newest(c, HeldValues(q))
    BY <1>3, <1>8, <2>1, SelectedIsNewest
  <2>3. PICK r : r = Rebuilt(Freed(d.buffer), q, c)
    OBVIOUS
  <2>4. PICK p : Holds(r, p) /\ HeldValues(p) = {v \in HeldValues(q) : needed(v, c)}
    <3>1. Holds(Freed(d.buffer), << >>)
      BY <1>2, FreedHolds
    <3> QED BY <1>3, <2>2, <2>3, <3>1, RebuiltHolds
  <2>5. r \in BufferRings /\ Contents(r) = HeldValues(p)
    BY <2>4, HeldContents DEF Holds
  <2>6. PICK w : /\ w = [d EXCEPT !.stamp = c, !.valid = TRUE, !.buffer = r]
                 /\ ShownAs(d, c, r, w)
    <3>1. c \in Slots
      BY <1>4, <2>2
    <3> QED BY <1>1, <2>5, <3>1, ShownData
  <2>7. integrate_pending_perceptions(d) = w
    BY <1>3, <1>8, <2>1, <2>3, <2>6 DEF integrate_pending_perceptions, Freed
  <2>8. Covered(d.arrived, HeldValues(p), tf_last)
    <3> SUFFICES ASSUME NEW a \in d.arrived
                 PROVE  \E h \in HeldValues(p) : h = a \/ (a < h /\ h <= tf_last)
      BY DEF Covered
    <3>1. PICK h \in HeldValues(q) : h = a \/ (a < h /\ h <= tf_last)
      BY <1>1, <1>3 DEF Covered
    <3>2. CASE needed(h, c)
      BY <2>4, <3>1, <3>2
    <3>3. CASE ~needed(h, c)
      <4>1. has_tf(c) /\ h < c
        BY <1>4, <1>5, <2>2, <3>3 DEF needed
      <4>2. c <= tf_last
        BY <1>4, <1>6, <2>2, <4>1 DEF has_tf
      <4>3. c \in HeldValues(p)
        <5>1. needed(c, c)
          BY <1>4, <2>2 DEF needed
        <5> QED BY <2>2, <2>4, <5>1 DEF Newest
      <4>4. a < c
        BY <1>4, <1>5, <2>2, <3>1, <4>1
      <4> QED BY <4>2, <4>3, <4>4
    <3> QED BY <3>2, <3>3
  <2>9. Good(w, tf_last)
    BY <1>4, <2>2, <2>4, <2>5, <2>6, <2>8 DEF Good, ShownAs
  <2>10. ASSUME NEW a \in d.arrived
         PROVE  (has_tf(a) => a <= c) /\ (~has_tf(c) => a <= c)
    <3>1. PICK h \in HeldValues(q) : h = a \/ (a < h /\ h <= tf_last)
      BY <1>1, <1>3 DEF Covered
    <3>2. a \in Int /\ h \in Int /\ c \in Int
      BY <1>4, <1>5, <2>2
    <3>3. has_tf(h) => h <= c
      BY <2>2 DEF Newest
    <3>4. ~has_tf(c) => h <= c
      BY <2>2 DEF Newest
    <3>5. has_tf(a) => has_tf(h)
      BY <1>6, <3>1, <3>2 DEF has_tf
    <3>6. (has_tf(a) => a <= c)
      BY <3>1, <3>2, <3>3, <3>5
    <3>7. ~has_tf(c) => a <= c
      BY <3>1, <3>2, <3>4
    <3> QED BY <3>6, <3>7
  <2>11. ShowsNewest(w)
    BY <2>6, <2>10 DEF ShowsNewest, ShownAs
  <2> QED BY <2>7, <2>9, <2>11
<1> QED BY <1>7, <1>8

LEMMA ReceiveGood ==
  ASSUME NEW d, Good(d, tf_last), tf_last \in Int, NEW stamp \in Stamps
  PROVE  /\ Good(receive_points(d, stamp), tf_last)
         /\ ShowsNewest(receive_points(d, stamp))
<1>1. d \in Perception /\ Covered(d.arrived, Contents(d.buffer), tf_last)
  BY DEF Good
<1>2. PICK q : Holds(d.buffer, q)
  BY DEF Good
<1>3. PICK r : r = push(d.buffer, stamp)
  OBVIOUS
<1>4. PICK p : Holds(r, p)
  BY <1>2, <1>3, PushHolds
<1>5. r \in BufferRings /\ Contents(r) = HeldValues(p) /\ p \in Seq(Stamps)
  BY <1>4, HeldContents DEF Holds
<1>6. PICK A : A = Arrived(d, stamp)
  OBVIOUS
<1>7. A \in SUBSET Stamps /\ Covered(A, Contents(r), tf_last)
  <2>1. CASE d.buffer.size = BufferSize
    <3>1. A = Contents(r)
      BY <1>3, <1>6, <2>1 DEF Arrived
    <3>2. HeldValues(p) \subseteq Stamps
      BY <1>5 DEF HeldValues
    <3> QED BY <1>5, <3>1, <3>2 DEF Covered
  <2>2. CASE d.buffer.size # BufferSize
    <3>1. A = d.arrived \cup {stamp}
      BY <1>6, <2>2 DEF Arrived
    <3>2. Len(q) < BufferSize
      <4>1. Len(q) = d.buffer.size /\ Len(q) <= BufferSize /\ Len(q) \in Nat
        BY <1>2 DEF Holds
      <4> QED BY <2>2, <4>1, SensorConstants
    <3>3. Contents(r) = Contents(d.buffer) \cup {stamp}
      BY <1>2, <1>3, <3>2, PushHolds
    <3>4. d.arrived \in SUBSET Stamps
      BY <1>1, PerceptionFields
    <3> QED BY <1>1, <3>1, <3>3, <3>4 DEF Covered
  <2> QED BY <2>1, <2>2
<1>8. PICK w : /\ w = [d EXCEPT !.buffer = r, !.arrived = A, !.expired = FALSE]
               /\ PushedAs(d, r, A, w)
  BY <1>1, <1>5, <1>7, PushedData
<1>9. Good(w, tf_last)
  <2>1. d.valid => d.stamp # 0
    BY DEF Good
  <2> QED BY <1>4, <1>7, <1>8, <2>1 DEF Good, PushedAs
<1>10. receive_points(d, stamp) = integrate_pending_perceptions(w)
  BY <1>3, <1>6, <1>8 DEF receive_points
<1> QED BY <1>9, <1>10, IntegrateGood

\* The other callbacks and the age check touch neither the buffer nor what arrived.
LEMMA MarkedGood ==
  ASSUME NEW d, NEW t, Good(d, t), NEW s \in Slots, NEW v \in BOOLEAN, v => s # 0
  PROVE  /\ Good([d EXCEPT !.stamp = s, !.valid = v], t)
         /\ Good([d EXCEPT !.stamp = s, !.valid = v, !.expired = FALSE], t)
<1>1. d \in Perception
  BY DEF Good
<1>2. PICK a \in Perception : a = [d EXCEPT !.stamp = s]
  BY <1>1 DEF Perception, Slots
<1>3. PICK b \in Perception : b = [a EXCEPT !.valid = v]
  BY DEF Perception
<1>4. PICK e \in Perception : e = [b EXCEPT !.expired = FALSE]
  BY DEF Perception
<1>5. b = [d EXCEPT !.stamp = s, !.valid = v]
      /\ e = [d EXCEPT !.stamp = s, !.valid = v, !.expired = FALSE]
  BY <1>2, <1>3, <1>4
<1>6. /\ b.stamp = s /\ b.valid = v /\ b.buffer = d.buffer /\ b.arrived = d.arrived
      /\ e.stamp = s /\ e.valid = v /\ e.buffer = d.buffer /\ e.arrived = d.arrived
  BY <1>1, <1>2, <1>3, <1>4 DEF Perception
<1>7. Good(b, t)
  BY <1>6 DEF Good
<1>8. Good(e, t)
  BY <1>6 DEF Good
<1> QED BY <1>5, <1>7, <1>8

LEMMA ExpiredGood ==
  ASSUME NEW d, NEW t, Good(d, t)
  PROVE  /\ Good([d EXCEPT !.valid = FALSE, !.expired = TRUE], t)
         /\ [d EXCEPT !.valid = FALSE, !.expired = TRUE].valid = FALSE
         /\ [d EXCEPT !.valid = FALSE, !.expired = TRUE].stamp = d.stamp
<1>1. d \in Perception
  BY DEF Good
<1>2. PICK a \in Perception : a = [d EXCEPT !.valid = FALSE]
  BY <1>1 DEF Perception
<1>3. PICK e \in Perception : e = [a EXCEPT !.expired = TRUE]
  BY DEF Perception
<1>4. e = [d EXCEPT !.valid = FALSE, !.expired = TRUE]
  BY <1>2, <1>3
<1>5. e.stamp = d.stamp /\ e.valid = FALSE /\ e.buffer = d.buffer /\ e.arrived = d.arrived
  BY <1>1, <1>2, <1>3 DEF Perception
<1>6. Good(e, t)
  BY <1>5 DEF Good
<1> QED BY <1>4, <1>5, <1>6

\* TF learns of later stamps.
LEMMA LaterGood ==
  ASSUME NEW d, NEW t \in Int, NEW u \in Int, t <= u, Good(d, t)
  PROVE  Good(d, u)
<1>1. d \in Perception
  BY DEF Good
<1>2. PICK q : Holds(d.buffer, q)
  BY DEF Good
<1>3. Contents(d.buffer) = HeldValues(q) /\ HeldValues(q) \subseteq Stamps
  BY <1>2, HeldContents DEF Holds, HeldValues
<1>4. Stamps \subseteq Int
  BY SensorConstants DEF Stamps
<1>5. Covered(d.arrived, Contents(d.buffer), u)
  <2>1. ASSUME NEW h \in Contents(d.buffer), h <= t PROVE h <= u
    <3>1. h \in Int
      BY <1>3, <1>4
    <3> QED BY <2>1, <3>1
  <2>2. Covered(d.arrived, Contents(d.buffer), t)
    BY DEF Good
  <2> QED BY <2>1, <2>2 DEF Covered
<1> QED BY <1>5 DEF Good

-----------------------------------------------------------------------------
(* The inductive invariant of the sensors: types, good perceptions, and    *)
(* diagnostics that say what the states of the last check say.             *)

Handlers == [sensor : Sensors, data : Perception]
Named(H) == {H[i].sensor : i \in DOMAIN H}
InState(H, states, state) == {H[i].sensor : i \in {j \in DOMAIN states : states[j] = state}}

AllGood(H, t) == \A i \in 1 .. Len(H) : Good(H[i].data, t)

SensorsTyped ==
  /\ sensors_node \in {"unconfigured", "inactive", "active"}
  /\ handler_list \in Seq(Handlers) /\ Len(handler_list) <= MaxHandlers
  /\ data_states \in Seq(DataState)
  /\ data_age_reported \in BOOLEAN
  /\ shown \subseteq Named(handler_list)
  /\ no_data \subseteq Sensors /\ stale \subseteq Sensors
  /\ now \in Stamps /\ tf_last \in 0 .. now

Diagnosed ==
  /\ Len(data_states) = Len(handler_list)
  /\ \A i \in 1 .. Len(handler_list) :
       handler_list[i].sensor \in Opaque => data_states[i] = "NO_DATA"
  /\ data_age_reported => /\ no_data = InState(handler_list, data_states, "NO_DATA")
                          /\ stale = InState(handler_list, data_states, "STALE")

SensorsInv ==
  /\ SensorsTyped
  /\ AllGood(handler_list, tf_last)
  /\ sensors_node # "unconfigured" => Diagnosed

\* K has the handlers of H, with other data.
Updated(H, K) ==
  /\ K \in Seq(Handlers) /\ Len(K) = Len(H)
  /\ \A i \in 1 .. Len(H) : K[i].sensor = H[i].sensor

LEMMA HandlerData ==
  ASSUME NEW h \in Handlers, NEW d \in Perception
  PROVE  /\ [h EXCEPT !.data = d] \in Handlers
         /\ [h EXCEPT !.data = d].sensor = h.sensor /\ [h EXCEPT !.data = d].data = d
BY DEF Handlers

LEMMA HandlerFields ==
  ASSUME NEW H \in Seq(Handlers), NEW i \in 1 .. Len(H)
  PROVE  H[i] \in Handlers /\ H[i].sensor \in Sensors /\ H[i].data \in Perception
<1>1. H[i] \in Handlers
  OBVIOUS
<1> QED BY <1>1 DEF Handlers

LEMMA SameNames ==
  ASSUME NEW H \in Seq(Handlers), NEW K, Updated(H, K)
  PROVE  Named(K) = Named(H)
<1>1. DOMAIN H = 1 .. Len(H) /\ DOMAIN K = 1 .. Len(H)
  BY DEF Updated
<1> QED BY <1>1 DEF Named, Updated

LEMMA SameInState ==
  ASSUME NEW H \in Seq(Handlers), NEW K, Updated(H, K), NEW states \in Seq(DataState),
         Len(states) = Len(H), NEW state
  PROVE  InState(K, states, state) = InState(H, states, state)
<1>1. DOMAIN states = 1 .. Len(H)
  OBVIOUS
<1> QED BY <1>1 DEF InState, Updated

LEMMA InStateNames ==
  ASSUME NEW H \in Seq(Handlers), NEW states \in Seq(DataState), Len(states) = Len(H), NEW state
  PROVE  InState(H, states, state) \subseteq Sensors
<1>1. DOMAIN states = 1 .. Len(H) /\ \A i \in 1 .. Len(H) : H[i].sensor \in Sensors
  BY HandlerFields
<1> QED BY <1>1 DEF InState

\* One handler gets other data.
OneIs(H, i, d, K) ==
  /\ Updated(H, K) /\ K[i].data = d
  /\ \A j \in 1 .. Len(H) : j # i => K[j] = H[j]

LEMMA OneUpdated ==
  ASSUME NEW H \in Seq(Handlers), NEW i \in 1 .. Len(H), NEW d \in Perception
  PROVE  OneIs(H, i, d, [H EXCEPT ![i].data = d])
<1>1. PICK n \in Nat : n = Len(H) /\ H \in [1 .. n -> Handlers] /\ DOMAIN H = 1 .. n
  OBVIOUS
<1>2. PICK h : h = [H[i] EXCEPT !.data = d]
  OBVIOUS
<1>3. h \in Handlers /\ h.sensor = H[i].sensor /\ h.data = d
  BY <1>2, HandlerData
<1>4. PICK K : K = [H EXCEPT ![i] = h]
  OBVIOUS
<1>5. K \in [1 .. n -> Handlers] /\ K[i] = h /\ \A j \in 1 .. n : j # i => K[j] = H[j]
  BY <1>1, <1>3, <1>4
<1>6. K \in Seq(Handlers) /\ Len(K) = n
  BY <1>5
<1>7. K = [H EXCEPT ![i].data = d]
  BY <1>1, <1>2, <1>4
<1>8. Updated(H, K)
  BY <1>1, <1>3, <1>5, <1>6 DEF Updated
<1> QED BY <1>1, <1>3, <1>5, <1>7, <1>8 DEF OneIs

\* Each handler gets data of its own.
EachIs(H, D, K) == K = [i \in DOMAIN H |-> [H[i] EXCEPT !.data = D[i]]]

LEMMA EachUpdated ==
  ASSUME NEW H \in Seq(Handlers), NEW D \in [DOMAIN H -> Perception], NEW K, EachIs(H, D, K)
  PROVE  Updated(H, K) /\ \A i \in 1 .. Len(H) : K[i].data = D[i]
<1>1. PICK n \in Nat : n = Len(H) /\ DOMAIN H = 1 .. n
  OBVIOUS
<1>a. K = [i \in DOMAIN H |-> [H[i] EXCEPT !.data = D[i]]]
  BY DEF EachIs
<1>2. ASSUME NEW i \in 1 .. n
      PROVE  K[i] \in Handlers /\ K[i].sensor = H[i].sensor /\ K[i].data = D[i]
  <2>1. PICK h \in Handlers : h = H[i]
    BY <1>1
  <2>2. PICK d \in Perception : d = D[i]
    BY <1>1
  <2>3. K[i] = [h EXCEPT !.data = d]
    BY <1>a, <1>1, <2>1, <2>2
  <2>4. /\ [h EXCEPT !.data = d] \in Handlers
        /\ [h EXCEPT !.data = d].sensor = h.sensor /\ [h EXCEPT !.data = d].data = d
    BY HandlerData
  <2> QED BY <2>1, <2>2, <2>3, <2>4
<1>3. K \in [1 .. n -> Handlers]
  <2>1. K = [i \in 1 .. n |-> K[i]]
    BY <1>a, <1>1
  <2> QED BY <1>2, <2>1
<1>4. K \in Seq(Handlers) /\ Len(K) = n
  BY <1>3
<1> QED BY <1>1, <1>2, <1>4 DEF Updated

\* The invariant after a step that only updates handlers.
LEMMA HandlersStep ==
  ASSUME SensorsInv, Updated(handler_list, handler_list'), AllGood(handler_list', tf_last),
         UNCHANGED <<sensors_node, data_states, data_age_reported, shown, no_data, stale, now, tf_last>>
  PROVE  SensorsInv'
<1>1. SensorsTyped /\ handler_list \in Seq(Handlers) /\ data_states \in Seq(DataState)
  BY DEF SensorsInv, SensorsTyped
<1>2. Named(handler_list') = Named(handler_list)
  BY <1>1, SameNames
<1>3. SensorsTyped'
  BY <1>1, <1>2 DEF SensorsTyped, Updated
<1>4. ASSUME Diagnosed PROVE Diagnosed'
  <2>1. \A state : InState(handler_list', data_states, state) = InState(handler_list, data_states, state)
    BY <1>1, <1>4, SameInState DEF Diagnosed
  <2> QED BY <1>4, <2>1 DEF Diagnosed, Updated
<1> QED BY <1>3, <1>4 DEF SensorsInv

LEMMA OneHandlerStep ==
  ASSUME SensorsInv, NEW i \in DOMAIN handler_list, NEW d, Good(d, tf_last), Received(i, d)
  PROVE  SensorsInv' /\ handler_list'[i].data = d
<1>1. handler_list \in Seq(Handlers) /\ i \in 1 .. Len(handler_list) /\ d \in Perception
      /\ AllGood(handler_list, tf_last)
  BY DEF SensorsInv, SensorsTyped, Good
<1>2. handler_list' = [handler_list EXCEPT ![i].data = d]
      /\ UNCHANGED <<sensors_node, data_states, data_age_reported, shown, no_data, stale, now, tf_last>>
  BY DEF Received
<1>3. /\ Updated(handler_list, handler_list') /\ handler_list'[i].data = d
      /\ \A j \in 1 .. Len(handler_list) : j # i => handler_list'[j] = handler_list[j]
  <2>1. OneIs(handler_list, i, d, handler_list')
    BY <1>1, <1>2, OneUpdated
  <2> QED BY <2>1 DEF OneIs
<1>4. AllGood(handler_list', tf_last)
  BY <1>1, <1>3 DEF AllGood, Updated
<1> QED BY <1>2, <1>3, <1>4, HandlersStep

-----------------------------------------------------------------------------
(* The sensors, one action at a time.                                      *)

\* What the steps need of the invariant.
LEMMA SensorFacts ==
  ASSUME SensorsInv
  PROVE  /\ handler_list \in Seq(Handlers) /\ Len(handler_list) \in Nat
         /\ DOMAIN handler_list = 1 .. Len(handler_list)
         /\ data_states \in Seq(DataState)
         /\ now \in Stamps /\ now \in Int /\ tf_last \in Int /\ 1 .. now \subseteq Stamps
         /\ AllGood(handler_list, tf_last)
<1>1. /\ handler_list \in Seq(Handlers) /\ data_states \in Seq(DataState)
      /\ now \in Stamps /\ tf_last \in 0 .. now /\ AllGood(handler_list, tf_last)
  BY DEF SensorsInv, SensorsTyped
<1>2. now \in Int /\ tf_last \in Int /\ 1 .. now \subseteq Stamps
  BY <1>1, SensorConstants DEF Stamps
<1> QED BY <1>1, <1>2

LEMMA receive_Inv ==
  ASSUME SensorsInv, NEW i \in DOMAIN handler_list, NEW stamp \in 1 .. now, receive(i, stamp)
  PROVE  SensorsInv' /\ (handler_list[i].sensor \in Points => ShowsNewest(handler_list'[i].data))
<1>1. PICK d : d = handler_list[i].data
  OBVIOUS
<1>2. Good(d, tf_last) /\ tf_last \in Int /\ stamp \in Stamps
  BY <1>1, SensorFacts DEF AllGood
<1>3. stamp \in Slots /\ stamp # 0
  BY <1>2, SensorConstants DEF Slots, Stamps
<1>4. CASE handler_list[i].sensor \in Points
  <2>1. PICK w : w = receive_points(d, stamp)
    OBVIOUS
  <2>2. Good(w, tf_last) /\ ShowsNewest(w)
    BY <1>2, <2>1, ReceiveGood
  <2>3. Received(i, w) /\ tf_last' = tf_last
    BY <1>1, <1>4, <2>1 DEF receive, Received
  <2>4. SensorsInv' /\ handler_list'[i].data = w
    BY <2>2, <2>3, OneHandlerStep
  <2> QED BY <2>2, <2>4
<1>5. CASE handler_list[i].sensor \notin Points
  <2>1. PICK w : w = [d EXCEPT !.stamp = stamp, !.valid = TRUE, !.expired = FALSE]
    OBVIOUS
  <2>2. Good(w, tf_last)
    BY <1>2, <1>3, <2>1, MarkedGood
  <2>3. Received(i, w)
    BY <1>1, <1>5, <2>1 DEF receive
  <2> QED BY <1>5, <2>2, <2>3, OneHandlerStep
<1> QED BY <1>4, <1>5

LEMMA mark_invalid_Inv ==
  ASSUME SensorsInv, NEW i \in DOMAIN handler_list, NEW stamp \in 1 .. now, mark_invalid(i, stamp)
  PROVE  SensorsInv'
<1>1. PICK d : d = handler_list[i].data
  OBVIOUS
<1>2. Good(d, tf_last) /\ stamp \in Stamps
  BY <1>1, SensorFacts DEF AllGood
<1>3. stamp \in Slots
  BY <1>2, SensorConstants DEF Slots, Stamps
<1>4. PICK w : w = [d EXCEPT !.stamp = stamp, !.valid = FALSE]
  OBVIOUS
<1>5. Good(w, tf_last)
  BY <1>2, <1>3, <1>4, MarkedGood
<1>6. Received(i, w)
  BY <1>1, <1>4 DEF mark_invalid
<1> QED BY <1>5, <1>6, OneHandlerStep

LEMMA HandlerIs ==
  ASSUME NEW sensor \in Sensors
  PROVE  Handler(sensor) \in Handlers /\ Handler(sensor).data = NoPerception
<1>1. NoPerception \in Perception
  BY NewPerceptionGood DEF Good
<1> QED BY <1>1 DEF Handler, Handlers

\* The handlers that a configuration adds.
Longer(H, list, loaded, K) == K = H \o [i \in 1 .. loaded |-> Handler(list[i])]

LEMMA HandlersAdded ==
  ASSUME NEW H \in Seq(Handlers), NEW t, AllGood(H, t), NEW list \in Configurable,
         NEW loaded \in 0 .. Len(list), NEW K, Longer(H, list, loaded, K)
  PROVE  /\ K \in Seq(Handlers) /\ Len(K) = Len(H) + loaded
         /\ AllGood(K, t) /\ Named(H) \subseteq Named(K)
<1>1. list \in Seq(Sensors) /\ loaded \in Nat /\ Len(list) \in Nat
  <2>1. list \in Seq(Sensors)
    BY SensorConstants
  <2> QED BY <2>1
<1>2. PICK A : A = [i \in 1 .. loaded |-> Handler(list[i])]
  OBVIOUS
<1>3. \A i \in 1 .. loaded : list[i] \in Sensors
  BY <1>1
<1>4. A \in Seq(Handlers) /\ Len(A) = loaded /\ \A i \in 1 .. loaded : A[i].data = NoPerception
  <2>1. \A i \in 1 .. loaded : A[i] \in Handlers /\ A[i].data = NoPerception
    BY <1>2, <1>3, HandlerIs
  <2>2. A \in [1 .. loaded -> Handlers]
    BY <1>2, <2>1
  <2>3. A \in Seq(Handlers) /\ Len(A) = loaded
    BY <1>1, <2>2
  <2> QED BY <2>1, <2>3
<1>5. /\ K \in Seq(Handlers) /\ Len(K) = Len(H) + loaded
      /\ \A i \in 1 .. Len(H) + loaded : K[i] = IF i <= Len(H) THEN H[i] ELSE A[i - Len(H)]
  BY <1>2, <1>4, ConcatProperties DEF Longer
<1>6. Len(H) \in Nat /\ DOMAIN H = 1 .. Len(H) /\ DOMAIN K = 1 .. Len(H) + loaded
  BY <1>5
<1>7. AllGood(K, t)
  <2> SUFFICES ASSUME NEW i \in 1 .. Len(H) + loaded PROVE Good(K[i].data, t)
    BY <1>5 DEF AllGood
  <2>1. CASE i <= Len(H)
    <3>1. i \in 1 .. Len(H) /\ K[i] = H[i]
      BY <1>5, <1>6, <2>1
    <3> QED BY <3>1 DEF AllGood
  <2>2. CASE ~(i <= Len(H))
    <3>1. i - Len(H) \in 1 .. loaded /\ K[i] = A[i - Len(H)]
      BY <1>1, <1>5, <1>6, <2>2
    <3> QED BY <1>4, <3>1, NewPerceptionGood
  <2> QED BY <2>1, <2>2
<1>8. \A i \in 1 .. Len(H) : i \in 1 .. Len(H) + loaded /\ K[i] = H[i]
  BY <1>1, <1>5, <1>6
<1>9. Named(H) \subseteq Named(K)
  BY <1>6, <1>8 DEF Named
<1> QED BY <1>5, <1>7, <1>9

LEMMA on_configure_Inv == SensorsInv /\ on_configure => SensorsInv'
<1> SUFFICES ASSUME SensorsInv, on_configure PROVE SensorsInv'
  OBVIOUS
<1>0. PICK list \in Configurable :
        \E loaded \in 0 .. Len(list) :
          /\ Len(handler_list) + loaded <= MaxHandlers
          /\ handler_list' = handler_list \o [i \in 1 .. loaded |-> Handler(list[i])]
          /\ IF loaded = Len(list)
             THEN /\ sensors_node' = "inactive"
                  /\ data_states' = [i \in DOMAIN handler_list' |-> "NO_DATA"]
                  /\ data_age_reported' = FALSE
             ELSE UNCHANGED <<sensors_node, data_states, data_age_reported>>
  BY DEF on_configure
<1>1. PICK loaded \in 0 .. Len(list) :
        /\ Len(handler_list) + loaded <= MaxHandlers
        /\ handler_list' = handler_list \o [i \in 1 .. loaded |-> Handler(list[i])]
        /\ IF loaded = Len(list)
           THEN /\ sensors_node' = "inactive"
                /\ data_states' = [i \in DOMAIN handler_list' |-> "NO_DATA"]
                /\ data_age_reported' = FALSE
           ELSE UNCHANGED <<sensors_node, data_states, data_age_reported>>
  BY <1>0
<1>2. sensors_node = "unconfigured" /\ UNCHANGED <<shown, no_data, stale, now, tf_last>>
      /\ SensorsTyped
  BY DEF on_configure, SensorsInv
<1>3. /\ handler_list' \in Seq(Handlers) /\ Len(handler_list') = Len(handler_list) + loaded
      /\ AllGood(handler_list', tf_last) /\ Named(handler_list) \subseteq Named(handler_list')
  <2>1. Longer(handler_list, list, loaded, handler_list')
    BY <1>1 DEF Longer
  <2> QED BY <2>1, SensorFacts, HandlersAdded
<1>4. Len(handler_list') <= MaxHandlers /\ shown' \subseteq Named(handler_list')
  BY <1>1, <1>2, <1>3 DEF SensorsTyped
<1>5. AllGood(handler_list', tf_last')
  BY <1>2, <1>3
<1>6. CASE loaded = Len(list)
  <2>1. sensors_node' = "inactive" /\ data_age_reported' = FALSE
        /\ data_states' = [i \in DOMAIN handler_list' |-> "NO_DATA"]
    BY <1>1, <1>6
  <2>2. data_states' \in Seq(DataState) /\ Len(data_states') = Len(handler_list')
    <3>1. PICK K \in Seq(Handlers) : K = handler_list'
      BY <1>3
    <3>2. data_states' \in [DOMAIN K -> DataState]
      BY <2>1, <3>1 DEF DataState
    <3>3. data_states' \in Seq(DataState) /\ Len(data_states') = Len(K)
      BY <3>2, ForEach
    <3> QED BY <3>1, <3>3
  <2>3. \A i \in 1 .. Len(handler_list') : data_states'[i] = "NO_DATA"
    BY <1>3, <2>1
  <2>4. SensorsTyped'
    BY <1>2, <1>3, <1>4, <2>1, <2>2 DEF SensorsTyped
  <2>5. Diagnosed'
    BY <2>1, <2>2, <2>3 DEF Diagnosed
  <2> QED BY <1>5, <2>4, <2>5 DEF SensorsInv
<1>7. CASE loaded # Len(list)
  <2>1. UNCHANGED <<sensors_node, data_states, data_age_reported>>
    BY <1>1, <1>7
  <2>2. SensorsTyped'
    BY <1>2, <1>3, <1>4, <2>1 DEF SensorsTyped
  <2> QED BY <1>2, <1>5, <2>1, <2>2 DEF SensorsInv
<1> QED BY <1>6, <1>7

LEMMA cleanup_Inv == SensorsInv /\ cleanup => SensorsInv'
<1> SUFFICES ASSUME SensorsInv, cleanup PROVE SensorsInv'
  OBVIOUS
<1>1. /\ sensors_node' = "unconfigured" /\ handler_list' = << >> /\ shown' = {}
      /\ UNCHANGED <<data_states, data_age_reported, no_data, stale, now, tf_last>>
  BY DEF cleanup, release_handlers
<1>2. << >> \in Seq(Handlers) /\ Len(<< >>) = 0 /\ 0 <= MaxHandlers
  BY SensorConstants
<1>3. SensorsTyped'
  BY <1>1, <1>2 DEF SensorsInv, SensorsTyped
<1>4. AllGood(handler_list', tf_last')
  BY <1>1, <1>2 DEF AllGood
<1> QED BY <1>1, <1>3, <1>4 DEF SensorsInv

LEMMA activate_or_deactivate_Inv == SensorsInv /\ activate_or_deactivate => SensorsInv'
<1> SUFFICES ASSUME SensorsInv, activate_or_deactivate PROVE SensorsInv'
  OBVIOUS
<1>1. /\ sensors_node # "unconfigured" /\ sensors_node' \in {"inactive", "active"}
      /\ UNCHANGED <<handler_list, data_states, data_age_reported, shown, no_data, stale, now, tf_last>>
  BY DEF activate_or_deactivate
<1>2. SensorsTyped'
  BY <1>1 DEF SensorsInv, SensorsTyped
<1>3. Diagnosed'
  BY <1>1 DEF SensorsInv, Diagnosed
<1> QED BY <1>1, <1>2, <1>3 DEF SensorsInv

LEMMA fuse_Inv ==
  ASSUME SensorsInv, fuse
  PROVE  /\ SensorsInv'
         /\ \A i \in DOMAIN handler_list : i \in Visible => ShowsNewest(handler_list'[i].data)
<1>1. PICK D : D = [i \in DOMAIN handler_list |->
                     IF i \in Visible THEN integrate_pending_perceptions(handler_list[i].data)
                     ELSE handler_list[i].data]
  OBVIOUS
<1>2. handler_list \in Seq(Handlers) /\ DOMAIN handler_list = 1 .. Len(handler_list)
      /\ tf_last \in Int
  BY SensorFacts
<1>3. \A i \in DOMAIN handler_list :
        /\ Good(D[i], tf_last)
        /\ i \in Visible => ShowsNewest(D[i])
  <2> SUFFICES ASSUME NEW i \in DOMAIN handler_list
               PROVE  Good(D[i], tf_last) /\ (i \in Visible => ShowsNewest(D[i]))
    OBVIOUS
  <2>1. PICK d : d = handler_list[i].data /\ Good(d, tf_last)
    BY <1>2, SensorFacts DEF AllGood
  <2>2. D[i] = IF i \in Visible THEN integrate_pending_perceptions(d) ELSE d
    BY <1>1, <2>1
  <2> QED BY <1>2, <2>1, <2>2, IntegrateGood
<1>4. D \in [DOMAIN handler_list -> Perception]
  <2>1. \A i \in DOMAIN handler_list : D[i] \in Perception
    BY <1>3 DEF Good
  <2> QED BY <1>1, <2>1
<1>5. EachIs(handler_list, D, handler_list')
  <2>1. ASSUME NEW i \in DOMAIN handler_list, i \notin Visible
        PROVE  handler_list[i] = [handler_list[i] EXCEPT !.data = D[i]]
    <3>1. handler_list[i] \in Handlers /\ D[i] = handler_list[i].data
      BY <1>1, <1>2, <2>1, HandlerFields
    <3> QED BY <3>1 DEF Handlers
  <2>2. ASSUME NEW i \in DOMAIN handler_list, i \in Visible
        PROVE  D[i] = integrate_pending_perceptions(handler_list[i].data)
    BY <1>1, <2>2
  <2>3. handler_list' = [i \in DOMAIN handler_list |->
          IF i \in Visible
          THEN [handler_list[i] EXCEPT !.data = integrate_pending_perceptions(handler_list[i].data)]
          ELSE handler_list[i]]
    BY DEF fuse
  <2> QED BY <2>1, <2>2, <2>3 DEF EachIs
<1>6. Updated(handler_list, handler_list') /\ \A i \in 1 .. Len(handler_list) : handler_list'[i].data = D[i]
  BY <1>2, <1>4, <1>5, EachUpdated
<1>7. AllGood(handler_list', tf_last)
  BY <1>2, <1>3, <1>6 DEF AllGood, Updated
<1>8. UNCHANGED <<sensors_node, data_states, data_age_reported, shown, no_data, stale, now, tf_last>>
  BY DEF fuse
<1>9. SensorsInv'
  BY <1>6, <1>7, <1>8, HandlersStep
<1>10. ASSUME NEW i \in DOMAIN handler_list, i \in Visible
       PROVE  ShowsNewest(handler_list'[i].data)
  BY <1>2, <1>3, <1>6, <1>10
<1> QED BY <1>9, <1>10

LEMMA advance_Inv == SensorsInv /\ advance => SensorsInv'
<1> SUFFICES ASSUME SensorsInv, advance PROVE SensorsInv'
  OBVIOUS
<1>1. UNCHANGED <<sensors_node, handler_list, data_states, data_age_reported, shown, no_data, stale>>
  BY DEF advance
<1>2. now \in 1 .. MaxStamp /\ tf_last \in 0 .. now /\ MaxStamp \in Nat
  BY SensorConstants DEF SensorsInv, SensorsTyped, Stamps
<1>3. now' \in 1 .. MaxStamp /\ tf_last' \in 0 .. now' /\ tf_last \in Int /\ tf_last' \in Int
      /\ tf_last <= tf_last'
  <2>1. CASE now < MaxStamp /\ now' = now + 1 /\ UNCHANGED tf_last
    BY <1>2, <2>1
  <2>2. CASE tf_last < now /\ tf_last' = tf_last + 1 /\ UNCHANGED now
    BY <1>2, <2>2
  <2> QED BY <2>1, <2>2 DEF advance
<1>4. SensorsTyped'
  BY <1>1, <1>3 DEF SensorsInv, SensorsTyped, Stamps
<1>5. AllGood(handler_list', tf_last')
  <2>1. AllGood(handler_list, tf_last)
    BY DEF SensorsInv
  <2> QED BY <1>1, <1>3, <2>1, LaterGood DEF AllGood
<1>6. Diagnosed => Diagnosed'
  BY <1>1 DEF Diagnosed
<1> QED BY <1>1, <1>4, <1>5, <1>6 DEF SensorsInv


-----------------------------------------------------------------------------
(* The check of the ages.                                                  *)

\* What the states of the last check say of a handler that exposes its data.
Says(d, state) ==
  /\ state = "NO_DATA" <=> d.stamp = 0
  /\ state = "STALE" <=> d.stamp # 0 /\ ~d.valid
  /\ d.valid => now - d.stamp <= ForgetTime

LEMMA CheckedAge ==
  ASSUME SensorsInv, Diagnosed, NEW i \in DOMAIN handler_list
  PROVE  /\ Good(AgeChecked(i).data, tf_last)
         /\ AgeChecked(i).state \in DataState
         /\ handler_list[i].sensor \in Opaque => AgeChecked(i).state = "NO_DATA"
         /\ handler_list[i].sensor \notin Opaque => Says(AgeChecked(i).data, AgeChecked(i).state)
<1>1. PICK d : d = handler_list[i].data
  OBVIOUS
<1>2. i \in 1 .. Len(handler_list) /\ now \in Int /\ Good(d, tf_last) /\ ForgetTime \in Nat
  BY <1>1, SensorFacts, SensorConstants DEF AllGood
<1>3. d \in Perception /\ d.valid \in BOOLEAN /\ d.stamp \in Int /\ (d.valid => d.stamp # 0)
  <2>1. d \in Perception /\ (d.valid => d.stamp # 0)
    BY <1>2 DEF Good
  <2>2. d.valid \in BOOLEAN /\ d.stamp \in Slots
    BY <2>1, PerceptionFields
  <2>3. Slots \subseteq Int
    BY SensorConstants DEF Slots
  <2> QED BY <2>1, <2>2, <2>3
<1>4. CASE handler_list[i].sensor \in Opaque
  <2>1. AgeChecked(i) = [data |-> d, state |-> data_states[i]]
    BY <1>1, <1>4 DEF AgeChecked
  <2>2. data_states[i] = "NO_DATA"
    BY <1>2, <1>4 DEF Diagnosed
  <2> QED BY <1>2, <1>4, <2>1, <2>2 DEF DataState
<1>5. CASE handler_list[i].sensor \notin Opaque /\ d.stamp = 0 /\ ~d.valid
  <2>1. AgeChecked(i) = [data |-> d, state |-> "NO_DATA"]
    BY <1>1, <1>5 DEF AgeChecked
  <2>2. Says(d, "NO_DATA")
    BY <1>5 DEF Says
  <2> QED BY <1>2, <1>5, <2>1, <2>2 DEF DataState
<1>6. CASE /\ handler_list[i].sensor \notin Opaque /\ ~(d.stamp = 0 /\ ~d.valid)
           /\ expired(d)
  <2>1. PICK e : e = [d EXCEPT !.valid = FALSE, !.expired = TRUE]
    OBVIOUS
  <2>2. Good(e, tf_last) /\ e.valid = FALSE /\ e.stamp = d.stamp
    BY <1>2, <2>1, ExpiredGood
  <2>3. AgeChecked(i) = [data |-> e, state |-> "STALE"]
    BY <1>1, <1>6, <2>1 DEF AgeChecked
  <2>4. Says(e, "STALE")
    BY <1>3, <1>6, <2>2 DEF Says
  <2> QED BY <1>6, <2>2, <2>3, <2>4 DEF DataState
<1>7. CASE /\ handler_list[i].sensor \notin Opaque /\ ~(d.stamp = 0 /\ ~d.valid)
           /\ ~expired(d)
  <2>1. now - d.stamp <= ForgetTime
    BY <1>2, <1>3, <1>7 DEF expired
  <2>2. CASE d.valid
    <3>1. AgeChecked(i) = [data |-> d, state |-> "FRESH"]
      BY <1>1, <1>7, <2>2 DEF AgeChecked
    <3>2. Says(d, "FRESH")
      BY <1>3, <2>1, <2>2 DEF Says
    <3> QED BY <1>2, <1>7, <3>1, <3>2 DEF DataState
  <2>3. CASE ~d.valid
    <3>1. AgeChecked(i) = [data |-> d, state |-> "STALE"]
      BY <1>1, <1>7, <2>3 DEF AgeChecked
    <3>2. Says(d, "STALE")
      BY <1>7, <2>1, <2>3 DEF Says
    <3> QED BY <1>2, <1>7, <3>1, <3>2 DEF DataState
  <2> QED BY <1>3, <2>2, <2>3
<1> QED BY <1>4, <1>5, <1>6, <1>7

LEMMA CycleFacts ==
  ASSUME SensorsInv, cycle_handlers
  PROVE  /\ Updated(handler_list, handler_list') /\ AllGood(handler_list', tf_last)
         /\ data_states' \in Seq(DataState) /\ Len(data_states') = Len(handler_list)
         /\ \A i \in 1 .. Len(handler_list) :
              /\ handler_list[i].sensor \in Opaque => data_states'[i] = "NO_DATA"
              /\ handler_list[i].sensor \notin Opaque => Says(handler_list'[i].data, data_states'[i])
         /\ no_data' = InState(handler_list', data_states', "NO_DATA")
         /\ stale' = InState(handler_list', data_states', "STALE")
<1>1. sensors_node = "active" /\ Diagnosed /\ data_age_reported \in BOOLEAN
  BY DEF cycle_handlers, SensorsInv, SensorsTyped
<1>2. /\ handler_list \in Seq(Handlers) /\ DOMAIN handler_list = 1 .. Len(handler_list)
      /\ Len(handler_list) \in Nat
  BY SensorFacts
<1>3. PICK D : D = [i \in DOMAIN handler_list |-> AgeChecked(i).data]
  OBVIOUS
<1>4. \A i \in DOMAIN handler_list : Good(D[i], tf_last) /\ D[i] = AgeChecked(i).data
  BY <1>1, <1>3, CheckedAge
<1>5. D \in [DOMAIN handler_list -> Perception]
  <2>1. \A i \in DOMAIN handler_list : D[i] \in Perception
    BY <1>4 DEF Good
  <2> QED BY <1>3, <2>1
<1>6. EachIs(handler_list, D, handler_list')
  <2>1. handler_list' = [i \in DOMAIN handler_list |->
          [handler_list[i] EXCEPT !.data = AgeChecked(i).data]]
    BY DEF cycle_handlers
  <2> QED BY <1>4, <2>1 DEF EachIs
<1>7. Updated(handler_list, handler_list') /\ \A i \in 1 .. Len(handler_list) : handler_list'[i].data = D[i]
  BY <1>2, <1>5, <1>6, EachUpdated
<1>8. AllGood(handler_list', tf_last)
  BY <1>2, <1>4, <1>7 DEF AllGood, Updated
<1>9. data_states' = [i \in DOMAIN handler_list |-> AgeChecked(i).state]
  BY DEF cycle_handlers
<1>10. data_states' \in Seq(DataState) /\ Len(data_states') = Len(handler_list)
  <2>1. \A i \in DOMAIN handler_list : AgeChecked(i).state \in DataState
    BY <1>1, CheckedAge
  <2>2. data_states' \in [1 .. Len(handler_list) -> DataState]
    BY <1>2, <1>9, <2>1
  <2> QED BY <1>2, <2>2
<1>11. \A i \in 1 .. Len(handler_list) :
         /\ handler_list[i].sensor \in Opaque => data_states'[i] = "NO_DATA"
         /\ handler_list[i].sensor \notin Opaque => Says(handler_list'[i].data, data_states'[i])
  BY <1>1, <1>2, <1>4, <1>7, <1>9, CheckedAge
<1>12. \A state : InState(handler_list', data_states', state) = InState(handler_list, data_states', state)
  BY <1>2, <1>7, <1>10, SameInState
<1>13. /\ no_data' = InState(handler_list, data_states', "NO_DATA")
       /\ stale' = InState(handler_list, data_states', "STALE")
  <2>1. CASE ~data_age_reported \/ data_states' # data_states
    BY <2>1 DEF cycle_handlers, SensorsIn, InState
  <2>2. CASE data_age_reported /\ data_states' = data_states
    <3>1. UNCHANGED <<no_data, stale>>
      BY <2>2 DEF cycle_handlers
    <3>2. /\ no_data = InState(handler_list, data_states, "NO_DATA")
          /\ stale = InState(handler_list, data_states, "STALE")
      BY <1>1, <2>2 DEF Diagnosed
    <3> QED BY <2>2, <3>1, <3>2
  <2> QED BY <1>1, <2>1, <2>2
<1> QED BY <1>7, <1>8, <1>10, <1>11, <1>12, <1>13

LEMMA cycle_handlers_Inv == SensorsInv /\ cycle_handlers => SensorsInv'
<1> SUFFICES ASSUME SensorsInv, cycle_handlers PROVE SensorsInv'
  OBVIOUS
<1>1. /\ Updated(handler_list, handler_list') /\ AllGood(handler_list', tf_last)
      /\ data_states' \in Seq(DataState) /\ Len(data_states') = Len(handler_list)
      /\ \A i \in 1 .. Len(handler_list) :
           handler_list[i].sensor \in Opaque => data_states'[i] = "NO_DATA"
      /\ no_data' = InState(handler_list', data_states', "NO_DATA")
      /\ stale' = InState(handler_list', data_states', "STALE")
  BY CycleFacts
<1>2. SensorsTyped /\ handler_list \in Seq(Handlers)
  BY DEF SensorsInv, SensorsTyped
<1>3. Named(handler_list') = Named(handler_list)
  BY <1>1, <1>2, SameNames
<1>4. shown' = Named(handler_list) /\ data_age_reported' = TRUE
      /\ UNCHANGED <<sensors_node, now, tf_last>>
  BY DEF cycle_handlers, Named
<1>5. handler_list' \in Seq(Handlers) /\ Len(handler_list') = Len(handler_list)
      /\ \A i \in 1 .. Len(handler_list) : handler_list'[i].sensor = handler_list[i].sensor
  BY <1>1 DEF Updated
<1>6. no_data' \subseteq Sensors /\ stale' \subseteq Sensors
  BY <1>1, <1>5, InStateNames
<1>7. SensorsTyped'
  BY <1>1, <1>2, <1>3, <1>4, <1>5, <1>6 DEF SensorsTyped
<1>8. Diagnosed'
  BY <1>1, <1>4, <1>5 DEF Diagnosed
<1> QED BY <1>1, <1>4, <1>7, <1>8 DEF SensorsInv

LEMMA SensorsInitial == SensorsInit => SensorsInv
<1> SUFFICES ASSUME SensorsInit PROVE SensorsInv
  OBVIOUS
<1>1. 1 \in Stamps /\ MaxHandlers \in Nat
  BY SensorConstants DEF Stamps
<1>2. /\ handler_list = << >> /\ data_states = << >> /\ sensors_node = "unconfigured"
      /\ data_age_reported = FALSE /\ shown = {} /\ no_data = {} /\ stale = {}
      /\ now = 1 /\ tf_last = 0
  BY DEF SensorsInit
<1>3. handler_list \in Seq(Handlers) /\ Len(handler_list) = 0 /\ data_states \in Seq(DataState)
  BY <1>2
<1>4. SensorsTyped
  <2>1. Len(handler_list) <= MaxHandlers /\ now \in Stamps /\ tf_last \in 0 .. now
    BY <1>1, <1>2, <1>3
  <2>2. shown \subseteq Named(handler_list) /\ no_data \subseteq Sensors /\ stale \subseteq Sensors
    BY <1>2
  <2> QED BY <1>2, <1>3, <2>1, <2>2 DEF SensorsTyped
<1>5. AllGood(handler_list, tf_last)
  BY <1>3 DEF AllGood
<1> QED BY <1>2, <1>4, <1>5 DEF SensorsInv

LEMMA SensorsStep == SensorsInv /\ [SensorsNext]_sensorsVars => SensorsInv'
<1> SUFFICES ASSUME SensorsInv, [SensorsNext]_sensorsVars PROVE SensorsInv'
  OBVIOUS
<1>1. ASSUME NEW i \in DOMAIN handler_list, NEW stamp \in 1 .. now, receive(i, stamp)
      PROVE  SensorsInv'
  BY <1>1, receive_Inv
<1>2. ASSUME NEW i \in DOMAIN handler_list, NEW stamp \in 1 .. now, mark_invalid(i, stamp)
      PROVE  SensorsInv'
  BY <1>2, mark_invalid_Inv
<1>3. CASE on_configure
  BY <1>3, on_configure_Inv
<1>4. CASE cleanup
  BY <1>4, cleanup_Inv
<1>5. CASE activate_or_deactivate
  BY <1>5, activate_or_deactivate_Inv
<1>6. CASE cycle_handlers
  BY <1>6, cycle_handlers_Inv
<1>7. CASE fuse
  BY <1>7, fuse_Inv
<1>8. CASE advance
  BY <1>8, advance_Inv
<1>9. CASE UNCHANGED sensorsVars
  BY <1>9 DEF sensorsVars, SensorsInv, SensorsTyped, Diagnosed
<1> QED BY <1>1, <1>2, <1>3, <1>4, <1>5, <1>6, <1>7, <1>8, <1>9 DEF SensorsNext

\* Whatever arrives, in whatever order, whatever is configured, and although a
\* configuration may fail half-way: the invariant of the sensors holds.
THEOREM SensorsInvariance == SensorsSpec => []SensorsInv
<1> QED BY SensorsInitial, SensorsStep, PTL DEF SensorsSpec

LEMMA SensorsTypesHold == SensorsInv => SensorsTypeOK
<1> SUFFICES ASSUME SensorsInv PROVE SensorsTypeOK
  OBVIOUS
<1>1. SensorsTyped /\ (sensors_node # "unconfigured" => Len(data_states) = Len(handler_list))
  BY DEF SensorsInv, Diagnosed
<1>2. /\ handler_list \in Seq(Handlers) /\ data_states \in Seq(DataState)
      /\ Len(handler_list) <= MaxHandlers /\ MaxHandlers \in Nat
  BY <1>1, SensorConstants DEF SensorsTyped
<1>3. Len(handler_list) \in 0 .. MaxHandlers
  BY <1>2
<1>4. \A i \in DOMAIN handler_list : handler_list[i] \in [sensor : Sensors, data : Perception]
  <2>1. \A i \in DOMAIN handler_list : handler_list[i] \in Handlers
    BY <1>2
  <2> QED BY <2>1 DEF Handlers
<1>5. \A i \in DOMAIN data_states : data_states[i] \in DataState
  BY <1>2
<1> QED BY <1>1, <1>3, <1>4, <1>5 DEF SensorsTyped, SensorsTypeOK, Named

\* The variables of the sensors keep their types: no more handlers than fit, a
\* state for each once it is configured, stamps and rings in their ranges
\* (SensorsNode, PerceptionHandler, PointPerception).
THEOREM SensorsTypes == SensorsSpec => []SensorsTypeOK
<1> QED BY SensorsInvariance, SensorsTypesHold, PTL

-----------------------------------------------------------------------------
(* What the sensors promise.                                               *)

NamedBy(K, I) == {K[i].sensor : i \in I}
With(K, states, state) == {i \in DOMAIN K : states[i] = state}

LEMMA InStateNamed ==
  ASSUME NEW K \in Seq(Handlers), NEW states \in Seq(DataState), Len(states) = Len(K), NEW state
  PROVE  InState(K, states, state) = NamedBy(K, With(K, states, state))
<1>1. DOMAIN states = DOMAIN K
  OBVIOUS
<1>2. {i \in DOMAIN states : states[i] = state} = With(K, states, state)
  BY <1>1 DEF With
<1> QED BY <1>2 DEF InState, NamedBy

LEMMA AgesReported ==
  SensorsInv /\ cycle_handlers =>
       LET exposed == {i \in DOMAIN handler_list' : handler_list'[i].sensor \notin Opaque}
           hidden == {i \in DOMAIN handler_list' : handler_list'[i].sensor \in Opaque}
           never == {i \in exposed : handler_list'[i].data.stamp = 0}
           unusable == {i \in exposed \ never : ~handler_list'[i].data.valid}
           named(I) == {handler_list'[i].sensor : i \in I}
       IN /\ \A i \in exposed : handler_list'[i].data.valid => now - handler_list'[i].data.stamp <= ForgetTime
          /\ no_data' = named(never \cup hidden)
          /\ stale' = named(unusable)
<1> SUFFICES ASSUME SensorsInv, cycle_handlers
             PROVE  LET exposed == {i \in DOMAIN handler_list' : handler_list'[i].sensor \notin Opaque}
                        hidden == {i \in DOMAIN handler_list' : handler_list'[i].sensor \in Opaque}
                        never == {i \in exposed : handler_list'[i].data.stamp = 0}
                        unusable == {i \in exposed \ never : ~handler_list'[i].data.valid}
                        named(I) == {handler_list'[i].sensor : i \in I}
                    IN /\ \A i \in exposed : handler_list'[i].data.valid
                            => now - handler_list'[i].data.stamp <= ForgetTime
                       /\ no_data' = named(never \cup hidden)
                       /\ stale' = named(unusable)
  OBVIOUS
<1> DEFINE exposed == {i \in DOMAIN handler_list' : handler_list'[i].sensor \notin Opaque}
           hidden == {i \in DOMAIN handler_list' : handler_list'[i].sensor \in Opaque}
           never == {i \in exposed : handler_list'[i].data.stamp = 0}
           unusable == {i \in exposed \ never : ~handler_list'[i].data.valid}
           named(I) == {handler_list'[i].sensor : i \in I}
<1>1. PICK K : K = handler_list'
  OBVIOUS
<1>2. /\ K \in Seq(Handlers) /\ Len(K) = Len(handler_list)
      /\ \A i \in 1 .. Len(K) : K[i].sensor = handler_list[i].sensor
  BY <1>1, CycleFacts DEF Updated
<1>3. PICK S \in Seq(DataState) : S = data_states' /\ Len(S) = Len(K)
  BY <1>2, CycleFacts
<1>4. DOMAIN K = 1 .. Len(K)
  BY <1>2
<1>5. \A i \in DOMAIN K :
        /\ K[i].sensor \in Opaque => S[i] = "NO_DATA"
        /\ K[i].sensor \notin Opaque => Says(K[i].data, S[i])
  BY <1>1, <1>2, <1>3, <1>4, CycleFacts
<1>6. no_data' = InState(K, S, "NO_DATA") /\ stale' = InState(K, S, "STALE")
  BY <1>1, <1>3, CycleFacts
<1>7. never \cup hidden = With(K, S, "NO_DATA")
  BY <1>1, <1>5 DEF Says, With
<1>8. unusable = With(K, S, "STALE")
  BY <1>1, <1>5 DEF Says, With
<1>9. no_data' = named(never \cup hidden)
  <2>1. named(never \cup hidden) = NamedBy(K, never \cup hidden)
    BY <1>1 DEF NamedBy
  <2> HIDE DEF named, never, hidden
  <2>2. InState(K, S, "NO_DATA") = NamedBy(K, never \cup hidden)
    BY <1>2, <1>3, <1>7, InStateNamed
  <2> QED BY <1>6, <2>1, <2>2
<1>10. stale' = named(unusable)
  <2>1. named(unusable) = NamedBy(K, unusable)
    BY <1>1 DEF NamedBy
  <2> HIDE DEF named, unusable
  <2>2. InState(K, S, "STALE") = NamedBy(K, unusable)
    BY <1>2, <1>3, <1>8, InStateNamed
  <2> QED BY <1>6, <2>1, <2>2
<1>11. \A i \in exposed : handler_list'[i].data.valid => now - handler_list'[i].data.stamp <= ForgetTime
  BY <1>1, <1>5 DEF Says
<1> QED BY <1>9, <1>10, <1>11

\* After each cycle of the RT thread no perception that is too old is valid, and the
\* diagnostics, written only when a state changed, name exactly the sensors that
\* have no data and those whose data cannot be used (check_data_age(),
\* report_data_age()), for any sensors and any ages.
THEOREM StaleIsAlwaysReported == SensorsSpec => StaleIsReported
<1>1. SensorsInv /\ [SensorsNext]_sensorsVars =>
        [cycle_handlers =>
           LET exposed == {i \in DOMAIN handler_list' : handler_list'[i].sensor \notin Opaque}
               hidden == {i \in DOMAIN handler_list' : handler_list'[i].sensor \in Opaque}
               never == {i \in exposed : handler_list'[i].data.stamp = 0}
               unusable == {i \in exposed \ never : ~handler_list'[i].data.valid}
               named(I) == {handler_list'[i].sensor : i \in I}
           IN /\ \A i \in exposed : handler_list'[i].data.valid => now - handler_list'[i].data.stamp <= ForgetTime
              /\ no_data' = named(never \cup hidden)
              /\ stale' = named(unusable)]_sensorsVars
  BY AgesReported
<1> QED BY <1>1, SensorsInvariance, PTL DEF SensorsSpec, StaleIsReported

LEMMA IntegrationShowsNewest ==
  ASSUME SensorsInv, NEW i \in DOMAIN handler_list, handler_list[i].sensor \in Points, Integrates(i)
  PROVE  ShowsNewest(handler_list'[i].data)
<1>1. CASE \E stamp \in 1 .. now : receive(i, stamp)
  BY <1>1, receive_Inv
<1>2. CASE fuse /\ i \in Visible
  BY <1>2, fuse_Inv
<1> QED BY <1>1, <1>2 DEF Integrates

\* Whenever a point perception integrates what is pending, what it shows is the
\* newest that TF can transform of all that arrived since its buffer last lost a
\* cloud and of what was in it then (integrate_pending_perceptions()): for any size
\* of the buffer, any window of TF and any order of arrival.
THEOREM NewestUsableShown == SensorsSpec => NewestUsable
<1>1. SensorsInv /\ [SensorsNext]_sensorsVars =>
        [\A i \in DOMAIN handler_list \cap DOMAIN handler_list' :
           handler_list[i].sensor \in Points =>
             ShowsNewest(handler_list'[i].data) \/ ~Integrates(i)]_sensorsVars
  BY IntegrationShowsNewest
<1> QED BY <1>1, SensorsInvariance, PTL DEF SensorsSpec, NewestUsable
=============================================================================
