---------------------------- MODULE BufferProofs ----------------------------
(***************************************************************************)
(* For any capacity and any items: a CircularBuffer is a queue that loses  *)
(* its oldest item when it is full.  For any frames, motions, windows and  *)
(* maxima: the answers of RTTFBuffer are true.                             *)
(***************************************************************************)
EXTENDS CircularBuffer, TransformBuffer, SequenceTheorems, FiniteSetTheorems,
        WellFoundedInduction, TLAPS

-----------------------------------------------------------------------------
(* Natural numbers: induction over a set of them, and least elements.      *)

Below == {p \in Nat \X Nat : p[1] < p[2]}

LEMMA BelowIsWellFounded == IsWellFoundedOn(Below, Nat)
<1>1. OpToRel(<, Nat) = Below
  BY DEF OpToRel, Below
<1> QED BY <1>1, NatLessThanWellFounded

LEMMA NatSetInduction ==
  ASSUME NEW S, 0 \in S, \A n \in Nat : n \in S => n + 1 \in S
  PROVE  Nat \subseteq S
<1>1. SUFFICES ASSUME Nat \ S # {} PROVE FALSE
  OBVIOUS
<1>2. PICK x \in Nat \ S : \A y \in Nat \ S : ~ (<<y, x>> \in Below)
  BY <1>1, BelowIsWellFounded, WFMin
<1>3. x # 0 /\ x - 1 \in Nat /\ <<x - 1, x>> \in Below
  BY <1>2 DEF Below
<1>4. x - 1 \in S
  BY <1>2, <1>3
<1> QED BY <1>2, <1>3, <1>4

LEMMA NatLeast ==
  ASSUME NEW S, S \subseteq Nat, S # {}
  PROVE  \E x \in S : \A y \in S : x <= y
<1>1. PICK x \in S : \A y \in S : ~ (<<y, x>> \in Below)
  BY BelowIsWellFounded, WFMin
<1>2. ASSUME NEW y \in S PROVE x <= y
  <2>1. x \in Nat /\ y \in Nat /\ ~ (<<y, x>> \in Below)
    BY <1>1
  <2> QED BY <2>1 DEF Below
<1> QED BY <1>1, <1>2

-----------------------------------------------------------------------------
(* Indices.                                                                *)

\* An index that went once around at most.
Around(c, x) == IF x < c THEN x ELSE x - c

\* The slot n behind slot t, and the one of the i-th item from slot t on.
After(c, t, n) == (t + n) % c
Slot(c, t, i) == (t + i - 1) % c

\* A slot of a buffer, and n slots from there on.
Place(c, t, n) == c \in Nat \ {0} /\ t \in 0 .. c - 1 /\ n \in 0 .. c

LEMMA Wraps ==
  ASSUME NEW c \in Nat \ {0}, NEW x \in 0 .. 2 * c - 1
  PROVE  x % c = Around(c, x) /\ Around(c, x) \in 0 .. c - 1
BY DEF Around

LEMMA Behind ==
  ASSUME NEW c, NEW t, NEW n, Place(c, t, n)
  PROVE  After(c, t, n) = Around(c, t + n) /\ After(c, t, n) \in 0 .. c - 1
<1>1. c \in Nat \ {0} /\ t \in 0 .. c - 1 /\ n \in 0 .. c
  BY DEF Place
<1>2. PICK x \in 0 .. 2 * c - 1 : x = t + n
  BY <1>1
<1> QED BY <1>1, <1>2, Wraps DEF After

LEMMA SlotOf ==
  ASSUME NEW c, NEW t, NEW i, Place(c, t, i), i # 0
  PROVE  Slot(c, t, i) = Around(c, t + i - 1) /\ Slot(c, t, i) \in 0 .. c - 1
<1>1. c \in Nat \ {0} /\ t \in 0 .. c - 1 /\ i \in 1 .. c
  BY DEF Place
<1>2. PICK x \in 0 .. 2 * c - 1 : x = t + i - 1
  BY <1>1
<1> QED BY <1>1, <1>2, Wraps DEF Slot

\* Behind n items is the slot of the next one, apart from those of the n items,
\* or from all but the first of them when they fill the buffer.
LEMMA SlotsApart ==
  ASSUME NEW c, NEW t, NEW n, NEW i, Place(c, t, n), Place(c, t, i), i # 0,
         i <= n, n < c \/ i > 1
  PROVE  Slot(c, t, i) # After(c, t, n)
<1>1. PICK h : h = After(c, t, n) /\ h = Around(c, t + n)
  BY Behind
<1>2. PICK k : k = Slot(c, t, i) /\ k = Around(c, t + i - 1)
  BY SlotOf
<1>3. Around(c, t + i - 1) # Around(c, t + n)
  BY DEF Around, Place
<1> QED BY <1>1, <1>2, <1>3

LEMMA SlotBehind ==
  ASSUME NEW c, NEW t, NEW n, Place(c, t, n), n < c
  PROVE  Slot(c, t, n + 1) = After(c, t, n)
<1>1. t + (n + 1) - 1 = t + n
  BY DEF Place
<1> QED BY <1>1 DEF Slot, After

LEMMA SlotsMove ==
  ASSUME NEW c, NEW t, NEW i, Place(c, t, i), i # 0, i < c
  PROVE  Slot(c, After(c, t, 1), i) = Slot(c, t, i + 1)
<1>1. Place(c, t, 1) /\ Place(c, t, i + 1) /\ i + 1 # 0 /\ i \in 1 .. c - 1 /\ i \in 1 .. c
      /\ c \in Nat \ {0} /\ t \in 0 .. c - 1
  BY DEF Place
<1>2. PICK u \in 0 .. c - 1 : u = After(c, t, 1) /\ u = Around(c, t + 1)
  BY <1>1, Behind
<1>3. Place(c, u, i)
  BY <1>1 DEF Place
<1>4. PICK k : k = Slot(c, u, i) /\ k = Around(c, u + i - 1)
  BY <1>1, <1>3, SlotOf
<1>5. PICK m : m = Slot(c, t, i + 1) /\ m = Around(c, t + (i + 1) - 1)
  BY <1>1, SlotOf
<1>6. Around(c, Around(c, t + 1) + i - 1) = Around(c, t + (i + 1) - 1)
  BY <1>1 DEF Around
<1> QED BY <1>2, <1>4, <1>5, <1>6

-----------------------------------------------------------------------------
(* The items.                                                              *)

Items(c, s, t, n) == [i \in 1 .. n |-> s[Slot(c, t, i)]]

\* The slots s hold n items of T from slot t on.
Stored(c, s, t, n, T) == Place(c, t, n) /\ s \in [0 .. c - 1 -> T]

LEMMA ItemsType ==
  ASSUME NEW c, NEW s, NEW t, NEW n, NEW T, Stored(c, s, t, n, T)
  PROVE  /\ Items(c, s, t, n) \in Seq(T) /\ Len(Items(c, s, t, n)) = n
         /\ \A i \in 1 .. n : Items(c, s, t, n)[i] = s[Slot(c, t, i)]
<1>1. n \in Nat /\ s \in [0 .. c - 1 -> T]
  BY DEF Stored, Place
<1>2. ASSUME NEW i \in 1 .. n PROVE Slot(c, t, i) \in 0 .. c - 1
  <2>1. Place(c, t, i) /\ i # 0
    BY DEF Stored, Place
  <2> QED BY <2>1, SlotOf
<1>3. \A i \in 1 .. n : s[Slot(c, t, i)] \in T
  BY <1>1, <1>2
<1> QED BY <1>1, <1>3 DEF Items

LEMMA Appended ==
  ASSUME NEW T, NEW q \in Seq(T), NEW v \in T
  PROVE  /\ Append(q, v) \in Seq(T) /\ Len(Append(q, v)) = Len(q) + 1
         /\ Append(q, v)[Len(q) + 1] = v
         /\ \A i \in 1 .. Len(q) : Append(q, v)[i] = q[i]
OBVIOUS

LEMMA TailOf ==
  ASSUME NEW T, NEW q \in Seq(T), Len(q) # 0
  PROVE  /\ Tail(q) \in Seq(T) /\ Len(Tail(q)) = Len(q) - 1
         /\ \A i \in 1 .. Len(q) - 1 : Tail(q)[i] = q[i + 1]
BY HeadTailProperties

\* Slots w are slots s but for one.
Written(s, h, v, w) == w = [s EXCEPT ![h] = v]

\* The next slot is written while there is room.
LEMMA Enqueued ==
  ASSUME NEW c, NEW s, NEW t, NEW n, NEW T, Stored(c, s, t, n, T), n < c, NEW v \in T,
         NEW w, Written(s, After(c, t, n), v, w)
  PROVE  /\ Stored(c, w, t, n + 1, T)
         /\ Items(c, w, t, n + 1) = Append(Items(c, s, t, n), v)
<1>1. PICK h \in 0 .. c - 1 : h = After(c, t, n)
  BY Behind DEF Stored
<1>2. w \in [0 .. c - 1 -> T] /\ w[h] = v /\ \A k \in (0 .. c - 1) \ {h} : w[k] = s[k]
  <2>1. s \in [0 .. c - 1 -> T]
    BY DEF Stored
  <2>2. w = [s EXCEPT ![h] = v]
    BY <1>1 DEF Written
  <2> QED BY <2>1, <2>2
<1>3. c \in Nat \ {0} /\ n \in 0 .. c - 1 /\ n \in Nat
  BY DEF Stored, Place
<1>4. Stored(c, w, t, n + 1, T)
  BY <1>2, <1>3 DEF Stored, Place
<1>5. PICK p \in Seq(T) : p = Items(c, w, t, n + 1) /\ Len(p) = n + 1
        /\ \A i \in 1 .. n + 1 : p[i] = w[Slot(c, t, i)]
  <2>1. PICK m : m = n + 1
    OBVIOUS
  <2>2. Stored(c, w, t, m, T)
    BY <1>4, <2>1
  <2>3. /\ Items(c, w, t, m) \in Seq(T) /\ Len(Items(c, w, t, m)) = m
        /\ \A i \in 1 .. m : Items(c, w, t, m)[i] = w[Slot(c, t, i)]
    BY <2>2, ItemsType
  <2> QED BY <2>1, <2>3
<1>6. PICK q \in Seq(T) : q = Items(c, s, t, n) /\ Len(q) = n
        /\ \A i \in 1 .. n : q[i] = s[Slot(c, t, i)]
  BY ItemsType
<1>7. PICK r \in Seq(T) : r = Append(q, v) /\ Len(r) = n + 1 /\ r[n + 1] = v
        /\ \A i \in 1 .. n : r[i] = q[i]
  <2>1. PICK r : r = Append(q, v)
    OBVIOUS
  <2>2. /\ r \in Seq(T) /\ Len(r) = Len(q) + 1 /\ r[Len(q) + 1] = v
        /\ \A i \in 1 .. Len(q) : r[i] = q[i]
    BY <2>1, Appended
  <2> QED BY <1>6, <2>1, <2>2
<1>8. p[n + 1] = v
  <2>1. Slot(c, t, n + 1) = h
    BY <1>1, SlotBehind DEF Stored
  <2>2. n + 1 \in 1 .. n + 1
    BY <1>3
  <2> QED BY <1>2, <1>5, <2>1, <2>2
<1>9. ASSUME NEW i \in 1 .. n PROVE p[i] = s[Slot(c, t, i)]
  <2>1. Place(c, t, i) /\ i # 0 /\ i <= n /\ i \in 1 .. n + 1 /\ Place(c, t, n)
    BY <1>3 DEF Stored, Place
  <2>2. Slot(c, t, i) \in 0 .. c - 1
    BY <2>1, SlotOf
  <2>3. Slot(c, t, i) # h
    BY <1>1, <2>1, SlotsApart
  <2> QED BY <1>2, <1>5, <2>1, <2>2, <2>3
<1>10. \A i \in 1 .. n + 1 : p[i] = r[i]
  <2>1. \A i \in 1 .. n + 1 : i \in 1 .. n \/ i = n + 1
    BY <1>3
  <2> QED BY <1>6, <1>7, <1>8, <1>9, <2>1
<1>11. p = r
  BY <1>5, <1>7, <1>10, SeqEqual
<1> QED BY <1>4, <1>5, <1>6, <1>7, <1>11

\* When there is none it is that of the oldest item.
LEMMA Overwritten ==
  ASSUME NEW c, NEW s, NEW t, NEW T, Stored(c, s, t, c, T), NEW v \in T,
         NEW w, Written(s, After(c, t, c), v, w),
         NEW u, u = After(c, t, 1)
  PROVE  /\ Stored(c, w, u, c, T)
         /\ Items(c, w, u, c) = Append(Tail(Items(c, s, t, c)), v)
<1>1. PICK h \in 0 .. c - 1 : h = After(c, t, c) /\ h = Around(c, t + c)
  BY Behind DEF Stored
<1>2. w \in [0 .. c - 1 -> T] /\ w[h] = v /\ \A k \in (0 .. c - 1) \ {h} : w[k] = s[k]
  <2>1. s \in [0 .. c - 1 -> T]
    BY DEF Stored
  <2>2. w = [s EXCEPT ![h] = v]
    BY <1>1 DEF Written
  <2> QED BY <2>1, <2>2
<1>3. c \in Nat \ {0} /\ t \in 0 .. c - 1 /\ Place(c, t, 1)
  BY DEF Stored, Place
<1>4. u \in 0 .. c - 1 /\ u = Around(c, t + 1)
  BY <1>3, Behind
<1>5. Stored(c, w, u, c, T)
  BY <1>2, <1>3, <1>4 DEF Stored, Place
<1>6. PICK p \in Seq(T) : p = Items(c, w, u, c) /\ Len(p) = c
        /\ \A i \in 1 .. c : p[i] = w[Slot(c, u, i)]
  <2>1. /\ Items(c, w, u, c) \in Seq(T) /\ Len(Items(c, w, u, c)) = c
        /\ \A i \in 1 .. c : Items(c, w, u, c)[i] = w[Slot(c, u, i)]
    BY <1>5, ItemsType
  <2> QED BY <2>1
<1>7. PICK q \in Seq(T) : q = Items(c, s, t, c) /\ Len(q) = c
        /\ \A i \in 1 .. c : q[i] = s[Slot(c, t, i)]
  BY ItemsType
<1>8. PICK b \in Seq(T) : b = Tail(q) /\ Len(b) = c - 1
        /\ \A i \in 1 .. c - 1 : b[i] = q[i + 1]
  <2>1. Len(q) # 0
    BY <1>3, <1>7
  <2>2. /\ Tail(q) \in Seq(T) /\ Len(Tail(q)) = Len(q) - 1
        /\ \A i \in 1 .. Len(q) - 1 : Tail(q)[i] = q[i + 1]
    BY <2>1, TailOf
  <2> QED BY <1>7, <2>2
<1>9. PICK r \in Seq(T) : r = Append(b, v) /\ Len(r) = c /\ r[c] = v
        /\ \A i \in 1 .. c - 1 : r[i] = b[i]
  <2>1. /\ Append(b, v) \in Seq(T) /\ Len(Append(b, v)) = Len(b) + 1
        /\ Append(b, v)[Len(b) + 1] = v
        /\ \A i \in 1 .. Len(b) : Append(b, v)[i] = b[i]
    BY Appended
  <2>2. Len(b) + 1 = c
    BY <1>3, <1>8
  <2> QED BY <1>8, <2>1, <2>2
<1>10. p[c] = v
  <2>1. Place(c, u, c) /\ c # 0 /\ c \in 1 .. c
    BY <1>3, <1>4 DEF Place
  <2>2. PICK k : k = Slot(c, u, c) /\ k = Around(c, u + c - 1)
    BY <2>1, SlotOf
  <2>3. Around(c, Around(c, t + 1) + c - 1) = Around(c, t + c)
    BY <1>3 DEF Around
  <2>4. k = h
    BY <1>1, <1>4, <2>2, <2>3
  <2> QED BY <1>2, <1>6, <2>1, <2>2, <2>4
<1>11. ASSUME NEW i \in 1 .. c - 1 PROVE p[i] = r[i]
  <2>1. /\ i + 1 \in 1 .. c /\ i \in 1 .. c
        /\ Place(c, t, i) /\ Place(c, t, i + 1) /\ Place(c, t, c)
        /\ i # 0 /\ i + 1 # 0 /\ i + 1 > 1 /\ i + 1 <= c /\ i < c
    BY <1>3 DEF Place
  <2>2. PICK k : k = Slot(c, t, i + 1) /\ k \in 0 .. c - 1
    BY <2>1, SlotOf
  <2>3. k # h
    BY <1>1, <2>1, <2>2, SlotsApart
  <2>4. Slot(c, u, i) = k
    BY <2>1, <2>2, SlotsMove
  <2>5. p[i] = s[k]
    BY <1>2, <1>6, <2>1, <2>2, <2>3, <2>4
  <2>6. r[i] = s[k]
    BY <1>7, <1>8, <1>9, <2>1, <2>2
  <2> QED BY <2>5, <2>6
<1>12. \A i \in 1 .. c : p[i] = r[i]
  <2>1. \A i \in 1 .. c : i \in 1 .. c - 1 \/ i = c
    BY <1>3
  <2> QED BY <1>9, <1>10, <1>11, <2>1
<1>13. p = r
  BY <1>6, <1>9, <1>12, SeqEqual
<1> QED BY <1>5, <1>6, <1>7, <1>8, <1>9, <1>13

\* The first item goes.
LEMMA Dequeued ==
  ASSUME NEW c, NEW s, NEW t, NEW n, NEW T, Stored(c, s, t, n, T), n # 0,
         NEW u, u = After(c, t, 1)
  PROVE  /\ Stored(c, s, u, n - 1, T)
         /\ Items(c, s, u, n - 1) = Tail(Items(c, s, t, n))
         /\ Head(Items(c, s, t, n)) = s[t]
<1>1. /\ c \in Nat \ {0} /\ t \in 0 .. c - 1 /\ n \in 1 .. c /\ Place(c, t, 1)
      /\ s \in [0 .. c - 1 -> T]
  BY DEF Stored, Place
<1>2. u \in 0 .. c - 1
  BY <1>1, Behind
<1>3. Stored(c, s, u, n - 1, T)
  BY <1>1, <1>2 DEF Stored, Place
<1>4. PICK p \in Seq(T) : p = Items(c, s, u, n - 1) /\ Len(p) = n - 1
        /\ \A i \in 1 .. n - 1 : p[i] = s[Slot(c, u, i)]
  BY <1>3, ItemsType
<1>5. PICK q \in Seq(T) : q = Items(c, s, t, n) /\ Len(q) = n
        /\ \A i \in 1 .. n : q[i] = s[Slot(c, t, i)]
  BY ItemsType
<1>6. PICK b \in Seq(T) : b = Tail(q) /\ Len(b) = n - 1
        /\ \A i \in 1 .. n - 1 : b[i] = q[i + 1]
  BY <1>1, <1>5
<1>7. ASSUME NEW i \in 1 .. n - 1 PROVE p[i] = b[i]
  <2>1. Place(c, t, i) /\ i # 0 /\ i < c /\ i + 1 \in 1 .. n
    BY <1>1 DEF Place
  <2>2. PICK k : k = Slot(c, t, i + 1) /\ k = Slot(c, u, i)
    BY <2>1, SlotsMove
  <2> QED BY <1>4, <1>5, <1>6, <2>1, <2>2
<1>8. p = b
  BY <1>4, <1>6, <1>7, SeqEqual
<1>9. Head(q) = s[t]
  <2>1. 1 \in 1 .. n /\ 1 # 0
    BY <1>1
  <2>2. PICK k : k = Slot(c, t, 1) /\ k = Around(c, t + 1 - 1)
    BY <1>1, <2>1, SlotOf
  <2>3. Around(c, t + 1 - 1) = t
    BY <1>1 DEF Around
  <2>4. Head(q) = q[1]
    BY <1>1, <1>5
  <2> QED BY <1>5, <2>1, <2>2, <2>3, <2>4
<1> QED BY <1>3, <1>4, <1>5, <1>6, <1>8, <1>9

-----------------------------------------------------------------------------
(* The buffer.                                                             *)

Ring(c, s, h, t, n) ==
  [slots |-> s, capacity |-> c, head |-> h, tail |-> t, size |-> n]

LEMMA RingFields ==
  ASSUME NEW c, NEW s, NEW h, NEW t, NEW n
  PROVE  /\ Ring(c, s, h, t, n).slots = s /\ Ring(c, s, h, t, n).capacity = c
         /\ Ring(c, s, h, t, n).head = h /\ Ring(c, s, h, t, n).tail = t
         /\ Ring(c, s, h, t, n).size = n
BY DEF Ring

Record(S) == [slots : S, capacity : Int, head : Int, tail : Int, size : Int]

LEMMA RingType ==
  ASSUME NEW S, NEW s \in S, NEW c \in Int, NEW h \in Int, NEW t \in Int, NEW n \in Int
  PROVE  Ring(c, s, h, t, n) \in Record(S)
BY DEF Ring, Record

LEMMA RingIs ==
  ASSUME NEW S, NEW r \in Record(S)
  PROVE  r = Ring(r.capacity, r.slots, r.head, r.tail, r.size)
BY DEF Ring, Record

\* A buffer whose next slot to write is behind its items.
IsRing(ring, T, c) ==
  \E s, t, n : /\ Stored(c, s, t, n, T)
               /\ ring = Ring(c, s, After(c, t, n), t, n)

LEMMA RingItems ==
  ASSUME NEW c, NEW s, NEW h, NEW t, NEW n
  PROVE  items(Ring(c, s, h, t, n)) = Items(c, s, t, n)
BY RingFields DEF items, Items, Slot

\* A new buffer is empty (CircularBuffer::CircularBuffer()).
LEMMA NewIsEmpty ==
  ASSUME NEW T, NEW c \in Nat \ {0}, NEW unused \in T
  PROVE  IsRing(NewBuffer(c, unused), T, c) /\ items(NewBuffer(c, unused)) = << >>
<1>1. PICK s \in [0 .. c - 1 -> T] : s = [i \in 0 .. c - 1 |-> unused]
  OBVIOUS
<1>2. Place(c, 0, 0)
  BY DEF Place
<1>3. Stored(c, s, 0, 0, T)
  BY <1>2 DEF Stored
<1>4. After(c, 0, 0) = 0
  <2>1. PICK k : k = After(c, 0, 0) /\ k = Around(c, 0 + 0)
    BY <1>2, Behind
  <2> QED BY <2>1 DEF Around
<1>5. NewBuffer(c, unused) = Ring(c, s, 0, 0, 0)
  BY <1>1 DEF NewBuffer, Ring
<1>6. IsRing(NewBuffer(c, unused), T, c)
  BY <1>3, <1>4, <1>5 DEF IsRing
<1>7. items(NewBuffer(c, unused)) = Items(c, s, 0, 0)
  BY <1>5, RingItems
<1>8. Items(c, s, 0, 0) = << >>
  BY DEF Items
<1> QED BY <1>6, <1>7, <1>8

\* push() adds the item behind the others; of a full buffer the oldest goes
\* (CircularBuffer::push(), advance_head()).
THEOREM PushIsEnqueue ==
  ASSUME NEW T, NEW c, NEW ring, IsRing(ring, T, c), NEW value \in T
  PROVE  /\ IsRing(push(ring, value), T, c)
         /\ items(push(ring, value)) =
              IF ring.size < c THEN Append(items(ring), value)
              ELSE Append(Tail(items(ring)), value)
<1>1. PICK s, t, n, h : /\ Stored(c, s, t, n, T) /\ h = After(c, t, n)
                        /\ ring = Ring(c, s, h, t, n)
  BY DEF IsRing
<1>2. ring.size = n /\ ring.head = h /\ items(ring) = Items(c, s, t, n)
  BY <1>1, RingFields, RingItems
<1>3. /\ c \in Nat \ {0} /\ t \in 0 .. c - 1 /\ n \in 0 .. c
      /\ c \in Int /\ t \in Int /\ n \in Int /\ s \in [0 .. c - 1 -> T]
      /\ Place(c, t, n) /\ Place(c, t, 1) /\ Place(c, t, c)
  BY <1>1 DEF Stored, Place
<1>4. h \in 0 .. c - 1 /\ h \in Int /\ h = Around(c, t + n)
  BY <1>1, <1>3, Behind
<1>5. PICK r \in Record([0 .. c - 1 -> T]) :
        /\ r = [ring EXCEPT !.slots[ring.head] = value] /\ Written(s, h, value, r.slots)
        /\ r.size = n /\ r.head = h /\ r.tail = t /\ r.capacity = c
  <2>1. PICK k \in Record([0 .. c - 1 -> T]) : k = ring
    BY <1>1, <1>3, <1>4, RingType
  <2>2. k.size = n /\ k.head = h /\ k.slots = s /\ k.tail = t /\ k.capacity = c
    BY <1>1, <2>1, RingFields
  <2>3. PICK m : m = [k EXCEPT !.slots[k.head] = value] /\ m = [k EXCEPT !.slots[h] = value]
    BY <2>2
  <2>4. /\ m \in Record([0 .. c - 1 -> T])
        /\ m.slots = [k.slots EXCEPT ![h] = value] /\ m.capacity = k.capacity
        /\ m.head = k.head /\ m.tail = k.tail /\ m.size = k.size
    <3>1. PICK z \in [0 .. c - 1 -> T] : z = [k.slots EXCEPT ![h] = value]
      BY <1>4 DEF Record
    <3>2. m = [k EXCEPT !.slots = z]
      BY <2>3, <3>1
    <3> QED BY <3>1, <3>2 DEF Record
  <2> QED BY <2>1, <2>2, <2>3, <2>4 DEF Written
<1>6. push(ring, value) = advance_head(r)
  BY <1>5 DEF push
<1>7. PICK w : w = r.slots
  OBVIOUS
<1>9. Place(c, h, 1)
  BY <1>3, <1>4 DEF Place
<1>10. PICK f \in 0 .. c - 1 : f = (h + 1) % c /\ f = Around(c, h + 1)
  BY <1>9, Behind DEF After
<1>11. PICK u : u = (t + 1) % c /\ u = After(c, t, 1) /\ u \in 0 .. c - 1 /\ u = Around(c, t + 1)
  BY <1>3, Behind DEF After
<1>12. CASE n < c
  <2>1. PICK a : a = push(ring, value) /\ a = [r EXCEPT !.head = f, !.size = n + 1]
    BY <1>5, <1>6, <1>10, <1>12 DEF advance_head
  <2>2. push(ring, value) = Ring(c, w, f, t, n + 1)
    <3>1. f \in Int /\ n + 1 \in Int
      BY <1>3, <1>10
    <3>2. /\ a \in Record([0 .. c - 1 -> T]) /\ a.slots = r.slots /\ a.capacity = r.capacity
          /\ a.head = f /\ a.tail = r.tail /\ a.size = n + 1
      BY <2>1, <3>1 DEF Record
    <3>3. a = Ring(a.capacity, a.slots, a.head, a.tail, a.size)
      BY <3>2, RingIs
    <3> QED BY <1>5, <1>7, <2>1, <3>2, <3>3
  <2>3. /\ Stored(c, w, t, n + 1, T)
        /\ Items(c, w, t, n + 1) = Append(Items(c, s, t, n), value)
    <3>1. Written(s, After(c, t, n), value, w)
      BY <1>1, <1>5, <1>7
    <3> QED BY <1>1, <1>12, <3>1, Enqueued
  <2>4. f = After(c, t, n + 1)
    <3>1. Place(c, t, n + 1)
      BY <2>3 DEF Stored
    <3>2. PICK k : k = After(c, t, n + 1) /\ k = Around(c, t + (n + 1))
      BY <3>1, Behind
    <3>3. Around(c, Around(c, t + n) + 1) = Around(c, t + (n + 1))
      BY <1>3, <1>12 DEF Around
    <3> QED BY <1>4, <1>10, <3>2, <3>3
  <2>5. IsRing(push(ring, value), T, c)
    BY <2>2, <2>3, <2>4 DEF IsRing
  <2>6. items(push(ring, value)) = Append(items(ring), value)
    BY <1>2, <2>2, <2>3, RingItems
  <2> QED BY <1>2, <1>12, <2>5, <2>6
<1>13. CASE n = c
  <2>1. PICK a : a = push(ring, value) /\ a = [r EXCEPT !.head = f, !.tail = u]
    BY <1>3, <1>5, <1>6, <1>10, <1>11, <1>13 DEF advance_head
  <2>2. push(ring, value) = Ring(c, w, f, u, c)
    <3>1. f \in Int /\ u \in Int
      BY <1>3, <1>10, <1>11
    <3>2. /\ a \in Record([0 .. c - 1 -> T]) /\ a.slots = r.slots /\ a.capacity = r.capacity
          /\ a.head = f /\ a.tail = u /\ a.size = r.size
      BY <2>1, <3>1 DEF Record
    <3>3. a = Ring(a.capacity, a.slots, a.head, a.tail, a.size)
      BY <3>2, RingIs
    <3> QED BY <1>5, <1>7, <1>13, <2>1, <3>2, <3>3
  <2>3. /\ Stored(c, w, u, c, T)
        /\ Items(c, w, u, c) = Append(Tail(Items(c, s, t, c)), value)
    <3>1. Written(s, After(c, t, c), value, w) /\ Stored(c, s, t, c, T)
      BY <1>1, <1>5, <1>7, <1>13
    <3> QED BY <1>11, <3>1, Overwritten
  <2>4. f = After(c, u, c)
    <3>1. Place(c, u, c)
      BY <2>3 DEF Stored
    <3>2. PICK k : k = After(c, u, c) /\ k = Around(c, u + c)
      BY <3>1, Behind
    <3>3. Around(c, Around(c, t + c) + 1) = Around(c, Around(c, t + 1) + c)
      BY <1>3 DEF Around
    <3> QED BY <1>4, <1>10, <1>11, <1>13, <3>2, <3>3
  <2>5. IsRing(push(ring, value), T, c)
    BY <2>2, <2>3, <2>4 DEF IsRing
  <2>6. items(push(ring, value)) = Append(Tail(items(ring)), value)
    BY <1>2, <1>13, <2>2, <2>3, RingItems
  <2>7. ~(ring.size < c)
    BY <1>2, <1>3, <1>13
  <2> QED BY <2>5, <2>6, <2>7
<1> QED BY <1>3, <1>12, <1>13

\* pop() gives and removes the oldest item of a buffer that has one
\* (CircularBuffer::pop()).
THEOREM PopIsDequeue ==
  ASSUME NEW T, NEW c, NEW ring, IsRing(ring, T, c), ring.size # 0
  PROVE  /\ IsRing(pop(ring), T, c)
         /\ oldest(ring) = Head(items(ring))
         /\ items(pop(ring)) = Tail(items(ring))
<1>1. PICK s, t, n, h : /\ Stored(c, s, t, n, T) /\ h = After(c, t, n)
                        /\ ring = Ring(c, s, h, t, n)
  BY DEF IsRing
<1>2. /\ ring.size = n /\ ring.tail = t /\ ring.slots = s /\ ring.capacity = c
      /\ items(ring) = Items(c, s, t, n)
  BY <1>1, RingFields, RingItems
<1>3. /\ c \in Nat \ {0} /\ t \in 0 .. c - 1 /\ n \in 1 .. c
      /\ Place(c, t, n) /\ Place(c, t, 1)
  BY <1>1, <1>2 DEF Stored, Place
<1>4. h = Around(c, t + n)
  BY <1>1, <1>3, Behind
<1>5. PICK u \in 0 .. c - 1 : u = (t + 1) % c /\ u = After(c, t, 1) /\ u = Around(c, t + 1)
  BY <1>3, Behind DEF After
<1>6. pop(ring) = Ring(c, s, h, u, n - 1)
  <2>1. PICK k \in Record([0 .. c - 1 -> T]) : k = ring
    <3>1. s \in [0 .. c - 1 -> T] /\ c \in Int /\ t \in Int /\ n \in Int
      BY <1>1, <1>3 DEF Stored
    <3>2. h \in Int
      BY <1>1, <1>3, Behind
    <3> QED BY <1>1, <3>1, <3>2, RingType
  <2>2. k.size = n /\ k.head = h /\ k.slots = s /\ k.tail = t /\ k.capacity = c
    BY <1>1, <2>1, RingFields
  <2>3. PICK a : a = pop(ring) /\ a = [k EXCEPT !.tail = u, !.size = n - 1]
    BY <1>5, <2>1, <2>2 DEF pop
  <2>4. u \in Int /\ n - 1 \in Int
    BY <1>3, <1>5
  <2>5. /\ a \in Record([0 .. c - 1 -> T]) /\ a.slots = k.slots /\ a.capacity = k.capacity
        /\ a.head = k.head /\ a.tail = u /\ a.size = n - 1
    BY <2>3, <2>4 DEF Record
  <2>6. a = Ring(a.capacity, a.slots, a.head, a.tail, a.size)
    BY <2>5, RingIs
  <2> QED BY <2>2, <2>3, <2>5, <2>6
<1>7. /\ Stored(c, s, u, n - 1, T)
      /\ Items(c, s, u, n - 1) = Tail(Items(c, s, t, n))
      /\ Head(Items(c, s, t, n)) = s[t]
  BY <1>1, <1>2, <1>5, Dequeued
<1>8. h = After(c, u, n - 1)
  <2>1. Place(c, u, n - 1)
    BY <1>7 DEF Stored
  <2>2. PICK k : k = After(c, u, n - 1) /\ k = Around(c, u + (n - 1))
    BY <2>1, Behind
  <2>3. Around(c, Around(c, t + 1) + (n - 1)) = Around(c, t + n)
    BY <1>3 DEF Around
  <2> QED BY <1>4, <1>5, <2>2, <2>3
<1>9. IsRing(pop(ring), T, c)
  BY <1>6, <1>7, <1>8 DEF IsRing
<1>10. items(pop(ring)) = Tail(items(ring))
  BY <1>2, <1>6, <1>7, RingItems
<1> QED BY <1>2, <1>7, <1>9, <1>10 DEF oldest

-----------------------------------------------------------------------------
(* RTTFBuffer: the position of a frame in another.                         *)

LEMMA TransformConstants ==
  /\ Cardinality(Frames) \in Nat /\ Frames = 1 .. Cardinality(Frames)
  /\ LastStamp \in Nat \ {0} /\ Cache \in Nat /\ Window \in Nat \ {0}
  /\ Motions \subseteq [Frames -> [1 .. LastStamp -> Int]]
  /\ \A leg \in Legs : leg.time \in Times
<1>1. IsFiniteSet(Frames)
  BY TransformAssumption
<1>2. Cardinality(Frames) \in Nat
  BY <1>1, FS_CardinalityType
<1> QED BY <1>2, TransformAssumption DEF Times

\* What an edge adds; the sums over the first edges of the chain.
Part(leg, n, time) == IF n \in Between(leg) THEN motion[n][time] ELSE 0

Sums(leg, time, m, f) ==
  f = [n \in 0 .. m |-> IF n = 0 THEN 0 ELSE f[n - 1] + Part(leg, n, time)]

LEMMA SumsExist ==
  ASSUME NEW leg, NEW time
  PROVE  \A m \in Nat : \E f : Sums(leg, time, m, f)
<1> DEFINE Some == {m \in Nat : \E f : Sums(leg, time, m, f)}
<1>1. 0 \in Some
  <2>1. PICK f : f = [n \in 0 .. 0 |-> 0]
    OBVIOUS
  <2>2. \A n \in 0 .. 0 : n = 0
    OBVIOUS
  <2>3. Sums(leg, time, 0, f)
    BY <2>1, <2>2 DEF Sums
  <2> QED BY <2>3
<1>2. ASSUME NEW m \in Nat, m \in Some PROVE m + 1 \in Some
  <2>1. PICK f : f = [n \in 0 .. m |-> IF n = 0 THEN 0 ELSE f[n - 1] + Part(leg, n, time)]
    BY <1>2 DEF Sums
  <2>2. PICK g : g = [n \in 0 .. m + 1 |->
                       IF n \in 0 .. m THEN f[n] ELSE f[n - 1] + Part(leg, n, time)]
    OBVIOUS
  <2>3. ASSUME NEW n \in 0 .. m + 1
        PROVE  g[n] = IF n = 0 THEN 0 ELSE g[n - 1] + Part(leg, n, time)
    <3>1. CASE n = 0
      <4>1. 0 \in 0 .. m /\ 0 \in 0 .. m + 1
        OBVIOUS
      <4> QED BY <2>1, <2>2, <3>1, <4>1
    <3>2. CASE n \in 1 .. m
      <4>1. n \in 0 .. m /\ n - 1 \in 0 .. m /\ n - 1 \in 0 .. m + 1 /\ n # 0
        BY <3>2
      <4> QED BY <2>1, <2>2, <4>1
    <3>3. CASE n = m + 1
      <4>1. n \notin 0 .. m /\ n - 1 \in 0 .. m /\ n - 1 \in 0 .. m + 1 /\ n # 0
        BY <3>3
      <4> QED BY <2>2, <4>1
    <3>4. n = 0 \/ n \in 1 .. m \/ n = m + 1
      OBVIOUS
    <3> QED BY <3>1, <3>2, <3>3, <3>4
  <2>4. g = [n \in 0 .. m + 1 |-> g[n]]
    BY <2>2
  <2>5. Sums(leg, time, m + 1, g)
    BY <2>3, <2>4 DEF Sums
  <2> QED BY <2>5
<1>3. Nat \subseteq Some
  <2> HIDE DEF Some
  <2> QED BY <1>1, <1>2, NatSetInduction
<1> QED BY <1>3

LEMMA AlongIsSum ==
  ASSUME NEW leg, NEW time
  PROVE  \E f : /\ Sums(leg, time, Cardinality(Frames), f)
                /\ Along(leg, time) = IF leg.source >= leg.target THEN f[Cardinality(Frames)]
                                      ELSE -f[Cardinality(Frames)]
<1> DEFINE sum == CHOOSE f : Sums(leg, time, Cardinality(Frames), f)
<1>1. Sums(leg, time, Cardinality(Frames), sum)
  <2>1. \E f : Sums(leg, time, Cardinality(Frames), f)
    BY SumsExist, TransformConstants
  <2> QED BY <2>1
<1>2. Along(leg, time) = IF leg.source >= leg.target THEN sum[Cardinality(Frames)]
                         ELSE -sum[Cardinality(Frames)]
  BY DEF Along, Sums, Part
<1> QED BY <1>1, <1>2

\* At every stamp there is a position.
LEMMA AlongInt ==
  ASSUME motion \in Motions, NEW leg, NEW time \in 1 .. LastStamp
  PROVE  Along(leg, time) \in Int
<1>1. PICK c \in Nat : c = Cardinality(Frames) /\ Frames = 1 .. c
  BY TransformConstants
<1>2. PICK f : /\ f = [n \in 0 .. c |-> IF n = 0 THEN 0 ELSE f[n - 1] + Part(leg, n, time)]
               /\ Along(leg, time) = IF leg.source >= leg.target THEN f[c] ELSE -f[c]
  BY <1>1, AlongIsSum DEF Sums
<1>3. \A n \in 1 .. c : Part(leg, n, time) \in Int
  <2>1. motion \in [Frames -> [1 .. LastStamp -> Int]]
    BY TransformConstants
  <2>2. ASSUME NEW n \in 1 .. c PROVE Part(leg, n, time) \in Int
    <3>1. motion[n] \in [1 .. LastStamp -> Int]
      BY <1>1, <2>1
    <3>2. motion[n][time] \in Int
      BY <3>1
    <3> QED BY <3>2 DEF Part
  <2> QED BY <2>2
<1> DEFINE All == {n \in Nat : n <= c => f[n] \in Int}
<1>4. 0 \in All
  <2>1. 0 \in 0 .. c
    BY <1>1
  <2> QED BY <1>2, <2>1
<1>5. ASSUME NEW n \in Nat, n \in All PROVE n + 1 \in All
  <2> SUFFICES ASSUME n + 1 <= c PROVE f[n + 1] \in Int
    OBVIOUS
  <2>1. n <= c /\ n + 1 \in 0 .. c /\ n + 1 \in 1 .. c /\ n + 1 # 0 /\ (n + 1) - 1 = n
    BY <1>1
  <2>2. f[n] \in Int
    BY <1>5, <2>1
  <2>3. f[n + 1] = f[n] + Part(leg, n + 1, time)
    BY <1>2, <2>1
  <2> QED BY <1>3, <2>1, <2>2, <2>3
<1>6. f[c] \in Int
  <2>1. Nat \subseteq All
    <3> HIDE DEF All
    <3> QED BY <1>4, <1>5, NatSetInduction
  <2> QED BY <2>1
<1> QED BY <1>2, <1>6

-----------------------------------------------------------------------------
(* RTTFBuffer: what a steady motion comes to.                              *)

\* A sequence of positions with the same difference from one to the next.
Evenly(g, from, to, v) == \A s \in from + 1 .. to : g[s] - g[s - 1] = v
Reaches(g, from, to, v) == g[to] = g[from] + (to - from) * v

LEMMA Progression ==
  ASSUME NEW T \in Nat, NEW g \in [1 .. T -> Int], NEW from \in 1 .. T, NEW to \in from .. T,
         NEW v \in Int, Evenly(g, from, to, v)
  PROVE  Reaches(g, from, to, v)
<1> DEFINE All == {n \in Nat : from + n <= to => g[from + n] = g[from] + n * v}
<1>1. 0 \in All
  <2>1. g[from] \in Int /\ 0 * v = 0 /\ from + 0 = from
    OBVIOUS
  <2> QED BY <2>1
<1>2. ASSUME NEW n \in Nat, n \in All PROVE n + 1 \in All
  <2> SUFFICES ASSUME from + (n + 1) <= to PROVE g[from + (n + 1)] = g[from] + (n + 1) * v
    OBVIOUS
  <2>1. g[from + n] = g[from] + n * v
    BY <1>2
  <2>2. /\ from + (n + 1) \in from + 1 .. to /\ (from + (n + 1)) - 1 = from + n
        /\ from + n \in 1 .. T /\ from + (n + 1) \in 1 .. T
    OBVIOUS
  <2>3. g[from + (n + 1)] - g[from + n] = v
    BY <2>2 DEF Evenly
  <2>4. PICK a \in Int, b \in Int, c \in Int :
          a = g[from] /\ b = g[from + n] /\ c = g[from + (n + 1)]
    BY <2>2
  <2>5. PICK p \in Int : p = n * v /\ (n + 1) * v = p + v
    OBVIOUS
  <2>6. b = a + p /\ c - b = v
    BY <2>1, <2>3, <2>4, <2>5
  <2>7. c = a + (p + v)
    BY <2>6
  <2> QED BY <2>4, <2>5, <2>7
<1>3. to - from \in All
  <2>1. Nat \subseteq All
    <3> HIDE DEF All
    <3> QED BY <1>1, <1>2, NatSetInduction
  <2>2. to - from \in Nat
    OBVIOUS
  <2> HIDE DEF All
  <2> QED BY <2>1, <2>2
<1>4. from + (to - from) = to
  OBVIOUS
<1> QED BY <1>3, <1>4 DEF Reaches

LEMMA Divides ==
  ASSUME NEW w \in Nat \ {0}, NEW x \in Int
  PROVE  (w * x) \div w = x
OBVIOUS

\* The last window, repeated for as long as the time is ahead.
LEMMA PredictedIsTrue ==
  ASSUME motion \in Motions, NEW leg, NEW at \in 1 .. LastStamp, NEW time \in at .. LastStamp,
         leg.time = time, at - Window >= 1, steady(leg, at)
  PROVE  predicted(Along(leg, at), Along(leg, at - Window), time - at) = Along(leg, time)
<1>1. PICK T \in Nat, w \in Nat \ {0} : T = LastStamp /\ w = Window
  BY TransformConstants
<1>2. PICK g : g = [s \in 1 .. T |-> Along(leg, s)]
  OBVIOUS
<1>3. g \in [1 .. T -> Int] /\ \A s \in 1 .. T : g[s] = Along(leg, s)
  BY <1>1, <1>2, AlongInt
<1>4. /\ at \in 1 .. T /\ at - w \in 1 .. T /\ time \in 1 .. T /\ time \in at .. T
      /\ at \in at - w .. T /\ time \in at - w .. T
  BY <1>1
<1>5. PICK v : v = Speed(leg, time)
  OBVIOUS
<1>6. v \in Int
  <2>1. time - 1 \in 1 .. T
    BY <1>1, <1>4
  <2>2. Along(leg, time) \in Int /\ Along(leg, time - 1) \in Int
    BY <1>1, <1>4, <2>1, AlongInt
  <2> QED BY <1>5, <2>2 DEF Speed
<1>7. Evenly(g, at - w, time, v)
  <2> SUFFICES ASSUME NEW s \in (at - w) + 1 .. time PROVE g[s] - g[s - 1] = v
    BY DEF Evenly
  <2>1. s \in 1 .. T /\ s - 1 \in 1 .. T /\ s \in at - Window + 1 .. leg.time
    BY <1>1, <1>4
  <2>2. Speed(leg, s) = v
    BY <1>5, <2>1 DEF steady
  <2> QED BY <1>3, <2>1, <2>2 DEF Speed
<1>8. Evenly(g, at - w, at, v)
  <2>1. \A s \in (at - w) + 1 .. at : s \in (at - w) + 1 .. time
    BY <1>1, <1>4
  <2> QED BY <1>7, <2>1 DEF Evenly
<1>9. PICK a \in Int, b \in Int, c \in Int : a = g[at] /\ b = g[at - w] /\ c = g[time]
  BY <1>3, <1>4
<1>10. a = b + (at - (at - w)) * v
  <2>1. Reaches(g, at - w, at, v)
    BY <1>3, <1>4, <1>6, <1>8, Progression
  <2> QED BY <1>9, <2>1 DEF Reaches
<1>11. c = b + (time - (at - w)) * v
  <2>1. Reaches(g, at - w, time, v)
    BY <1>3, <1>4, <1>6, <1>7, Progression
  <2> QED BY <1>9, <2>1 DEF Reaches
<1>12. PICK p \in Int, h \in Int : p = at /\ h = time - at
  BY <1>1, <1>4
<1>13. a - b = w * v
  <2>1. at - (at - w) = w
    BY <1>1, <1>12
  <2> QED BY <1>6, <1>9, <1>10, <2>1
<1>14. c = a + v * h
  <2>1. time - (at - w) = h + w
    BY <1>1, <1>4, <1>12
  <2>2. c = b + (h + w) * v
    BY <1>11, <2>1
  <2> QED BY <1>6, <1>13, <2>2
<1>15. (a - b) * h = w * (v * h) /\ v * h \in Int
  BY <1>6, <1>13
<1>16. ((a - b) * h) \div w = v * h
  BY <1>15, Divides
<1>17. predicted(a, b, h) = c
  BY <1>1, <1>14, <1>16 DEF predicted
<1> QED BY <1>1, <1>3, <1>4, <1>9, <1>12, <1>17

-----------------------------------------------------------------------------
(* RTTFBuffer: the inductive invariant of a call.                          *)

Lookups ==
  [op : {"none", "lookup", "timed", "fixed"}, legs : SUBSET (Legs \X {1, 2}),
   step : {"none", "tf2", "latest", "history", "wait", "answered", "failed"},
   at : Times, position : Int, stamp : Times]

\* The latest transform that a call found: the listener has only heard more since.
Found(w) ==
  LET leg == First(w.legs)[1] IN
  /\ w.at # 0
  /\ \A f \in Moving(leg) : w.at <= known[f]
  /\ leg.time - w.at \in 1 .. max_future_extrapolation

Proper(w) ==
  /\ w \in Lookups
  /\ w.op = "none" => w.step = "none"
  /\ w.step \in {"tf2", "latest", "history", "wait"} => w.legs # {}

TransformInv ==
  /\ motion \in Motions /\ known \in [Frames -> Times] /\ max_future_extrapolation \in Nat
  /\ Proper(lookup)
  /\ lookup.step = "history" => Found(lookup)

LEMMA FirstLeg ==
  ASSUME NEW legs, legs \subseteq Legs \X {1, 2}, legs # {}
  PROVE  First(legs) \in legs /\ First(legs)[1] \in Legs
<1>1. \E pair \in legs : \A other \in legs : pair[2] <= other[2]
  <2>1. CASE \E pair \in legs : pair[2] = 1
    BY <2>1
  <2>2. CASE \A pair \in legs : pair[2] # 1
    <3>1. \A pair \in legs : pair[2] = 2
      BY <2>2
    <3> QED BY <3>1
  <2> QED BY <2>1, <2>2
<1>2. First(legs) \in legs
  BY <1>1 DEF First
<1> QED BY <1>2

LEMMA LatestCommon ==
  ASSUME known \in [Frames -> Times], NEW leg
  PROVE  /\ latest_common(leg) \in Times
         /\ Moving(leg) # {} => /\ \E f \in Moving(leg) : latest_common(leg) = known[f]
                                /\ \A f \in Moving(leg) : latest_common(leg) <= known[f]
<1>1. Moving(leg) \subseteq Frames
  BY DEF Moving, Between
<1>2. CASE Moving(leg) = {}
  <2>1. latest_common(leg) = 0 /\ LastStamp \in Nat
    BY <1>2, TransformConstants DEF latest_common
  <2> QED BY <1>2, <2>1 DEF Times
<1>3. CASE Moving(leg) # {}
  <2> DEFINE S == {known[f] : f \in Moving(leg)}
  <2>1. S # {} /\ S \subseteq Times /\ Times \subseteq Nat
    BY <1>1, <1>3, TransformConstants DEF Times
  <2>2. latest_common(leg) = Least(S)
    BY <1>3 DEF latest_common
  <2>3. \A f \in Moving(leg) : known[f] \in S
    OBVIOUS
  <2>4. \A x \in S : \E f \in Moving(leg) : x = known[f]
    OBVIOUS
  <2> HIDE DEF S
  <2>5. \E x \in S : \A y \in S : x <= y
    BY <2>1, NatLeast
  <2>6. Least(S) \in S /\ \A y \in S : Least(S) <= y
    BY <2>5 DEF Least
  <2> QED BY <2>1, <2>2, <2>3, <2>4, <2>6
<1> QED BY <1>2, <1>3

\* What tf2 answers is a position, and of a given time, the position then.
LEMMA AnswerOfTf2 ==
  ASSUME motion \in Motions, known \in [Frames -> Times], NEW leg, NEW time \in Times,
         tf2_has(leg, time)
  PROVE  /\ tf2_lookup(leg, time) \in Int
         /\ time # 0 /\ Moving(leg) # {} => /\ tf2_lookup(leg, time) = Along(leg, time)
                                            /\ time <= latest_common(leg)
<1>1. LastStamp \in Nat \ {0} /\ Times = 0 .. LastStamp
  BY TransformConstants DEF Times
<1>2. CASE Moving(leg) = {}
  <2>1. When(leg, time) = 1 /\ 1 \in 1 .. LastStamp
    BY <1>1, <1>2 DEF When
  <2> QED BY <1>2, <2>1, AlongInt DEF tf2_lookup
<1>3. CASE Moving(leg) # {} /\ time = 0
  <2>1. When(leg, time) = latest_common(leg)
    BY <1>3 DEF When
  <2>2. PICK f \in Moving(leg) : latest_common(leg) = known[f]
    BY <1>3, LatestCommon
  <2>3. known[f] > 0 /\ latest_common(leg) \in Times
    BY LatestCommon DEF tf2_has, connected
  <2>4. When(leg, time) \in 1 .. LastStamp
    BY <1>1, <2>1, <2>2, <2>3
  <2> QED BY <1>3, <2>4, AlongInt DEF tf2_lookup
<1>4. CASE Moving(leg) # {} /\ time # 0
  <2>1. When(leg, time) = time /\ time \in 1 .. LastStamp
    BY <1>1, <1>4 DEF When
  <2>2. PICK f \in Moving(leg) : latest_common(leg) = known[f]
    BY <1>4, LatestCommon
  <2>3. time \in first_known(f) .. known[f]
    BY <1>4 DEF tf2_has, covered
  <2>4. time <= latest_common(leg)
    BY <2>2, <2>3
  <2> QED BY <1>4, <2>1, <2>4, AlongInt DEF tf2_lookup
<1> QED BY <1>2, <1>3, <1>4

\* A step of the call: the rest stays as it is.
LEMMA CallStep ==
  ASSUME TransformInv, NEW w, Call(w), Proper(w), w.step = "history" => Found(w)
  PROVE  TransformInv'
<1>1. lookup' = w /\ UNCHANGED <<motion, known, max_future_extrapolation>>
  BY DEF Call
<1>2. Proper(lookup)'
  BY <1>1 DEF Proper
<1>3. (lookup.step = "history" => Found(lookup))'
  BY <1>1 DEF Found
<1> QED BY <1>1, <1>2, <1>3 DEF TransformInv

\* What the steps need of the invariant.
LEMMA CallFacts ==
  ASSUME TransformInv, lookup.step \in {"tf2", "latest", "history", "wait"}
  PROVE  /\ motion \in Motions /\ known \in [Frames -> Times] /\ max_future_extrapolation \in Nat
         /\ lookup \in Lookups /\ lookup.op # "none" /\ lookup.legs # {}
         /\ Asked \in Legs /\ Asked.time \in Times
         /\ StampOf(Asked) \in Times
<1>1. /\ motion \in Motions /\ known \in [Frames -> Times] /\ max_future_extrapolation \in Nat
      /\ lookup \in Lookups /\ lookup.op # "none" /\ lookup.legs # {}
  BY DEF TransformInv, Proper
<1>2. lookup.legs \subseteq Legs \X {1, 2}
  BY <1>1 DEF Lookups
<1>3. Asked \in Legs
  BY <1>1, <1>2, FirstLeg DEF Asked
<1>4. Asked.time \in Times
  BY <1>3, TransformConstants
<1>5. StampOf(Asked) \in Times
  BY <1>1, <1>4, LatestCommon DEF StampOf
<1> QED BY <1>1, <1>3, <1>4, <1>5

LEMMA AnswerStep ==
  ASSUME TransformInv, lookup.step \in {"tf2", "history", "wait"},
         NEW position \in Int, NEW stamp \in Times, Answer(position, stamp)
  PROVE  TransformInv' /\ lookup'.position - lookup.position = position
<1>1. lookup \in Lookups /\ lookup.op # "none"
  BY CallFacts
<1>2. PICK rest : rest = lookup.legs \ {First(lookup.legs)}
  OBVIOUS
<1>3. PICK at : at = IF lookup.op = "fixed" /\ Cardinality(rest) = 0 THEN lookup.stamp ELSE stamp
  OBVIOUS
<1>4. PICK step : step = IF rest = {} THEN "answered" ELSE "tf2"
  OBVIOUS
<1>5. PICK w : w = [lookup EXCEPT !.legs = rest, !.position = @ + position,
                                  !.stamp = IF lookup.op = "fixed" /\ Cardinality(rest) = 0
                                            THEN @ ELSE stamp,
                                  !.step = IF rest = {} THEN "answered" ELSE "tf2"]
  OBVIOUS
<1>6. Call(w)
  BY <1>2, <1>5, Zenon DEF Answer
<1>7. /\ w \in Lookups /\ w.legs = rest /\ w.step = step /\ w.op = lookup.op
      /\ w.position = lookup.position + position
  <2>1. rest \in SUBSET (Legs \X {1, 2}) /\ lookup.position \in Int /\ lookup.stamp \in Times
    BY <1>1, <1>2 DEF Lookups
  <2>2. at \in Times /\ lookup.position + position \in Int
        /\ step \in {"none", "tf2", "latest", "history", "wait", "answered", "failed"}
    BY <1>3, <1>4, <2>1
  <2>3. w = [lookup EXCEPT !.legs = rest, !.position = lookup.position + position,
                           !.stamp = at, !.step = step]
    BY <1>1, <1>3, <1>4, <1>5
  <2>4. PICK a \in Lookups : a = [lookup EXCEPT !.legs = rest]
    BY <1>1, <2>1 DEF Lookups
  <2>5. PICK b \in Lookups : b = [a EXCEPT !.position = lookup.position + position]
    BY <2>2 DEF Lookups
  <2>6. PICK c \in Lookups : c = [b EXCEPT !.stamp = at]
    BY <2>2 DEF Lookups
  <2>7. PICK d \in Lookups : d = [c EXCEPT !.step = step]
    BY <2>2 DEF Lookups
  <2>8. w = d
    BY <2>3, <2>4, <2>5, <2>6, <2>7
  <2>9. d.legs = rest /\ d.step = step /\ d.op = lookup.op
        /\ d.position = lookup.position + position
    BY <1>1, <2>4, <2>5, <2>6, <2>7 DEF Lookups
  <2> QED BY <2>8, <2>9
<1>8. Proper(w) /\ w.step # "history"
  BY <1>1, <1>4, <1>7 DEF Proper
<1>9. TransformInv'
  BY <1>6, <1>8, CallStep
<1>10. lookup' = w /\ lookup.position \in Int
  BY <1>1, <1>6 DEF Call, Lookups
<1> QED BY <1>7, <1>9, <1>10

\* Only the step of the call changes.
LEMMA SteppedIs ==
  ASSUME Proper(lookup), lookup.op # "none", lookup.legs # {},
         NEW step \in {"latest", "wait", "failed"}
  PROVE  \E w : /\ w = [lookup EXCEPT !.step = step] /\ Proper(w) /\ w.step = step
                /\ w.legs = lookup.legs
<1>1. lookup \in Lookups
  BY DEF Proper
<1>2. PICK w \in Lookups : w = [lookup EXCEPT !.step = step]
  BY <1>1 DEF Lookups
<1>3. w.step = step /\ w.op = lookup.op /\ w.legs = lookup.legs
  BY <1>1, <1>2 DEF Lookups
<1>4. Proper(w)
  BY <1>3 DEF Proper
<1> QED BY <1>2, <1>3, <1>4

LEMMA StepOnly ==
  ASSUME TransformInv, lookup.step \in {"tf2", "latest", "history", "wait"},
         NEW step \in {"latest", "wait", "failed"}, Call([lookup EXCEPT !.step = step])
  PROVE  TransformInv' /\ lookup'.legs = lookup.legs
<1>1. PICK w : w = [lookup EXCEPT !.step = step] /\ Proper(w) /\ w.step = step
               /\ w.legs = lookup.legs
  BY CallFacts, SteppedIs DEF TransformInv
<1>2. Call(w)
  BY <1>1
<1>3. TransformInv'
  BY <1>1, <1>2, CallStep
<1> QED BY <1>1, <1>2, <1>3 DEF Call

LEMMA NotAnsweredStep ==
  ASSUME TransformInv, lookup.step \in {"tf2", "latest", "history", "wait"}, NotAnswered
  PROVE  TransformInv' /\ lookup'.legs = lookup.legs
<1>1. PICK step \in {"latest", "wait", "failed"} :
        step = IF lookup.op = "timed" THEN "wait" ELSE "failed"
  OBVIOUS
<1>2. Call([lookup EXCEPT !.step = step])
  BY <1>1 DEF NotAnswered
<1> QED BY <1>2, StepOnly

-----------------------------------------------------------------------------
(* RTTFBuffer: one action at a time.                                       *)

\* The answer to the first leg is true.
Truly ==
  LET leg == Asked IN
  /\ leg.time <= latest_common(leg) + max_future_extrapolation
  /\ \/ lookup.step = "history" /\ (lookup.at = Window \/ ~steady(leg, lookup.at))
     \/ lookup'.position - lookup.position = Along(leg, leg.time)

LEMMA NoLookupIsProper == Proper(NoLookup) /\ NoLookup.step = "none"
<1>1. 0 \in Times
  BY TransformConstants DEF Times
<1> QED BY <1>1 DEF NoLookup, Proper, Lookups

LEMMA Asking ==
  ASSUME NEW op \in {"lookup", "timed", "fixed"}, NEW legs, legs \subseteq Legs \X {1, 2}, legs # {}
  PROVE  \E w : /\ w = [NoLookup EXCEPT !.op = op, !.legs = legs, !.step = "tf2"]
                /\ Proper(w) /\ w.step = "tf2"
<1>1. NoLookup \in Lookups
  BY NoLookupIsProper DEF Proper
<1>2. PICK a \in Lookups : a = [NoLookup EXCEPT !.op = op]
  BY <1>1 DEF Lookups
<1>3. PICK b \in Lookups : b = [a EXCEPT !.legs = legs]
  BY DEF Lookups
<1>4. PICK c \in Lookups : c = [b EXCEPT !.step = "tf2"]
  BY DEF Lookups
<1>5. c = [NoLookup EXCEPT !.op = op, !.legs = legs, !.step = "tf2"]
  BY <1>2, <1>3, <1>4
<1>6. c.op = op /\ c.legs = legs /\ c.step = "tf2"
  BY <1>1, <1>2, <1>3, <1>4 DEF Lookups
<1>7. Proper(c)
  BY <1>6 DEF Proper
<1> QED BY <1>5, <1>6, <1>7

LEMMA lookupTransform_Inv ==
  ASSUME TransformInv, lookupTransform
  PROVE  TransformInv' /\ lookup.step = "none"
<1>1. lookup.step = "none"
  BY DEF lookupTransform, TransformInv, Proper
<1>2. ASSUME NEW leg \in Legs, NEW op \in {"lookup", "timed"},
             Call([NoLookup EXCEPT !.op = op, !.legs = {<<leg, 1>>}, !.step = "tf2"])
      PROVE  TransformInv'
  <2>1. PICK legs : legs = {<<leg, 1>>}
    OBVIOUS
  <2>a. <<leg, 1>> \in Legs \X {1, 2}
    OBVIOUS
  <2>b. legs \subseteq Legs \X {1, 2} /\ legs # {}
    BY <2>1, <2>a
  <2>c. op \in {"lookup", "timed", "fixed"}
    OBVIOUS
  <2>2. PICK w : /\ w = [NoLookup EXCEPT !.op = op, !.legs = legs, !.step = "tf2"]
                 /\ Proper(w) /\ w.step = "tf2"
    BY <2>b, <2>c, Asking
  <2>3. Call(w)
    BY <1>2, <2>1, <2>2
  <2> QED BY <2>2, <2>3, CallStep
<1>3. ASSUME NEW first \in Legs, NEW second \in Legs,
             Call([NoLookup EXCEPT !.op = "fixed", !.legs = {<<first, 1>>, <<second, 2>>},
                                   !.step = "tf2"])
      PROVE  TransformInv'
  <2>1. PICK legs : legs = {<<first, 1>>, <<second, 2>>}
    OBVIOUS
  <2>a. <<first, 1>> \in Legs \X {1, 2} /\ <<second, 2>> \in Legs \X {1, 2}
    OBVIOUS
  <2>b. legs \subseteq Legs \X {1, 2} /\ legs # {}
    BY <2>1, <2>a
  <2>2. PICK w : /\ w = [NoLookup EXCEPT !.op = "fixed", !.legs = legs, !.step = "tf2"]
                 /\ Proper(w) /\ w.step = "tf2"
    BY <2>b, Asking
  <2>3. Call(w)
    BY <1>3, <2>1, <2>2
  <2> QED BY <2>2, <2>3, CallStep
<1>4. \/ \E leg \in Legs, op \in {"lookup", "timed"} :
           Call([NoLookup EXCEPT !.op = op, !.legs = {<<leg, 1>>}, !.step = "tf2"])
      \/ \E first, second \in Legs :
           Call([NoLookup EXCEPT !.op = "fixed", !.legs = {<<first, 1>>, <<second, 2>>},
                                 !.step = "tf2"])
  BY Zenon DEF lookupTransform
<1> QED BY <1>1, <1>2, <1>3, <1>4

\* tf2 has the time that is asked, at once or while the call waits.
LEMMA AnsweredByTf2 ==
  ASSUME TransformInv, lookup.step \in {"tf2", "wait"}, tf2_has(Asked, Asked.time),
         Answer(tf2_lookup(Asked, Asked.time), StampOf(Asked))
  PROVE  /\ TransformInv'
         /\ Asked.time > 0 /\ Moving(Asked) # {} => Truly
<1>1. /\ motion \in Motions /\ known \in [Frames -> Times] /\ max_future_extrapolation \in Nat
      /\ Asked.time \in Times /\ StampOf(Asked) \in Times
  BY CallFacts
<1>2. PICK leg : leg = Asked
  OBVIOUS
<1>3. tf2_lookup(leg, leg.time) \in Int
  BY <1>1, <1>2, AnswerOfTf2
<1>4. TransformInv' /\ lookup'.position - lookup.position = tf2_lookup(leg, leg.time)
  BY <1>1, <1>2, <1>3, AnswerStep
<1>5. ASSUME leg.time > 0, Moving(leg) # {} PROVE Truly
  <2>1. leg.time # 0 /\ leg.time \in Int /\ latest_common(leg) \in Int
    <3>1. Times \subseteq Nat
      BY TransformConstants DEF Times
    <3>2. PICK x \in Nat : x = leg.time
      BY <1>1, <1>2, <3>1
    <3>3. PICK y \in Nat : y = latest_common(leg)
      BY <1>1, <3>1, LatestCommon
    <3>4. x # 0
      BY <1>5, <3>2
    <3> QED BY <3>2, <3>3, <3>4
  <2>2. tf2_lookup(leg, leg.time) = Along(leg, leg.time) /\ leg.time <= latest_common(leg)
    BY <1>1, <1>2, <1>5, <2>1, AnswerOfTf2
  <2>3. leg.time <= latest_common(leg) + max_future_extrapolation
    BY <1>1, <2>1, <2>2
  <2> QED BY <1>2, <1>4, <2>2, <2>3 DEF Truly
<1> QED BY <1>2, <1>4, <1>5

LEMMA ask_tf2_Inv ==
  ASSUME TransformInv, ask_tf2
  PROVE  /\ TransformInv'
         /\ Asked.time > 0 /\ Moving(Asked) # {} /\ lookup'.legs # lookup.legs => Truly
<1>1. lookup.step = "tf2"
  BY DEF ask_tf2
<1>2. CASE tf2_has(Asked, Asked.time)
  <2>1. Answer(tf2_lookup(Asked, Asked.time), StampOf(Asked))
    BY <1>2, Zenon DEF ask_tf2
  <2> QED BY <1>1, <1>2, <2>1, AnsweredByTf2
<1>3. CASE ~tf2_has(Asked, Asked.time) /\ (connected(Asked) \/ lookup.op = "timed")
  <2>1. Call([lookup EXCEPT !.step = "latest"])
    BY <1>3, Zenon DEF ask_tf2
  <2> QED BY <1>1, <2>1, StepOnly
<1>4. CASE ~tf2_has(Asked, Asked.time) /\ ~(connected(Asked) \/ lookup.op = "timed")
  <2>1. NotAnswered
    BY <1>4, Zenon DEF ask_tf2
  <2> QED BY <1>1, <2>1, NotAnsweredStep
<1> QED BY <1>2, <1>3, <1>4

LEMMA find_latest_Inv == TransformInv /\ find_latest => TransformInv'
<1> SUFFICES ASSUME TransformInv, find_latest PROVE TransformInv'
  OBVIOUS
<1>1. lookup.step = "latest"
  BY DEF find_latest
<1>2. /\ known \in [Frames -> Times] /\ lookup \in Lookups /\ lookup.op # "none" /\ lookup.legs # {}
  BY <1>1, CallFacts
<1> DEFINE ahead == /\ max_future_extrapolation > 0
                    /\ tf2_has(Asked, 0)
                    /\ latest_common(Asked) # 0
                    /\ Asked.time - latest_common(Asked) \in 1 .. max_future_extrapolation
<1>3. CASE ahead
  <2>1. PICK at : at = latest_common(Asked)
    OBVIOUS
  <2>2. at \in Times /\ at # 0 /\ Asked.time - at \in 1 .. max_future_extrapolation
        /\ \A f \in Moving(Asked) : at <= known[f]
    BY <1>2, <1>3, <2>1, LatestCommon
  <2>3. PICK w : w = [lookup EXCEPT !.step = "history", !.at = at]
    OBVIOUS
  <2>4. w \in Lookups /\ w.step = "history" /\ w.at = at /\ w.op = lookup.op /\ w.legs = lookup.legs
    <3>1. PICK a \in Lookups : a = [lookup EXCEPT !.step = "history"]
      BY <1>2 DEF Lookups
    <3>2. PICK b \in Lookups : b = [a EXCEPT !.at = at]
      BY <2>2 DEF Lookups
    <3>3. w = b
      BY <2>3, <3>1, <3>2
    <3> QED BY <1>2, <3>1, <3>2, <3>3 DEF Lookups
  <2>5. Proper(w)
    BY <1>2, <2>4 DEF Proper
  <2>6. Found(w)
    BY <2>2, <2>4 DEF Found, Asked
  <2>7. Call(w)
    BY <1>3, <2>1, <2>3, Zenon DEF find_latest
  <2> QED BY <2>5, <2>6, <2>7, CallStep
<1>4. CASE ~ahead
  <2>1. NotAnswered
    BY <1>4, Zenon DEF find_latest
  <2> QED BY <1>1, <2>1, NotAnsweredStep
<1> QED BY <1>3, <1>4

LEMMA extrapolate_Inv ==
  ASSUME TransformInv, extrapolate
  PROVE  /\ TransformInv'
         /\ Moving(Asked) # {} /\ lookup'.legs # lookup.legs => Truly
<1>1. lookup.step = "history"
  BY DEF extrapolate
<1>2. /\ motion \in Motions /\ known \in [Frames -> Times] /\ max_future_extrapolation \in Nat
      /\ lookup \in Lookups /\ Asked.time \in Times
  BY <1>1, CallFacts
<1>3. PICK leg, at : leg = Asked /\ at = lookup.at
  OBVIOUS
<1>4. at \in Times /\ at # 0 /\ leg.time - at \in 1 .. max_future_extrapolation
      /\ \A f \in Moving(leg) : at <= known[f]
  BY <1>1, <1>2, <1>3 DEF TransformInv, Found, Asked, Lookups
<1>5. PICK T \in Nat \ {0}, w \in Nat \ {0} : T = LastStamp /\ w = Window /\ Times = 0 .. T
  BY TransformConstants DEF Times
<1>6. at \in 1 .. T /\ leg.time \in 0 .. T /\ leg.time \in at .. T /\ max_future_extrapolation \in Nat
  BY <1>2, <1>3, <1>4, <1>5
<1> DEFINE has == at - Window >= 0 /\ tf2_has(leg, at - Window)
<1>7. CASE has
  <2>1. PICK last, before : last = tf2_lookup(leg, at) /\ before = tf2_lookup(leg, at - Window)
    OBVIOUS
  <2>2. at - Window \in Times
    BY <1>5, <1>6, <1>7
  <2>3. before \in Int
        /\ (at - Window # 0 /\ Moving(leg) # {} => before = Along(leg, at - Window))
    BY <1>2, <1>7, <2>1, <2>2, AnswerOfTf2
  <2>4. last \in Int /\ (Moving(leg) # {} => last = Along(leg, at))
    <3>1. CASE Moving(leg) = {}
      <4>1. When(leg, at) = 1 /\ 1 \in 1 .. LastStamp
        BY <1>5, <3>1 DEF When
      <4> QED BY <1>2, <2>1, <3>1, <4>1, AlongInt DEF tf2_lookup
    <3>2. CASE Moving(leg) # {}
      <4>1. When(leg, at) = at /\ at \in 1 .. LastStamp
        BY <1>4, <1>5, <1>6, <3>2 DEF When
      <4> QED BY <1>2, <2>1, <4>1, AlongInt DEF tf2_lookup
    <3> QED BY <3>1, <3>2
  <2>5. PICK h \in Int : h = leg.time - at
    BY <1>6
  <2>6. PICK p : p = predicted(last, before, h)
    OBVIOUS
  <2>7. p \in Int
    <3>1. PICK y \in Int : y = (last - before) * h
      BY <2>3, <2>4
    <3>2. y \div w \in Int
      BY <3>1
    <3> QED BY <1>5, <2>4, <2>6, <3>1, <3>2 DEF predicted
  <2>8. Answer(p, leg.time)
    <3>1. IF at - Window >= 0 /\ tf2_has(leg, at - Window)
          THEN Answer(predicted(tf2_lookup(leg, at), tf2_lookup(leg, at - Window), leg.time - at),
                      leg.time)
          ELSE NotAnswered
      BY <1>3, Zenon DEF extrapolate
    <3> QED BY <1>7, <2>1, <2>5, <2>6, <3>1
  <2>9. TransformInv' /\ lookup'.position - lookup.position = p
    BY <1>1, <1>2, <1>3, <2>7, <2>8, AnswerStep
  <2>10. ASSUME Moving(leg) # {} PROVE Truly
    <3>1. leg.time <= latest_common(leg) + max_future_extrapolation
      <4>1. PICK f \in Moving(leg) : latest_common(leg) = known[f]
        BY <1>2, <2>10, LatestCommon
      <4>2. at <= latest_common(leg) /\ latest_common(leg) \in Times
        BY <1>2, <1>4, <4>1, LatestCommon
      <4> QED BY <1>4, <1>5, <1>6, <4>2
    <3>2. CASE at # Window /\ steady(leg, at)
      <4>1. at - Window >= 1 /\ at \in 1 .. LastStamp /\ leg.time \in at .. LastStamp
            /\ at - Window # 0
        BY <1>5, <1>6, <1>7, <3>2
      <4>2. predicted(Along(leg, at), Along(leg, at - Window), leg.time - at) = Along(leg, leg.time)
        BY <1>2, <3>2, <4>1, PredictedIsTrue
      <4>3. p = Along(leg, leg.time)
        BY <2>3, <2>4, <2>5, <2>6, <2>10, <4>1, <4>2
      <4> QED BY <1>3, <2>9, <3>1, <4>3 DEF Truly
    <3>3. CASE at = Window \/ ~steady(leg, at)
      BY <1>1, <1>3, <3>1, <3>3 DEF Truly
    <3> QED BY <3>2, <3>3
  <2> QED BY <1>3, <2>9, <2>10
<1>8. CASE ~has
  <2>1. NotAnswered
    BY <1>3, <1>8, Zenon DEF extrapolate
  <2> QED BY <1>1, <2>1, NotAnsweredStep
<1> QED BY <1>7, <1>8

LEMMA wait_for_tf2_Inv ==
  ASSUME TransformInv, wait_for_tf2
  PROVE  /\ TransformInv'
         /\ Asked.time > 0 /\ Moving(Asked) # {} /\ lookup'.legs # lookup.legs => Truly
<1>1. lookup.step = "wait"
  BY DEF wait_for_tf2
<1>2. CASE tf2_has(Asked, Asked.time) /\ Answer(tf2_lookup(Asked, Asked.time), StampOf(Asked))
  BY <1>1, <1>2, AnsweredByTf2
<1>3. CASE Call([lookup EXCEPT !.step = "failed"])
  BY <1>1, <1>3, StepOnly
<1>4. \/ tf2_has(Asked, Asked.time) /\ Answer(tf2_lookup(Asked, Asked.time), StampOf(Asked))
      \/ Call([lookup EXCEPT !.step = "failed"])
  BY Zenon DEF wait_for_tf2
<1> QED BY <1>2, <1>3, <1>4

LEMMA done_Inv == TransformInv /\ done => TransformInv'
BY CallStep, NoLookupIsProper DEF done

LEMMA hear_Inv == TransformInv /\ hear => TransformInv'
<1> SUFFICES ASSUME TransformInv, hear PROVE TransformInv'
  OBVIOUS
<1>1. PICK g \in Frames : known[g] < LastStamp /\ known' = [known EXCEPT ![g] = @ + 1]
  BY DEF hear
<1>2. UNCHANGED <<motion, max_future_extrapolation, lookup>>
  BY DEF hear
<1>3. known \in [Frames -> Times] /\ LastStamp \in Nat
  BY TransformConstants DEF TransformInv
<1>4. known' \in [Frames -> Times] /\ \A f \in Frames : known[f] <= known'[f]
  BY <1>1, <1>3 DEF Times
<1>5. ASSUME lookup.step = "history" PROVE Found(lookup)'
  <2>1. PICK leg : leg = First(lookup.legs)[1]
    OBVIOUS
  <2>2. /\ lookup.at # 0 /\ \A f \in Moving(leg) : lookup.at <= known[f]
        /\ leg.time - lookup.at \in 1 .. max_future_extrapolation
    BY <1>5, <2>1 DEF TransformInv, Found
  <2>3. lookup.at \in Times /\ Times \subseteq Int /\ Moving(leg) \subseteq Frames
    BY <1>3 DEF TransformInv, Proper, Lookups, Times, Moving, Between
  <2>4. \A f \in Moving(leg) : lookup.at <= known'[f]
    <3>1. ASSUME NEW f \in Moving(leg) PROVE lookup.at <= known'[f]
      <4>1. known[f] \in Int /\ known'[f] \in Int /\ lookup.at \in Int
        BY <1>3, <1>4, <2>3
      <4> QED BY <1>4, <2>2, <2>3, <4>1
    <3> QED BY <3>1
  <2> QED BY <1>2, <2>1, <2>2, <2>4 DEF Found
<1>6. Proper(lookup)'
  BY <1>2 DEF TransformInv, Proper
<1> QED BY <1>2, <1>4, <1>5, <1>6 DEF TransformInv

LEMMA TransformInitial == TransformInit => TransformInv
<1> SUFFICES ASSUME TransformInit PROVE TransformInv
  OBVIOUS
<1>1. motion \in Motions /\ known = [f \in Frames |-> 0] /\ lookup = NoLookup
  BY DEF TransformInit
<1>2. known \in [Frames -> Times]
  BY <1>1, TransformConstants DEF Times
<1>3. max_future_extrapolation \in Nat
  <2>1. PICK max \in Extrapolations : max_future_extrapolation = IF max > 0 THEN max ELSE 0
    BY DEF TransformInit
  <2>2. max \in Int
    BY TransformAssumption
  <2> QED BY <2>1, <2>2
<1> QED BY <1>1, <1>2, <1>3, NoLookupIsProper DEF TransformInv

LEMMA TransformStep == TransformInv /\ [TransformNext]_transformVars => TransformInv'
<1> SUFFICES ASSUME TransformInv, [TransformNext]_transformVars PROVE TransformInv'
  OBVIOUS
<1>1. CASE UNCHANGED transformVars
  BY <1>1 DEF transformVars, TransformInv, Proper, Found
<1> QED BY <1>1, lookupTransform_Inv, ask_tf2_Inv, find_latest_Inv, extrapolate_Inv,
           wait_for_tf2_Inv, done_Inv, hear_Inv DEF TransformNext

\* Whatever is looked up, heard and forgotten between the steps of a call, the
\* invariant of RTTFBuffer's calls holds.
THEOREM TransformInvariance == TransformSpec => []TransformInv
<1> QED BY TransformInitial, TransformStep, PTL DEF TransformSpec

\* The variables of RTTFBuffer and its call keep their types: the stamps are in the
\* range of tf2's, and every answer is a position, one that was extrapolated too.
THEOREM TransformTypes == TransformSpec => []TransformTypeOK
<1>1. TransformInv => TransformTypeOK
  BY DEF TransformInv, TransformTypeOK, Proper, Lookups
<1> QED BY <1>1, TransformInvariance, PTL

\* Answers are true for any frames, motions, windows and maxima: the position then,
\* or the one of a steady motion, never further ahead than the maximum, although
\* the listener adds transforms and tf2 forgets them between the steps of
\* extrapolate().
THEOREM AnswersAlwaysTrue == TransformSpec => AnswersAreTrue
<1>1. ASSUME TransformInv, [TransformNext]_transformVars, NEW leg \in Legs,
             lookup.step \in {"tf2", "history", "wait"}, leg = Asked,
             leg.time > 0, Moving(leg) # {}, lookup'.legs # lookup.legs
      PROVE  Truly
  <2>1. CASE ask_tf2
    BY <1>1, <2>1, ask_tf2_Inv
  <2>2. CASE extrapolate
    BY <1>1, <2>2, extrapolate_Inv
  <2>3. CASE wait_for_tf2
    BY <1>1, <2>3, wait_for_tf2_Inv
  <2>4. CASE lookupTransform
    BY <1>1, <2>4, lookupTransform_Inv
  <2>5. CASE find_latest \/ done
    BY <1>1, <2>5 DEF find_latest, done
  <2>6. CASE hear \/ UNCHANGED transformVars
    BY <1>1, <2>6 DEF hear, transformVars
  <2> QED BY <1>1, <2>1, <2>2, <2>3, <2>4, <2>5, <2>6 DEF TransformNext
<1>2. TransformInv /\ [TransformNext]_transformVars =>
        [\A leg \in Legs :
           /\ lookup.step \in {"tf2", "history", "wait"} /\ leg = Asked
           /\ leg.time > 0 /\ Moving(leg) # {}
           /\ lookup'.legs # lookup.legs
           => /\ leg.time <= latest_common(leg) + max_future_extrapolation
              /\ \/ lookup.step = "history" /\ (lookup.at = Window \/ ~steady(leg, lookup.at))
                 \/ lookup'.position - lookup.position = Along(leg, leg.time)]_transformVars
  BY <1>1 DEF Truly
<1> QED BY <1>2, TransformInvariance, PTL DEF TransformSpec, AnswersAreTrue
=============================================================================
