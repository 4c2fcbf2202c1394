--------------------------- MODULE CircularBuffer --------------------------
(***************************************************************************)
(* easynav_common's CircularBuffer<T>: a fixed number of slots, the next   *)
(* one to write, the next one to read, and how many are in use.  A ring is *)
(* a record of these four; each operation takes the mutex for all it does, *)
(* so it is an operator here.  A ring that is full loses its oldest item.  *)
(***************************************************************************)
EXTENDS Integers, Sequences

Capacity(ring) == ring.capacity

\* A buffer of T(); "unused" is what a slot holds before it is written.
NewBuffer(capacity, unused) ==
  [slots |-> [i \in 0 .. capacity - 1 |-> unused], capacity |-> capacity,
   head |-> 0, tail |-> 0, size |-> 0]

Rings(T, capacity) ==
  [slots : [0 .. capacity - 1 -> T], capacity : {capacity},
   head : 0 .. capacity - 1, tail : 0 .. capacity - 1, size : 0 .. capacity]

\* Mutant: a full buffer counts the item that it overwrites.
advance_headGrows(ring) ==
  [ring EXCEPT !.head = (ring.head + 1) % ring.capacity, !.size = ring.size + 1]

advance_head(ring) ==
  IF ring.size < ring.capacity
  THEN [ring EXCEPT !.head = (ring.head + 1) % ring.capacity, !.size = ring.size + 1]
  ELSE [ring EXCEPT !.head = (ring.head + 1) % ring.capacity,
                    !.tail = (ring.tail + 1) % ring.capacity]

push(ring, value) == advance_head([ring EXCEPT !.slots[ring.head] = value])

\* What pop() gives, and what it leaves, when there is something to pop.
oldest(ring) == ring.slots[ring.tail]
pop(ring) == [ring EXCEPT !.tail = (ring.tail + 1) % ring.capacity, !.size = ring.size - 1]

\* The newest item of a buffer that is not empty.
latest(ring) == ring.slots[(ring.head + ring.capacity - 1) % ring.capacity]

clear(ring) == [ring EXCEPT !.head = 0, !.tail = 0, !.size = 0]

\* The items in the order in which pop() would give them.
items(ring) == [i \in 1 .. ring.size |-> ring.slots[(ring.tail + i - 1) % ring.capacity]]
=============================================================================
