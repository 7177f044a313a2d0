--------------------------------- MODULE Lru ---------------------------------
(***************************************************************************)
(* What LruCache (selfplay/LruCache.h) promises: it keeps the values that  *)
(* were inserted or looked up last, at most capacity of them, and a value  *)
(* that is pinned lives until its last pin is released, evicted or not.    *)
(***************************************************************************)
EXTENDS Integers, Sequences, SequencesExt, Functions

CONSTANTS
  Keys,
  Items,       (* the values; an item is free, queued or evicted             *)
  Capacity,    (* the capacity at the start                                  *)
  Capacities,  (* those that SetCapacity may set                             *)
  MaxPins      (* bound: pins of an item                                     *)

VARIABLES
  capacity,
  queue,       \* the items that are kept, the one used last first
  held         \* the key and the pins of the items that are kept, or evicted while pinned

vars == <<capacity, queue, held>>

(* The places in the queue of the key k: one at most.                       *)
PlacesOf(k)  == {j \in DOMAIN queue : held[queue[j]].key = k}
Newest(q, n) == SubSeq(q, 1, IF Len(q) < n THEN Len(q) ELSE n)

(* What is left when the queue becomes q: its items, and those with pins.   *)
Left(q) == {i \in DOMAIN held : i \in Range(q) \/ held[i].pins > 0}

Init == capacity = Capacity /\ queue = << >> /\ held = << >>

(* An item with the same key, and the oldest, make room for the new one.    *)
Insert(k) == \E rest \in IF PlacesOf(k) = {} THEN {queue} ELSE {RemoveAt(queue, j) : j \in PlacesOf(k)} :
  LET old == Newest(rest, capacity - 1)
      new == Head(queue') IN
  /\ capacity > 0
  /\ queue' # << >> /\ Tail(queue') = old
  /\ new \in Items \ Left(old)
  /\ held' = [i \in Left(old) \cup {new} |->
                IF i = new THEN [key |-> k, pins |-> 0] ELSE held[i]]
  /\ UNCHANGED capacity

LookupAndPin(k) == \E j \in PlacesOf(k) :
  /\ held[queue[j]].pins < MaxPins
  /\ queue' = <<queue[j]>> \o RemoveAt(queue, j)
  /\ held'  = [held EXCEPT ![queue[j]].pins = @ + 1]
  /\ UNCHANGED capacity

Unpin(i) ==
  /\ held[i].pins > 0
  /\ held' = IF i \in Range(queue) \/ held[i].pins > 1
             THEN [held EXCEPT ![i].pins = @ - 1]
             ELSE Restrict(held, DOMAIN held \ {i})
  /\ UNCHANGED <<capacity, queue>>

SetCapacity(c) ==
  /\ capacity' = c
  /\ queue' = Newest(queue, c) /\ held' = Restrict(held, Left(queue'))

Clear == queue' = << >> /\ held' = Restrict(held, Left(queue')) /\ UNCHANGED capacity

Next ==
  \/ \E k \in Keys : LookupAndPin(k) \/ Insert(k)
  \/ \E i \in DOMAIN held : Unpin(i)
  \/ \E c \in Capacities : SetCapacity(c)
  \/ Clear

Spec == Init /\ [][Next]_vars
=============================================================================
