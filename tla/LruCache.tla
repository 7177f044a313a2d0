------------------------------ MODULE LruCache ------------------------------
(***************************************************************************)
(* The cache of network evaluations of a self-play group, as it lies in    *)
(* memory (selfplay/LruCache.h): a hash table of singly linked chains, a   *)
(* doubly linked queue from the item used last to the oldest, and a list   *)
(* of items that were evicted while pinned, linked through the hash links. *)
(* One thread uses it.  It implements Lru.                                 *)
(***************************************************************************)
EXTENDS Integers, Sequences, FiniteSets, SequencesExt, FiniteSetsExt, Functions

CONSTANTS
  Keys,        (* numbers: the hash of a key is the key                      *)
  Items,       (* the addresses an Item may have                             *)
  Capacity,    (* the capacity at the start                                  *)
  Capacities,  (* those that SetCapacity may set                             *)
  MovesChains, (* SetCapacity may be called while items share a bucket       *)
  MaxPins      (* bound: locks held on an item                               *)

Null == 0

ASSUME CacheAssumption ==
  /\ Keys \subseteq Nat /\ Items \subseteq Nat \ {Null} /\ IsFiniteSet(Items)
  /\ Capacity \in Nat /\ Capacities \subseteq Nat /\ MaxPins \in Nat
  /\ MovesChains \in BOOLEAN

VARIABLES
  capacity,  \* capacity_
  size,      \* size_
  allocated, \* allocated_
  lruHead,   \* lru_head_
  lruTail,   \* lru_tail_
  evictedHead,
  hash,      \* hash_: bucket number -> first item
  item,      \* the allocated items; what was freed is not in its domain
  locks      \* locks[i]: the LruCacheLocks that hold item i

vars == <<capacity, size, allocated, lruHead, lruTail, evictedHead, hash, item, locks>>

(* An operation is a function from the memory to the memory after it.       *)
Memory == [size |-> size, allocated |-> allocated, lruHead |-> lruHead, lruTail |-> lruTail,
           evictedHead |-> evictedHead, hash |-> hash, item |-> item]
Store(m) ==
  /\ size' = m.size /\ allocated' = m.allocated
  /\ lruHead' = m.lruHead /\ lruTail' = m.lruTail /\ evictedHead' = m.evictedHead
  /\ hash' = m.hash /\ item' = m.item

HashSize(c)    == (c * 133) \div 100 + 1                  \* kLoadFactor
EmptyHash(c)   == [b \in 0 .. HashSize(c) - 1 |-> Null]
Bucket(m, k)   == k % Cardinality(DOMAIN m.hash)
NewItem(k, n)  == [key |-> k, pins |-> 0, hnext |-> n, prev |-> Null, next |-> Null]

(* The items from a on along a link.  A chain that is longer than the       *)
(* memory has a cycle.                                                      *)
Follow(a, link) ==
  LET upto[n \in 0 .. Cardinality(Items) + 1] ==
        IF n = 0 THEN IF a = Null THEN << >> ELSE <<a>>
        ELSE LET s == upto[n - 1] IN
             IF s = << >> \/ link[Last(s)] = Null THEN s ELSE Append(s, link[Last(s)])
  IN  upto[Cardinality(Items) + 1]
Chain(m, a)  == Follow(a, [i \in DOMAIN m.item |-> m.item[i].hnext])
Evicted(m)   == Chain(m, m.evictedHead)
Lookup(m, k) == LET c == Chain(m, m.hash[Bucket(m, k)])
                    n == {j \in DOMAIN c : m.item[c[j]].key = k}
                IN  IF n = {} THEN Null ELSE c[Min(n)]

-----------------------------------------------------------------------------
(* EvictItem: out of the queue, out of its chain, and freed or, when it is  *)
(* pinned, moved to the evicted list.                                       *)
Unlink(m, i) ==
  LET p == m.item[i].prev
      n == m.item[i].next
      it == [a \in DOMAIN m.item |->
               IF a = p /\ m.lruHead # i THEN [m.item[a] EXCEPT !.next = n]
               ELSE IF a = n /\ m.lruTail # i THEN [m.item[a] EXCEPT !.prev = p]
               ELSE m.item[a]]
  IN  [m EXCEPT !.item = it,
                !.lruHead = IF @ = i THEN n ELSE @,
                !.lruTail = IF @ = i THEN p ELSE @]

OutOfChain(m, i) ==
  LET b == Bucket(m, m.item[i].key)
      c == Chain(m, m.hash[b])
  IN  IF m.hash[b] = i THEN [m EXCEPT !.hash[b] = m.item[i].hnext]
      ELSE LET before == CHOOSE j \in DOMAIN c : m.item[c[j]].hnext = i
           IN  [m EXCEPT !.item[c[before]].hnext = m.item[i].hnext]

Free(m, i) == [m EXCEPT !.allocated = @ - 1, !.item = Restrict(@, DOMAIN @ \ {i})]

EvictItem(m, i) ==
  LET u == OutOfChain(Unlink([m EXCEPT !.size = @ - 1], i), i) IN
  IF m.item[i].pins = 0
  THEN Free(u, i)
  ELSE [u EXCEPT !.item[i].hnext = u.evictedHead, !.evictedHead = i]

ShrinkToCapacity(m, c) ==
  LET evict[n \in 0 .. Cardinality(Items)] ==
        IF n = 0 THEN m
        ELSE LET p == evict[n - 1] IN
             IF p.lruTail # Null /\ p.size > c THEN EvictItem(p, p.lruTail) ELSE p
  IN  evict[Cardinality(Items)]

InsertIntoLru(m, i) ==
  LET it == [a \in DOMAIN m.item |->
               IF a = i THEN [m.item[a] EXCEPT !.next = m.lruHead, !.prev = Null]
               ELSE IF a = m.lruHead THEN [m.item[a] EXCEPT !.prev = i] ELSE m.item[a]]
  IN  [m EXCEPT !.item = it, !.lruHead = i, !.lruTail = IF @ = Null THEN i ELSE @]

(* A fault to be seeded.                                                    *)
LeaveInPlace(m, i) == m

BringToFront(m, i) == IF m.lruHead = i THEN m ELSE InsertIntoLru(Unlink(m, i), i)

(* The new item i, first in its chain.                                      *)
Added(m, k, i) ==
  [m EXCEPT !.size = @ + 1, !.allocated = @ + 1, !.hash[Bucket(m, k)] = i,
            !.item = [a \in DOMAIN m.item \cup {i} |->
                        IF a = i THEN NewItem(k, m.hash[Bucket(m, k)]) ELSE m.item[a]]]

-----------------------------------------------------------------------------
Init ==
  /\ capacity = Capacity /\ size = 0 /\ allocated = 0
  /\ lruHead = Null /\ lruTail = Null /\ evictedHead = Null
  /\ hash = EmptyHash(Capacity)
  /\ item = << >> /\ locks = [i \in Items |-> 0]

Insert(k) ==
  /\ capacity > 0
  /\ LET o == Lookup(Memory, k)
         e == IF o = Null THEN Memory ELSE EvictItem(Memory, o)
         s == ShrinkToCapacity(e, capacity - 1)
         i == Min(Items \ DOMAIN s.item)
     IN  DOMAIN s.item # Items /\ Store(InsertIntoLru(Added(s, k, i), i))
  /\ UNCHANGED <<capacity, locks>>

(* A LruCacheLock takes an item by its key, and gives it back.              *)
LookupAndPin(k) ==
  LET i == Lookup(Memory, k) IN
  /\ capacity > 0 /\ i # Null /\ locks[i] < MaxPins
  /\ Store(BringToFront([Memory EXCEPT !.item[i].pins = @ + 1], i))
  /\ locks' = [locks EXCEPT ![i] = @ + 1]
  /\ UNCHANGED capacity

(* The evicted list is searched first, then the chain of the key.           *)
Unlock(m, i) ==
  LET c == Evicted(m)
      before == {j \in DOMAIN c : m.item[c[j]].hnext = i}
      fewer  == [m EXCEPT !.item[i].pins = @ - 1]
  IN  IF i \in Range(c)
      THEN IF m.item[i].pins > 1 THEN fewer
           ELSE IF before = {} THEN [Free(m, i) EXCEPT !.evictedHead = m.item[i].hnext]
           ELSE [Free(m, i) EXCEPT !.item[c[Min(before)]].hnext = m.item[i].hnext]
      ELSE IF i \in Range(Chain(m, m.hash[Bucket(m, m.item[i].key)])) THEN fewer ELSE m

Unpin(i) ==
  /\ locks[i] > 0
  /\ Store(Unlock(Memory, i))
  /\ locks' = [locks EXCEPT ![i] = @ - 1]
  /\ UNCHANGED capacity

(* The loop over the old chains: it puts the item iter into the new table   *)
(* as long as head is not null, but only head goes on to the next item.     *)
Rehash(m, new) ==
  LET Put(st) ==
        LET b  == m.item[st.iter].key % Cardinality(DOMAIN st.hash)
            it == [st.item EXCEPT ![st.iter].hnext = st.hash[b]]
        IN  [st EXCEPT !.item = it, !.hash[b] = st.iter, !.head = it[st.head].hnext]
      Step(st, n) == IF st.head = Null THEN st ELSE Put(st)
      Chained(st, b) ==
        FoldLeft(Step, [st EXCEPT !.iter = m.hash[b], !.head = m.hash[b]],
                 [n \in 1 .. 2 * Cardinality(Items) |-> n])
  IN  FoldLeft(Chained, [item |-> m.item, hash |-> new, head |-> Null, iter |-> Null],
               [n \in 1 .. Cardinality(DOMAIN m.hash) |-> n - 1])

SetCapacity(c) ==
  LET s == ShrinkToCapacity(Memory, c)
      r == Rehash(s, EmptyHash(c))
  IN
  /\ c # capacity
  /\ MovesChains \/ \A b \in DOMAIN s.hash : Len(Chain(s, s.hash[b])) <= 1
  /\ capacity' = c
  /\ IF s.size = 0 THEN Store([s EXCEPT !.hash = EmptyHash(c)])
     ELSE Store([s EXCEPT !.hash = r.hash, !.item = r.item])
  /\ UNCHANGED locks

Clear == Store(ShrinkToCapacity(Memory, 0)) /\ UNCHANGED <<capacity, locks>>

Next ==
  \/ \E k \in Keys : Insert(k) \/ LookupAndPin(k)
  \/ \E i \in Items : Unpin(i)
  \/ \E c \in Capacities : SetCapacity(c)
  \/ Clear

Spec == Init /\ [][Next]_vars

-----------------------------------------------------------------------------
TypeOK ==
  /\ capacity \in Nat /\ size \in Nat /\ allocated \in Nat
  /\ {lruHead, lruTail, evictedHead} \subseteq Items \cup {Null} /\ DOMAIN item \subseteq Items
  /\ hash \in [DOMAIN EmptyHash(capacity) -> Items \cup {Null}]
  /\ locks \in [Items -> 0 .. MaxPins]

Queue == Follow(lruHead, [i \in DOMAIN item |-> item[i].next])
Back  == Follow(lruTail, [i \in DOMAIN item |-> item[i].prev])

(* The counters count, the queue reads the same in both directions, and an  *)
(* item that a lock holds is never freed, nor one kept that none holds.     *)
ListsAgree ==
  /\ Reverse(Back) = Queue
  /\ size = Len(Queue) /\ size <= capacity /\ allocated = Cardinality(DOMAIN item)
  /\ DOMAIN item = Range(Queue) \cup Range(Evicted(Memory))
  /\ \A i \in Items : locks[i] = IF i \in DOMAIN item THEN item[i].pins ELSE 0
  /\ \A i \in Range(Evicted(Memory)) : item[i].pins > 0

(* The cache implements Lru: what is linked in memory is the queue, and     *)
(* every operation has the effect Lru says; and the links agree all along.  *)
Held == [i \in DOMAIN item |-> [key |-> item[i].key, pins |-> item[i].pins]]
Impl == INSTANCE Lru WITH queue <- Queue, held <- Held
ImplementsLru == Impl!Spec /\ []ListsAgree
=============================================================================
