--------------------------- MODULE NodeTree_proof ---------------------------
(***************************************************************************)
(* Theorems about the tree, for any heap, any moves and any games: every   *)
(* node has one owner, is reached by the moves it was created for, the     *)
(* search starts from a node with all its moves, and a game that goes on   *)
(* keeps its node.                                                         *)
(***************************************************************************)
EXTENDS NodeTree, FiniteSetTheorems, SequenceTheorems, WellFoundedInduction, TLAPS

Slot == Addresses \cup {Null}
Types ==
  /\ child \in [Addresses -> Seq(Child)] /\ nodes \in [Addresses -> Seq(Slot)]
  /\ line \in [Addresses -> Seq(Keys \cup Moves)]
  /\ live \in SUBSET Addresses /\ gc \in SUBSET live
  /\ root \in Slot /\ head \in Slot /\ old \in Slot /\ prev \in Slot
  /\ key \in Keys /\ pc \in {"search", "walk", "expand"} /\ todo \in Seq(Child)
  /\ seen \in BOOLEAN /\ game \in Seq(Keys \cup Moves) /\ \A i \in DOMAIN game \ {1} : game[i] \in Moves

(* The nodes that are not freed are a forest under root and the collector's *)
(* subtrees; line gives the depth of a node.                                *)
Forest ==
  /\ \A b \in live : \A i \in Slots(b) : nodes[b][i] \in live \ (gc \cup {root})
  /\ \A b, c \in live : \A i \in Slots(b), j \in Slots(c) : nodes[b][i] = nodes[c][j] => b = c /\ i = j
  /\ root # Null => root \in live \ gc
  /\ \A a \in live : a = root \/ a \in gc \/ \E b \in live : a \in Children(b)
  /\ \A a \in Addresses \ live : child[a] = << >> /\ nodes[a] = << >>
  /\ \A a \in live : nodes[a] = << >> \/ Len(nodes[a]) = Len(child[a])
  /\ root = Null <=> head = Null

Depth(a) == Len(line[a])
Tree     == Owned(root)
(* All moves, or none yet.                                                  *)
Whole(a) ==
  child[a] # << >> => DOMAIN child[a] = DOMAIN Legal /\ \A i \in DOMAIN Legal : child[a][i].m = Legal[i]

(* Down to the head the tree is a single line; other nodes that miss some   *)
(* of their moves are on the way to the old head, if that was not seen yet. *)
Spine ==
  head # Null =>
    /\ head \in Tree /\ line[root] = <<key>>
    /\ \A x, y \in Tree : Depth(x) = Depth(y) /\ Depth(x) <= Depth(head) => x = y
    /\ \A x \in Tree : Depth(x) >= Depth(head) =>
         Whole(x) \/ (pc = "walk" /\ ~ seen /\ x # old /\ old \in Owned(x))
AtHead ==
  /\ head = Null => pc = "search"
  /\ head # Null => game = line[head] \o [i \in DOMAIN todo |-> todo[i].m]
  /\ pc # "walk" => todo = << >>
  /\ pc = "walk" => IF prev = Null THEN head = root ELSE prev \in live /\ nodes[prev] = <<head>>

Inv == Types /\ Forest /\ TreeIsOfGame /\ Spine /\ AtHead

-----------------------------------------------------------------------------
(* Forests, as functions N from addresses to sequences of addresses.        *)
Kids(N, b)     == {N[b][i] : i \in {j \in DOMAIN N[b] : N[b][j] # Null}}
ClosedIn(N, S) == \A b \in S : Kids(N, b) \subseteq S
Reach(N, a) ==
  {x \in Addresses : \A S \in SUBSET Addresses : a \in S /\ ClosedIn(N, S) => x \in S}

(* Nodes V, of which those in T have no parent, D being their depth.        *)
IsForest(N, V, T, D) ==
  /\ V \subseteq Addresses /\ T \subseteq V
  /\ \A b \in V : Kids(N, b) \subseteq V \ T
  /\ \A b, c \in V : \A x \in Kids(N, b) : x \in Kids(N, c) => b = c
  /\ \A b \in V : D[b] \in Nat /\ \A x \in Kids(N, b) : D[x] = D[b] + 1

LEMMA OwnedIsReach ==
  /\ \A a : Owned(a) = Reach(nodes, a) /\ Children(a) = Kids(nodes, a)
  /\ \A a : Owned(a)' = Reach(nodes', a) /\ Children(a)' = Kids(nodes', a)
<1>1. \A a : Children(a) = Kids(nodes, a)
  BY DEF Children, Slots, Kids
<1>2. \A a : Owned(a) = Reach(nodes, a)
  BY <1>1, Zenon DEF Owned, Reach, ClosedIn
<1>3. \A a : Children(a)' = Kids(nodes', a)
  BY DEF Children, Slots, Kids
<1>4. \A a : Owned(a)' = Reach(nodes', a)
  BY <1>3, Zenon DEF Owned, Reach, ClosedIn
<1> QED BY <1>1, <1>2, <1>3, <1>4

LEMMA ReachLeast ==
  ASSUME NEW N, NEW a, NEW S \in SUBSET Addresses, a \in S, ClosedIn(N, S)
  PROVE  Reach(N, a) \subseteq S
BY DEF Reach

LEMMA ReachClosed ==
  ASSUME NEW N, NEW V \in SUBSET Addresses, ClosedIn(N, V), NEW a \in V
  PROVE  a \in Reach(N, a) /\ ClosedIn(N, Reach(N, a)) /\ Reach(N, a) \subseteq V
<1>1. a \in Reach(N, a)
  BY DEF Reach
<1>2. Reach(N, a) \subseteq V
  BY ReachLeast
<1>3. ASSUME NEW b \in Reach(N, a), NEW x \in Kids(N, b) PROVE x \in Reach(N, a)
  <2>1. x \in Addresses
    BY <1>2, <1>3 DEF ClosedIn
  <2>2. ASSUME NEW S \in SUBSET Addresses, a \in S, ClosedIn(N, S) PROVE x \in S
    BY <2>2 DEF Reach, ClosedIn
  <2> QED BY <2>1, <2>2 DEF Reach
<1> QED BY <1>1, <1>2, <1>3 DEF ClosedIn

LEMMA ReachTrans ==
  ASSUME NEW N, NEW V \in SUBSET Addresses, ClosedIn(N, V), NEW a \in V, NEW b \in Reach(N, a)
  PROVE  Reach(N, b) \subseteq Reach(N, a) /\ b \in V
BY ReachClosed, ReachLeast

LEMMA ReachParent ==
  ASSUME NEW N, NEW V \in SUBSET Addresses, ClosedIn(N, V), NEW a \in V, NEW x \in Reach(N, a), x # a
  PROVE  \E b \in Reach(N, a) \ {x} : x \in Kids(N, b)
<1> SUFFICES ASSUME \A b \in Reach(N, a) \ {x} : x \notin Kids(N, b) PROVE FALSE
  OBVIOUS
<1> DEFINE S == Reach(N, a) \ {x}
<1>1. S \in SUBSET Addresses /\ a \in S
  BY ReachClosed
<1>2. ClosedIn(N, S)
  BY ReachClosed DEF ClosedIn
<1>3. Reach(N, a) \subseteq S
  BY <1>1, <1>2, ReachLeast
<1> QED BY <1>3

LEMMA Deeper ==
  ASSUME NEW N, NEW V, NEW T, NEW D, IsForest(N, V, T, D), NEW a \in V, NEW x \in Reach(N, a)
  PROVE  x \in V /\ (x # a => D[x] > D[a])
<1> DEFINE S == {a} \cup {y \in V : D[y] > D[a]}
<1>1. S \in SUBSET Addresses /\ a \in S
  BY DEF IsForest
<1>2. ClosedIn(N, S)
  BY DEF IsForest, ClosedIn
<1>3. Reach(N, a) \subseteq S
  BY <1>1, <1>2, ReachLeast
<1> QED BY <1>3

LEMMA TopsApart ==
  ASSUME NEW N, NEW V, NEW T, NEW D, IsForest(N, V, T, D), NEW a \in T, NEW b \in T, a # b
  PROVE  Reach(N, a) \cap Reach(N, b) = {}
<1>1. V \in SUBSET Addresses /\ a \in V /\ b \in V /\ ClosedIn(N, V)
  BY DEF IsForest, ClosedIn
<1>2. Reach(N, a) \subseteq V /\ Reach(N, b) \subseteq V
  BY <1>1, ReachClosed
<1>3. a \notin Reach(N, b)
  BY <1>1, <1>2, ReachParent DEF IsForest
<1> DEFINE S == Reach(N, a) \ Reach(N, b)
<1>4. a \in S /\ S \in SUBSET Addresses
  BY <1>1, <1>3, ReachClosed
<1>5. ASSUME NEW c \in S, NEW x \in Kids(N, c) PROVE x \in S
  <2>1. x \in Reach(N, a) /\ c \in V
    BY <1>1, <1>2, ReachClosed DEF ClosedIn
  <2>2. ASSUME x \in Reach(N, b) PROVE FALSE
    <3>1. x # b
      BY <2>1 DEF IsForest
    <3>2. PICK d \in Reach(N, b) : x \in Kids(N, d)
      BY <1>1, <2>2, <3>1, ReachParent
    <3>3. d = c
      BY <1>2, <2>1, <3>2 DEF IsForest
    <3> QED BY <3>2, <3>3
  <2> QED BY <2>1, <2>2
<1>6. Reach(N, a) \subseteq S
  <2>1. ClosedIn(N, S)
    BY <1>5 DEF ClosedIn
  <2> HIDE DEF S
  <2> QED BY <1>4, <2>1, ReachLeast
<1> QED BY <1>6

(* Only a child of b is reached from elsewhere through b alone.             *)
LEMMA OnlyParent ==
  ASSUME NEW N, NEW V, NEW T, NEW D, IsForest(N, V, T, D), NEW a \in V, NEW x \in Reach(N, a), x # a,
         NEW b \in V, x \in Kids(N, b)
  PROVE  b \in Reach(N, a)
<1>1. V \in SUBSET Addresses /\ ClosedIn(N, V)
  BY DEF IsForest, ClosedIn
<1>2. PICK d \in Reach(N, a) : x \in Kids(N, d)
  BY <1>1, ReachParent
<1>3. d \in V
  BY <1>1, ReachClosed
<1> QED BY <1>2, <1>3 DEF IsForest

LEMMA Least == ASSUME NEW S \in SUBSET Nat, S # {} PROVE \E n \in S : \A m \in S : n <= m
<1> DEFINE R == OpToRel(<, Nat)
<1>1. IsWellFoundedOn(R, Nat)
  BY NatLessThanWellFounded
<1>2. \A x, y \in Nat : <<x, y>> \in R <=> x < y
  BY DEF OpToRel
<1> HIDE DEF R
<1>3. PICK n \in S : \A m \in S : ~ (<<m, n>> \in R)
  BY <1>1, WFMin
<1>4. ASSUME NEW m \in S PROVE n <= m
  <2>1. n \in Nat /\ m \in Nat
    OBVIOUS
  <2>2. ~ (m < n)
    BY <1>2, <1>3, <2>1, Zenon
  <2> QED BY <2>1, <2>2
<1> QED BY <1>4

LEMMA ReachKept ==
  ASSUME NEW N, NEW M, NEW r, NEW x \in Reach(N, r),
         \A b \in Addresses \ {x} : Kids(N, b) \subseteq Kids(M, b)
  PROVE  x \in Reach(M, r)
<1> SUFFICES ASSUME NEW S \in SUBSET Addresses, r \in S, ClosedIn(M, S), x \notin S PROVE FALSE
  BY DEF Reach
<1>1. ClosedIn(N, S)
  BY DEF ClosedIn
<1> QED BY <1>1, ReachLeast

LEMMA ReachSame ==
  ASSUME NEW N, NEW M, NEW V \in SUBSET Addresses, ClosedIn(N, V), NEW r \in V,
         \A b \in Reach(N, r) : Kids(M, b) = Kids(N, b)
  PROVE  Reach(M, r) = Reach(N, r)
<1>1. r \in Reach(N, r) /\ ClosedIn(N, Reach(N, r)) /\ Reach(N, r) \in SUBSET Addresses
  BY ReachClosed
<1>2. ClosedIn(M, Reach(N, r))
  BY <1>1 DEF ClosedIn
<1>3. Reach(M, r) \subseteq Reach(N, r)
  BY <1>1, <1>2, ReachLeast
<1>4. ClosedIn(M, Reach(M, r)) /\ r \in Reach(M, r)
  BY <1>1, <1>2, ReachClosed
<1>5. ClosedIn(N, Reach(M, r)) /\ Reach(M, r) \in SUBSET Addresses
  BY <1>1, <1>3, <1>4 DEF ClosedIn
<1> QED BY <1>3, <1>4, <1>5, ReachLeast

(* The allocator gives a node that is not in use.                           *)
LEMMA MinFree == Free # {} => Min(Free) \in Addresses /\ Min(Free) \notin live /\ Min(Free) # Null
<1> SUFFICES ASSUME Free # {} PROVE Min(Free) \in Free
  BY AddressAssumption DEF Free
<1>1. Free \in SUBSET Nat
  BY AddressAssumption DEF Free
<1>2. PICK n \in Free : \A m \in Free : n <= m
  BY <1>1, Least
<1> QED BY <1>2, Zenon DEF Min

-----------------------------------------------------------------------------
(* The tree is such a forest.                                               *)
Tops == gc \cup ({root} \ {Null})
Deep == [a \in Addresses |-> Depth(a)]
Shaped == IsForest(nodes, live, Tops, Deep)

LEMMA Shape == Types /\ Forest /\ TreeMatchesMoves => Shaped
<1> SUFFICES ASSUME Types, Forest, TreeMatchesMoves PROVE IsForest(nodes, live, Tops, Deep)
  BY DEF Shaped
<1> USE AddressAssumption DEF Null
<1>1. live \subseteq Addresses /\ Tops \subseteq live
  BY DEF Types, Forest, Tops
<1>2. \A b \in live : Kids(nodes, b) \subseteq live \ Tops
  BY DEF Forest, Kids, Slots, Tops
<1>3. \A b, c \in live : \A x \in Kids(nodes, b) : x \in Kids(nodes, c) => b = c
  BY DEF Forest, Kids, Slots
<1>4. \A b \in live : Deep[b] \in Nat
  BY DEF Types, Deep, Depth
<1>5. ASSUME NEW b \in live, NEW x \in Kids(nodes, b) PROVE Deep[x] = Deep[b] + 1
  <2>1. PICK i \in Slots(b) : x = nodes[b][i]
    BY DEF Kids, Slots
  <2>2. line[x] = Append(line[b], child[b][i].m)
    BY <2>1 DEF TreeMatchesMoves
  <2>3. x \in Addresses /\ b \in Addresses /\ line[b] \in Seq(Keys \cup Moves)
    BY <1>1, <1>2 DEF Types
  <2>4. Len(line[x]) = Len(line[b]) + 1
    BY <2>2, <2>3
  <2> QED BY <2>3, <2>4 DEF Deep, Depth
<1> QED BY <1>1, <1>2, <1>3, <1>4, <1>5 DEF IsForest

LEMMA ShapeNext == Types' /\ Forest' /\ TreeMatchesMoves' => Shaped'
BY Shape, PTL

(* What Inv says of the tree, in those words.                               *)
LEMMA TreeFacts ==
  Inv /\ head # Null =>
    /\ live \in SUBSET Addresses /\ ClosedIn(nodes, live) /\ root \in live /\ root \in Tops
    /\ Tree = Reach(nodes, root) /\ Tree \subseteq live /\ ClosedIn(nodes, Tree)
    /\ head \in Tree /\ root \in Tree
    /\ \A x \in live : Depth(x) \in Nat /\ Deep[x] = Depth(x)
<1> SUFFICES ASSUME Inv, head # Null PROVE
    /\ live \in SUBSET Addresses /\ ClosedIn(nodes, live) /\ root \in live /\ root \in Tops
    /\ Tree = Reach(nodes, root) /\ Tree \subseteq live /\ ClosedIn(nodes, Tree)
    /\ head \in Tree /\ root \in Tree
    /\ \A x \in live : Depth(x) \in Nat /\ Deep[x] = Depth(x)
  OBVIOUS
<1>1. live \in SUBSET Addresses /\ root \in live /\ root \in Tops
  BY DEF Inv, Types, Forest, Tops
<1>2. Shaped
  BY Shape DEF Inv, TreeIsOfGame
<1>3. ClosedIn(nodes, live)
  BY <1>2 DEF Shaped, IsForest, ClosedIn
<1>4. Tree = Reach(nodes, root)
  BY OwnedIsReach DEF Tree
<1>5. Tree \subseteq live /\ ClosedIn(nodes, Tree) /\ root \in Tree
  BY <1>1, <1>3, <1>4, ReachClosed
<1>6. head \in Tree
  BY DEF Inv, Spine
<1>7. \A x \in live : Deep[x] \in Nat /\ Deep[x] = Depth(x)
  BY <1>1, <1>2 DEF Shaped, IsForest, Deep
<1> QED BY <1>1, <1>3, <1>4, <1>5, <1>6, <1>7

(* A flag changes no node, no move and no depth.                            *)
LEMMA SetFlagKeeps == ASSUME Inv, NEW a \in Owned(head), NEW i \in DOMAIN child[a], SetFlag(a, i) PROVE Inv'
<1>1. /\ child' = [child EXCEPT ![a][i].f = TRUE]
      /\ UNCHANGED <<nodes, live, line, root, head, key, gc, pc, todo, old, prev, seen, game>>
      /\ i \in Slots(a)
  BY DEF SetFlag, walk, history
<1>2. a \in Addresses /\ child[a] \in Seq(Child)
  BY DEF Owned, Inv, Types
<1>3. /\ child' \in [Addresses -> Seq(Child)]
      /\ \A b \in Addresses : Len(child'[b]) = Len(child[b]) /\ DOMAIN child'[b] = DOMAIN child[b]
      /\ \A b \in Addresses : \A j \in DOMAIN child[b] : child'[b][j].m = child[b][j].m
      /\ \A b \in Addresses : child'[b] = << >> <=> child[b] = << >>
  <2> DEFINE c == [child[a] EXCEPT ![i].f = TRUE]
  <2>1. i \in DOMAIN child[a] /\ child[a][i] \in Child
    BY <1>2
  <2>2. [child[a][i] EXCEPT !.f = TRUE] \in Child /\ [child[a][i] EXCEPT !.f = TRUE].m = child[a][i].m
    BY <2>1 DEF Child
  <2>3. c = [child[a] EXCEPT ![i] = [child[a][i] EXCEPT !.f = TRUE]]
    OBVIOUS
  <2>4. c \in Seq(Child) /\ Len(c) = Len(child[a]) /\ DOMAIN c = DOMAIN child[a]
    BY <1>2, <2>1, <2>2, <2>3
  <2>5. \A j \in DOMAIN child[a] : c[j].m = child[a][j].m
    BY <1>2, <2>1, <2>2, <2>3
  <2>6. c = << >> <=> child[a] = << >>
    BY <1>2, <2>1, <2>4
  <2>7. child' = [child EXCEPT ![a] = c]
    BY <1>1
  <2>8. child \in [Addresses -> Seq(Child)]
    BY DEF Inv, Types
  <2> HIDE DEF c
  <2> QED BY <1>2, <2>4, <2>5, <2>6, <2>7, <2>8
<1>4. Types'
  BY <1>1, <1>3 DEF Inv, Types
<1>5. Forest'
  BY <1>1, <1>3, SMTT(20) DEF Inv, Types, Forest, Slots, Children
<1>6. TreeIsOfGame'
  BY <1>1, <1>3 DEF Inv, Types, TreeIsOfGame, TreeMatchesMoves, HeadIsComplete, Slots
<1>7. Owned(root)' = Owned(root) /\ \A x : Owned(x)' = Owned(x)
  BY <1>1, OwnedIsReach
<1>8. Spine'
  BY <1>1, <1>3, <1>7 DEF Inv, Types, Spine, Tree, Depth, Whole
<1>9. AtHead'
  BY <1>1 DEF Inv, AtHead
<1> QED BY <1>4, <1>5, <1>6, <1>8, <1>9 DEF Inv

(* Fresh children have no flags and the moves of Legal.                     *)
LEMMA ListedHolds ==
  /\ Listed \in Seq(Child) /\ DOMAIN Listed = DOMAIN Legal /\ Len(Listed) = Len(Legal)
  /\ \A i \in DOMAIN Legal : Listed[i].m = Legal[i]
<1>1. Legal \in Seq(Range(Legal)) /\ \A i \in DOMAIN Legal : Legal[i] \in Moves
  BY MoveAssumption DEF Moves, Range
<1>2. Legal \in Seq(Moves)
  BY <1>1
<1>3. \A i \in DOMAIN Legal : Plain(Legal[i]) \in Child /\ Plain(Legal[i]).m = Legal[i]
  BY <1>1 DEF Plain, Child
<1>4. Len(Legal) \in Nat /\ DOMAIN Legal = 1 .. Len(Legal)
  BY <1>2
<1>5. DOMAIN Listed = 1 .. Len(Legal) /\ \A i \in 1 .. Len(Legal) : Listed[i] = Plain(Legal[i])
  BY <1>4 DEF Listed
<1>6. Listed \in [1 .. Len(Legal) -> Child]
  BY <1>3, <1>4, <1>5, Zenon DEF Listed
<1>7. Listed \in Seq(Child) /\ Len(Listed) = Len(Legal)
  BY <1>4, <1>6
<1> QED BY <1>3, <1>4, <1>5, <1>7

LEMMA ExpandRootKeeps == ASSUME Inv, ExpandRoot PROVE Inv'
<1>1. /\ pc = "expand" /\ pc' = "search"
      /\ child' = IF child[head] = << >> THEN [child EXCEPT ![head] = Listed] ELSE child
      /\ UNCHANGED <<nodes, live, line, root, head, key, gc, todo, old, prev, seen, game>>
  BY DEF ExpandRoot, walk, history
<1>2. head # Null /\ head \in live /\ head \in Addresses /\ head \in Tree /\ todo = << >>
  BY <1>1, TreeFacts DEF Inv, AtHead
<1>3. /\ child' \in [Addresses -> Seq(Child)]
      /\ \A b \in Addresses \ {head} : child'[b] = child[b]
      /\ child[head] # << >> => child'[head] = child[head]
      /\ child[head] = << >> => child'[head] = Listed
  BY <1>1, <1>2, ListedHolds DEF Inv, Types
<1>4. Types'
  BY <1>1, <1>3 DEF Inv, Types
<1>5. child[head] = << >> => nodes[head] = << >>
  BY <1>2 DEF Inv, Types, Forest
<1>6. Forest'
  BY <1>1, <1>2, <1>3, <1>5 DEF Inv, Types, Forest, Slots, Children
<1>7. TreeMatchesMoves'
  BY <1>1, <1>2, <1>3, <1>5 DEF Inv, Types, TreeIsOfGame, TreeMatchesMoves, Slots
<1>8. \A x \in Tree : Depth(x) >= Depth(head) => Whole(x)
  BY <1>1, <1>2 DEF Inv, Spine
<1>9. Whole(head)
  BY <1>2, <1>8, TreeFacts
<1>10. DOMAIN child'[head] = DOMAIN Legal /\ \A i \in DOMAIN Legal : child'[head][i].m = Legal[i]
  BY <1>3, <1>9, ListedHolds DEF Whole
<1>11. game = line[head]
  <2>1. game = line[head] \o << >> /\ line[head] \in Seq(Keys \cup Moves)
    BY <1>2 DEF Inv, Types, AtHead
  <2> QED BY <2>1
<1>12. HeadIsComplete'
  BY <1>1, <1>10, <1>11 DEF HeadIsComplete
<1>13. Tree' = Tree
  BY <1>1, OwnedIsReach DEF Tree
<1>14. \A x \in Tree : Depth(x) >= Depth(head) => Whole(x)'
  BY <1>2, <1>3, <1>8, <1>10, TreeFacts DEF Whole
<1>15. Spine'
  BY <1>1, <1>2, <1>13, <1>14 DEF Inv, Spine, Depth
<1>16. AtHead'
  BY <1>1, <1>2 DEF Inv, AtHead
<1> QED BY <1>4, <1>6, <1>7, <1>12, <1>15, <1>16 DEF Inv, TreeIsOfGame

LEMMA GarbageCollectKeeps == ASSUME Inv, GarbageCollect PROVE Inv'
<1> USE AddressAssumption DEF Null
<1>1. PICK a \in gc :
        /\ gc' = gc \ {a} /\ live' = live \ Owned(a)
        /\ child' = [b \in Addresses |-> IF b \in Owned(a) THEN << >> ELSE child[b]]
        /\ nodes' = [b \in Addresses |-> IF b \in Owned(a) THEN << >> ELSE nodes[b]]
        /\ line'  = [b \in Addresses |-> IF b \in Owned(a) THEN << >> ELSE line[b]]
        /\ UNCHANGED <<root, head, key, pc, todo, old, prev, seen, game>>
  BY Zenon DEF GarbageCollect, walk, history
<1>2. Shaped /\ a \in live /\ a \in Tops /\ live \in SUBSET Addresses
  BY Shape DEF Inv, TreeIsOfGame, Types, Tops
<1>3. ClosedIn(nodes, live)
  BY <1>2 DEF Shaped, IsForest, ClosedIn
<1> DEFINE F == Owned(a)
<1>4. F = Reach(nodes, a) /\ F \subseteq live /\ a \in F /\ ClosedIn(nodes, F)
  BY <1>2, <1>3, OwnedIsReach, ReachClosed
<1>5. \A b \in live \ F : Kids(nodes, b) \cap F = {}
  <2> SUFFICES ASSUME NEW b \in live \ F, NEW x \in Kids(nodes, b), x \in F PROVE FALSE
    OBVIOUS
  <2>1. x # a
    BY <1>2 DEF Shaped, IsForest
  <2> QED BY <1>2, <1>4, <2>1, OnlyParent DEF Shaped
<1>6. \A t \in Tops \ {a} : t \notin F
  <2> SUFFICES ASSUME NEW t \in Tops \ {a}, t \in Reach(nodes, a) PROVE FALSE
    BY <1>4
  <2>1. PICK b \in Reach(nodes, a) : t \in Kids(nodes, b)
    BY <1>2, <1>3, ReachParent
  <2> QED BY <1>2, <1>4, <2>1 DEF Shaped, IsForest
<1>7. /\ \A b \in live \ F : child'[b] = child[b] /\ nodes'[b] = nodes[b] /\ line'[b] = line[b]
      /\ \A b \in Addresses \ (live \ F) : child'[b] = << >> /\ nodes'[b] = << >>
  BY <1>1, <1>2 DEF Inv, Forest
<1>8. root # Null => root \in Tops /\ root # a /\ root \notin F
  BY <1>6 DEF Inv, Forest, Tops
<1>9. Types'
  <2>1. child' \in [Addresses -> Seq(Child)]
    BY <1>1 DEF Inv, Types
  <2>2. nodes' \in [Addresses -> Seq(Slot)]
    BY <1>1 DEF Inv, Types
  <2>3. line' \in [Addresses -> Seq(Keys \cup Moves)]
    BY <1>1 DEF Inv, Types
  <2>4. gc' \in SUBSET live' /\ live' \in SUBSET Addresses
    BY <1>1, <1>2, <1>6 DEF Inv, Types, Tops
  <2> QED BY <1>1, <2>1, <2>2, <2>3, <2>4 DEF Inv, Types
<1>10. \A b \in live' : b \in live /\ b \notin F
  BY <1>1
<1> HIDE DEF F
<1>11. Forest'
  <2>1. ASSUME NEW b \in live', NEW i \in Slots(b)' PROVE nodes'[b][i] \in live' \ (gc' \cup {root'})
    <3>1. i \in Slots(b) /\ nodes'[b][i] = nodes[b][i]
      BY <1>7, <1>10 DEF Slots
    <3>2. nodes[b][i] \in Kids(nodes, b)
      BY <3>1 DEF Slots, Kids
    <3>3. nodes[b][i] \notin F
      BY <1>5, <1>10, <3>2
    <3> QED BY <1>1, <1>10, <3>1, <3>3 DEF Inv, Forest, F
  <2>2. ASSUME NEW b \in live', NEW c \in live', NEW i \in Slots(b)', NEW j \in Slots(c)',
               nodes'[b][i] = nodes'[c][j]
        PROVE  b = c /\ i = j
    BY <1>7, <1>10, <2>2 DEF Inv, Forest, Slots
  <2>3. ASSUME NEW x \in live' PROVE x = root' \/ x \in gc' \/ \E b \in live' : x \in Children(b)'
    <3>1. CASE x = root \/ x \in gc
      BY <1>1, <1>4, <1>10, <3>1
    <3>2. CASE \E b \in live : x \in Children(b)
      <4>1. PICK b \in live : x \in Kids(nodes, b)
        BY <3>2, OwnedIsReach
      <4>2. b \notin F
        BY <1>4, <1>10, <4>1 DEF ClosedIn
      <4>3. Kids(nodes', b) = Kids(nodes, b)
        BY <1>7, <4>2 DEF Kids
      <4> QED BY <1>1, <4>1, <4>2, <4>3, OwnedIsReach DEF F
    <3> QED BY <1>10, <3>1, <3>2 DEF Inv, Forest
  <2>4. root' # Null => root' \in live' \ gc'
    BY <1>1, <1>8 DEF Inv, Forest, F
  <2>5. \A x \in Addresses \ live' : child'[x] = << >> /\ nodes'[x] = << >>
    BY <1>1, <1>7 DEF F
  <2>6. \A x \in live' : nodes'[x] = << >> \/ Len(nodes'[x]) = Len(child'[x])
    BY <1>7, <1>10 DEF Inv, Forest
  <2>7. root' = Null <=> head' = Null
    BY <1>1 DEF Inv, Forest
  <2> QED BY <2>1, <2>2, <2>3, <2>4, <2>5, <2>6, <2>7 DEF Forest
<1>12. TreeMatchesMoves'
  <2> SUFFICES ASSUME NEW b \in live', NEW i \in Slots(b)'
               PROVE  i \in DOMAIN child'[b] /\ line'[nodes'[b][i]] = Append(line'[b], child'[b][i].m)
    BY DEF TreeMatchesMoves
  <2>1. i \in Slots(b) /\ nodes'[b][i] = nodes[b][i] /\ b \in live /\ b \notin F
    BY <1>7, <1>10 DEF Slots
  <2>2. nodes[b][i] \in live \ F
    BY <1>5, <2>1 DEF Slots, Kids, Inv, Forest
  <2>3. i \in DOMAIN child[b] /\ line[nodes[b][i]] = Append(line[b], child[b][i].m)
    BY <2>1 DEF Inv, TreeIsOfGame, TreeMatchesMoves
  <2>4. line'[nodes[b][i]] = line[nodes[b][i]] /\ line'[b] = line[b] /\ child'[b] = child[b]
    BY <1>7, <2>1, <2>2
  <2> QED BY <2>1, <2>3, <2>4
<1>13. ASSUME head # Null
       PROVE  /\ Tree' = Tree /\ \A x \in Tree : Owned(x)' = Owned(x)
              /\ \A x \in Tree : x \in live \ F
  <2>1. Tree = Reach(nodes, root) /\ Tree \subseteq live /\ root \in Tops /\ ClosedIn(nodes, Tree)
    BY <1>13, TreeFacts
  <2>2. Tree \cap F = {}
    BY <1>2, <1>4, <1>8, <1>13, <2>1, TopsApart DEF Shaped, Inv, Forest
  <2>3. \A b \in Tree : Kids(nodes', b) = Kids(nodes, b)
    BY <1>7, <2>1, <2>2 DEF Kids
  <2>4. ASSUME NEW x \in Tree PROVE Reach(nodes', x) = Reach(nodes, x)
    <3>1. Tree \in SUBSET Addresses
      BY <1>2, <2>1
    <3>2. Reach(nodes, x) \subseteq Tree
      BY <2>1, <3>1, ReachClosed
    <3>3. \A b \in Reach(nodes, x) : Kids(nodes', b) = Kids(nodes, b)
      BY <2>3, <3>2
    <3> QED BY <2>1, <3>1, <3>3, ReachSame
  <2>5. root \in Tree
    BY <1>13, TreeFacts
  <2> QED BY <1>1, <2>1, <2>2, <2>4, <2>5, OwnedIsReach DEF Tree
<1>14. HeadIsComplete'
  BY <1>1, <1>7, <1>13, TreeFacts DEF Inv, TreeIsOfGame, HeadIsComplete
<1>15. Spine'
  <2> SUFFICES ASSUME head # Null PROVE Spine'
    BY <1>1 DEF Spine
  <2>1. \A x \in Tree : Depth(x)' = Depth(x) /\ Whole(x)' = Whole(x)
    BY <1>7, <1>13 DEF Depth, Whole
  <2>2. line'[root] = line[root] /\ head \in Tree
    BY <1>7, <1>13, TreeFacts
  <2> QED BY <1>1, <1>13, <2>1, <2>2 DEF Inv, Spine
<1>16. ASSUME pc = "walk", prev # Null PROVE prev \in live \ F
  <2>1. head # Null /\ prev \in live /\ nodes[prev] = <<head>>
    BY <1>16 DEF Inv, AtHead
  <2>2. head \in Kids(nodes, prev)
    BY <2>1 DEF Kids
  <2>3. head \in live \ F
    BY <1>13, <2>1, TreeFacts
  <2> QED BY <1>4, <2>1, <2>2, <2>3 DEF ClosedIn
<1>17. AtHead'
  BY <1>1, <1>7, <1>13, <1>16, TreeFacts DEF Inv, AtHead, F
<1> QED BY <1>9, <1>11, <1>12, <1>14, <1>15, <1>17 DEF Inv, TreeIsOfGame

LEMMA CreateChildNodeKeeps ==
  ASSUME Inv, head # Null, NEW a \in Owned(head), NEW i \in DOMAIN child[a], CreateChildNode(a, i)
  PROVE  Inv'
<1> USE AddressAssumption DEF Null
<1>0. PICK new : new = Min(Free)
  OBVIOUS
<1>1. /\ pc = "search" /\ Free # {} /\ i \notin Slots(a)
      /\ child' \in {[child EXCEPT ![new] = Listed], [child EXCEPT ![new] = << >>, ![a][i].f = TRUE]}
      /\ nodes' = [nodes EXCEPT ![new] = << >>,
                     ![a] = [j \in DOMAIN child[a] |-> IF j = i THEN new
                                                       ELSE IF @ = << >> THEN Null ELSE @[j]]]
      /\ line' = [line EXCEPT ![new] = Append(line[a], child[a][i].m)]
      /\ live' = live \cup {new}
      /\ UNCHANGED <<root, head, key, gc, pc, todo, old, prev, seen, game>>
  BY <1>0, Zenon DEF CreateChildNode, walk, history
<1>2. new \in Addresses /\ new \notin live /\ new # 0
  BY <1>0, <1>1, MinFree
<1>3. /\ live \in SUBSET Addresses /\ ClosedIn(nodes, live) /\ root \in live /\ root \in Tops
      /\ Tree = Reach(nodes, root) /\ Tree \subseteq live /\ ClosedIn(nodes, Tree)
      /\ head \in Tree /\ root \in Tree
      /\ \A x \in live : Depth(x) \in Nat /\ Deep[x] = Depth(x)
  BY TreeFacts
<1>4. a \in Tree /\ Depth(a) >= Depth(head)
  <2>1. a \in Reach(nodes, head) /\ Shaped
    BY OwnedIsReach, Shape DEF Inv, TreeIsOfGame
  <2>2. a \in live /\ (a # head => Deep[a] > Deep[head])
    BY <1>3, <2>1, Deeper DEF Shaped
  <2>3. a \in Tree
    BY <1>3, <2>1, ReachTrans
  <2> QED BY <1>3, <2>2, <2>3
<1>5. a \in live /\ a \in Addresses /\ a # new
  BY <1>2, <1>3, <1>4
<1>6. child[a] \in Seq(Child) /\ nodes[a] \in Seq(Slot) /\ Slots(a) \subseteq DOMAIN child[a]
      /\ line[a] \in Seq(Keys \cup Moves) /\ child[a][i].m \in Moves
  <2>1. child[a] \in Seq(Child) /\ nodes[a] \in Seq(Slot) /\ line[a] \in Seq(Keys \cup Moves)
    BY <1>5 DEF Inv, Types
  <2>2. child[a][i] \in Child
    BY <2>1
  <2> QED BY <1>5, <2>1, <2>2 DEF Inv, TreeIsOfGame, TreeMatchesMoves, Child
<1>7. /\ child' \in [Addresses -> Seq(Child)]
      /\ \A b \in live : DOMAIN child'[b] = DOMAIN child[b] /\ Len(child'[b]) = Len(child[b])
      /\ \A b \in live : \A j \in DOMAIN child[b] : child'[b][j].m = child[b][j].m
      /\ \A b \in live : child'[b] = << >> <=> child[b] = << >>
      /\ child'[new] \in {<< >>, Listed}
      /\ \A b \in Addresses \ live : b # new => child'[b] = child[b]
  <2>1. child \in [Addresses -> Seq(Child)]
    BY DEF Inv, Types
  <2>2. CASE child' = [child EXCEPT ![new] = Listed]
    BY <1>2, <1>3, <2>1, <2>2, ListedHolds
  <2>3. CASE child' = [child EXCEPT ![new] = << >>, ![a][i].f = TRUE]
    <3> DEFINE c == [child[a] EXCEPT ![i].f = TRUE]
    <3>1. [child[a][i] EXCEPT !.f = TRUE] \in Child /\ [child[a][i] EXCEPT !.f = TRUE].m = child[a][i].m
      <4>1. child[a][i] \in Child
        BY <1>6
      <4> QED BY <4>1 DEF Child
    <3>2. c = [child[a] EXCEPT ![i] = [child[a][i] EXCEPT !.f = TRUE]]
      OBVIOUS
    <3>3. c \in Seq(Child) /\ Len(c) = Len(child[a]) /\ DOMAIN c = DOMAIN child[a]
      BY <1>6, <3>1, <3>2
    <3>4. \A j \in DOMAIN child[a] : c[j].m = child[a][j].m
      BY <1>6, <3>1, <3>2
    <3>5. c = << >> <=> child[a] = << >>
      BY <1>6, <3>3
    <3>6. child' = [child EXCEPT ![new] = << >>, ![a] = c]
      BY <1>5, <2>3
    <3>7. << >> \in Seq(Child)
      OBVIOUS
    <3> HIDE DEF c
    <3> QED BY <1>2, <1>3, <1>5, <2>1, <3>3, <3>4, <3>5, <3>6, <3>7
  <2> QED BY <1>1, <2>2, <2>3
<1>8. /\ nodes' \in [Addresses -> Seq(Slot)]
      /\ \A b \in Addresses \ {a, new} : nodes'[b] = nodes[b]
      /\ nodes'[new] = << >>
      /\ DOMAIN nodes'[a] = DOMAIN child[a] /\ Len(nodes'[a]) = Len(child[a])
      /\ nodes'[a][i] = new
      /\ \A j \in Slots(a) : j # i /\ nodes'[a][j] = nodes[a][j]
      /\ \A j \in DOMAIN child[a] : j \notin Slots(a) /\ j # i => nodes'[a][j] = Null
  <2> DEFINE n == [j \in DOMAIN child[a] |-> IF j = i THEN new
                                             ELSE IF nodes[a] = << >> THEN Null ELSE nodes[a][j]]
  <2>1. nodes \in [Addresses -> Seq(Slot)]
    BY DEF Inv, Types
  <2>2. nodes' = [nodes EXCEPT ![new] = << >>, ![a] = n]
    BY <1>1, <1>5, <2>1
  <2>3. nodes[a] = << >> \/ DOMAIN nodes[a] = DOMAIN child[a]
    BY <1>5, <1>6 DEF Inv, Forest
  <2>4. DOMAIN child[a] = 1 .. Len(child[a]) /\ Len(child[a]) \in Nat
    BY <1>6
  <2>5. \A j \in DOMAIN child[a] : n[j] \in Slot
    BY <1>2, <1>6, <2>3 DEF Slot
  <2>6. n \in [1 .. Len(child[a]) -> Slot]
    BY <2>4, <2>5
  <2>7. n \in Seq(Slot) /\ DOMAIN n = DOMAIN child[a] /\ Len(n) = Len(child[a])
    BY <2>4, <2>6
  <2>8. n[i] = new /\ \A j \in Slots(a) : j # i /\ n[j] = nodes[a][j]
    BY <1>1, <1>6 DEF Slots
  <2>9. \A j \in DOMAIN child[a] : j \notin Slots(a) /\ j # i => n[j] = Null
    BY <2>3 DEF Slots
  <2>10. << >> \in Seq(Slot)
    OBVIOUS
  <2> HIDE DEF n
  <2> QED BY <1>2, <1>5, <2>1, <2>2, <2>7, <2>8, <2>9, <2>10
<1>9. /\ line' \in [Addresses -> Seq(Keys \cup Moves)]
      /\ \A b \in live : line'[b] = line[b]
      /\ line'[new] = Append(line[a], child[a][i].m)
      /\ Depth(new)' = Depth(a) + 1
  <2>1. Append(line[a], child[a][i].m) \in Seq(Keys \cup Moves)
    BY <1>6
  <2>2. Len(Append(line[a], child[a][i].m)) = Len(line[a]) + 1
    BY <1>6
  <2>3. line \in [Addresses -> Seq(Keys \cup Moves)]
    BY DEF Inv, Types
  <2> QED BY <1>1, <1>2, <1>3, <2>1, <2>2, <2>3 DEF Depth
<1>10. Types'
  BY <1>1, <1>2, <1>7, <1>8, <1>9 DEF Inv, Types
<1>11. /\ Slots(a)' = Slots(a) \cup {i} /\ Slots(new)' = {}
       /\ \A b \in live \ {a} : Slots(b)' = Slots(b)
       /\ \A b \in live : \A j \in Slots(b) : nodes'[b][j] = nodes[b][j]
  <2>1. Slots(a)' = {j \in DOMAIN child[a] : nodes'[a][j] # Null}
    BY <1>8 DEF Slots
  <2>2. Slots(a)' = Slots(a) \cup {i}
    BY <1>2, <1>6, <1>8, <2>1 DEF Slots
  <2>3. Slots(new)' = {}
    BY <1>8 DEF Slots
  <2>4. \A b \in live \ {a} : nodes'[b] = nodes[b]
    BY <1>2, <1>3, <1>8
  <2>5. \A b \in live \ {a} : Slots(b)' = Slots(b)
    BY <2>4 DEF Slots
  <2> QED BY <1>8, <2>2, <2>3, <2>4, <2>5
<1>slots. ASSUME NEW b \in live', NEW j \in Slots(b)', ~ (b = a /\ j = i)
       PROVE  b \in live /\ j \in Slots(b) /\ nodes'[b][j] = nodes[b][j] /\ nodes[b][j] \in live /\ nodes[b][j] # new
  <2>1. b # new
    BY <1>11, <1>slots
  <2>2. b \in live
    BY <1>1, <1>slots, <2>1
  <2>3. j \in Slots(b)
    BY <1>11, <1>slots, <2>2
  <2>4. nodes[b][j] \in live
    BY <2>2, <2>3 DEF Inv, Forest
  <2> QED BY <1>2, <1>11, <2>2, <2>3, <2>4
<1>12. Forest'
  <2>1. ASSUME NEW b \in live', NEW j \in Slots(b)' PROVE nodes'[b][j] \in live' \ (gc' \cup {root'})
    <3>1. CASE b = a /\ j = i
      BY <1>1, <1>2, <1>3, <1>8, <3>1 DEF Inv, Types
    <3>2. CASE ~ (b = a /\ j = i)
      <4>1. b \in live /\ j \in Slots(b) /\ nodes'[b][j] = nodes[b][j]
        BY <1>slots, <3>2
      <4> QED BY <1>1, <4>1 DEF Inv, Forest
    <3> QED BY <3>1, <3>2
  <2>2. ASSUME NEW b \in live', NEW c \in live', NEW j \in Slots(b)', NEW k \in Slots(c)',
               nodes'[b][j] = nodes'[c][k]
        PROVE  b = c /\ j = k
    <3>2. CASE b = a /\ j = i /\ c = a /\ k = i
      BY <3>2
    <3>3. CASE b = a /\ j = i /\ ~ (c = a /\ k = i)
      BY <1>8, <1>slots, <2>2, <3>3
    <3>4. CASE ~ (b = a /\ j = i) /\ c = a /\ k = i
      BY <1>8, <1>slots, <2>2, <3>4
    <3>5. CASE ~ (b = a /\ j = i) /\ ~ (c = a /\ k = i)
      <4>1. b \in live /\ c \in live /\ j \in Slots(b) /\ k \in Slots(c) /\ nodes[b][j] = nodes[c][k]
        BY <1>slots, <2>2, <3>5
      <4> QED BY <4>1 DEF Inv, Forest
    <3> QED BY <3>2, <3>3, <3>4, <3>5
  <2>3. ASSUME NEW x \in live' PROVE x = root' \/ x \in gc' \/ \E b \in live' : x \in Children(b)'
    <3>1. CASE x = new
      BY <1>1, <1>5, <1>8, <1>11, <3>1 DEF Children
    <3>2. CASE x \in live
      <4>1. \A b \in live : Children(b) \subseteq Children(b)'
        BY <1>5, <1>11 DEF Children
      <4> QED BY <1>1, <3>2, <4>1 DEF Inv, Forest
    <3> QED BY <1>1, <3>1, <3>2
  <2>4. root' # Null => root' \in live' \ gc'
    BY <1>1 DEF Inv, Forest
  <2>5. \A x \in Addresses \ live' : child'[x] = << >> /\ nodes'[x] = << >>
    BY <1>1, <1>5, <1>7, <1>8 DEF Inv, Forest
  <2>6. \A x \in live' : nodes'[x] = << >> \/ Len(nodes'[x]) = Len(child'[x])
    <3> SUFFICES ASSUME NEW x \in live' PROVE nodes'[x] = << >> \/ Len(nodes'[x]) = Len(child'[x])
      OBVIOUS
    <3>1. CASE x = new
      BY <1>8, <3>1
    <3>2. CASE x = a
      BY <1>5, <1>7, <1>8, <3>2
    <3>3. CASE x # new /\ x # a
      <4>1. x \in live /\ nodes'[x] = nodes[x] /\ Len(child'[x]) = Len(child[x])
        BY <1>1, <1>3, <1>7, <1>8, <3>3
      <4> QED BY <4>1 DEF Inv, Forest
    <3> QED BY <3>1, <3>2, <3>3
  <2>7. root' = Null <=> head' = Null
    BY <1>1 DEF Inv, Forest
  <2> QED BY <2>1, <2>2, <2>3, <2>4, <2>5, <2>6, <2>7 DEF Forest
<1>13. TreeMatchesMoves'
  <2> SUFFICES ASSUME NEW b \in live', NEW j \in Slots(b)'
               PROVE  j \in DOMAIN child'[b] /\ line'[nodes'[b][j]] = Append(line'[b], child'[b][j].m)
    BY DEF TreeMatchesMoves
  <2>1. CASE b = a /\ j = i
    BY <1>5, <1>7, <1>8, <1>9, <2>1
  <2>2. CASE ~ (b = a /\ j = i)
    <3>1. b \in live /\ j \in Slots(b) /\ nodes'[b][j] = nodes[b][j]
      BY <1>slots, <2>2
    <3>2. nodes[b][j] \in live
      BY <3>1 DEF Inv, Forest
    <3>3. j \in DOMAIN child[b] /\ line[nodes[b][j]] = Append(line[b], child[b][j].m)
      BY <3>1 DEF Inv, TreeIsOfGame, TreeMatchesMoves
    <3> QED BY <1>7, <1>9, <3>1, <3>2, <3>3
  <2> QED BY <2>1, <2>2
<1>14. HeadIsComplete'
  <2>1. head \in live /\ DOMAIN child'[head] = DOMAIN child[head]
        /\ \A j \in DOMAIN child[head] : child'[head][j].m = child[head][j].m
    BY <1>3, <1>7
  <2>2. HeadIsComplete
    BY DEF Inv, TreeIsOfGame
  <2> QED BY <1>1, <1>9, <2>1, <2>2 DEF HeadIsComplete
<1>15. /\ \A b \in live \ {a} : Kids(nodes', b) = Kids(nodes, b)
       /\ Kids(nodes', a) = Kids(nodes, a) \cup {new} /\ Kids(nodes', new) = {}
  BY <1>3, <1>8, <1>11 DEF Kids, Slots
<1>16. head \in Tree' /\ Tree' \subseteq Tree \cup {new}
  <2>1. \A b \in Addresses : Kids(nodes, b) \subseteq Kids(nodes', b)
    <3> SUFFICES ASSUME NEW b \in Addresses PROVE Kids(nodes, b) \subseteq Kids(nodes', b)
      OBVIOUS
    <3>1. CASE b \in live
      BY <1>15, <3>1
    <3>2. CASE b \notin live
      BY <3>2 DEF Kids, Inv, Forest
    <3> QED BY <3>1, <3>2
  <2>2. head \in Reach(nodes', root)
    BY <1>3, <2>1, ReachKept
  <2>3. ClosedIn(nodes', Tree \cup {new})
    BY <1>3, <1>4, <1>15 DEF ClosedIn
  <2>4. Tree \cup {new} \in SUBSET Addresses
    BY <1>2, <1>3
  <2>5. Reach(nodes', root) \subseteq Tree \cup {new}
    BY <1>3, <2>3, <2>4, ReachLeast
  <2> QED BY <1>1, <2>2, <2>5, OwnedIsReach DEF Tree
<1>17. Spine'
  <2>1. ASSUME NEW x \in Tree PROVE Depth(x)' = Depth(x) /\ (Whole(x) => Whole(x)')
    <3>1. x \in live
      BY <1>3
    <3>2. line'[x] = line[x] /\ DOMAIN child'[x] = DOMAIN child[x] /\ (child'[x] = << >> <=> child[x] = << >>)
          /\ \A j \in DOMAIN child[x] : child'[x][j].m = child[x][j].m
      BY <1>7, <1>9, <3>1
    <3> QED BY <3>2 DEF Depth, Whole
  <2>2. Whole(new)'
    BY <1>7, ListedHolds DEF Whole
  <2>3. Depth(new)' > Depth(head)' /\ Depth(head)' = Depth(head) /\ Depth(head) \in Nat
    <3>1. Depth(head)' = Depth(head)
      BY <1>1, <1>3, <1>9 DEF Depth
    <3>2. Depth(a) \in Nat /\ Depth(head) \in Nat /\ Depth(a) >= Depth(head)
      BY <1>3, <1>4
    <3> QED BY <1>9, <3>1, <3>2
  <2>4. line'[root'] = <<key'>>
    BY <1>1, <1>3, <1>9 DEF Inv, Spine
  <2>5. \A x, y \in Tree' : Depth(x)' = Depth(y)' /\ Depth(x)' <= Depth(head)' => x = y
    BY <1>3, <1>16, <2>1, <2>3 DEF Inv, Spine
  <2>6. \A x \in Tree : Depth(x) >= Depth(head) => Whole(x)
    BY <1>1 DEF Inv, Spine
  <2>7. \A x \in Tree' : Depth(x)' >= Depth(head)' => Whole(x)'
    BY <1>16, <2>1, <2>2, <2>3, <2>6
  <2> QED BY <1>1, <1>16, <2>4, <2>5, <2>7 DEF Spine
<1>18. AtHead'
  BY <1>1, <1>3, <1>9 DEF Inv, AtHead
<1> QED BY <1>10, <1>12, <1>13, <1>14, <1>17, <1>18 DEF Inv, TreeIsOfGame

(* A new node without parent, as the first of a tree; what it is put on top *)
(* of goes to the collector.                                                *)
LEMMA MovesOf ==
  ASSUME NEW p \in Seq(Child), NEW k \in Keys
  PROVE  LET g == <<k>> \o [n \in DOMAIN p |-> p[n].m] IN
           g \in Seq(Keys \cup Moves) /\ \A i \in DOMAIN g \ {1} : g[i] \in Moves
<1> DEFINE m == [n \in DOMAIN p |-> p[n].m]
<1>1. DOMAIN p = 1 .. Len(p) /\ Len(p) \in Nat /\ \A n \in DOMAIN p : p[n] \in Child
  OBVIOUS
<1>2. \A n \in DOMAIN p : p[n].m \in Moves
  BY <1>1 DEF Child
<1>3. m \in [1 .. Len(p) -> Moves]
  BY <1>1, <1>2
<1>4. m \in Seq(Moves)
  BY <1>1, <1>3
<1> HIDE DEF m
<1>5. <<k>> \o m \in Seq(Keys \cup Moves) /\ \A i \in DOMAIN (<<k>> \o m) \ {1} : (<<k>> \o m)[i] \in Moves
  BY <1>4
<1> QED BY <1>5 DEF m

LEMMA ResetKeeps == ASSUME Inv, NEW k \in Keys, NEW p \in Seq(Child), ResetToPosition(k, p) PROVE Inv'
<1> USE AddressAssumption DEF Null
<1> DEFINE drop  == root # Null /\ key # k
           fresh == root = Null \/ drop
<1>0. PICK new : new = Min(Free)
  OBVIOUS
<1>1. /\ pc = "search" /\ (fresh => Free # {})
      /\ ~ fresh => UNCHANGED <<nodes, child, live, line, gc, root>>
      /\ fresh =>
           /\ live' = live \cup {new}
           /\ child' = [child EXCEPT ![new] = << >>] /\ nodes' = [nodes EXCEPT ![new] = << >>]
           /\ line' = [line EXCEPT ![new] = <<k>>]
           /\ gc' = IF drop THEN gc \cup {root} ELSE gc
           /\ root' = new
      /\ key' = k /\ head' = root' /\ old' = (IF fresh THEN new ELSE head) /\ prev' = Null
      /\ seen' = (head' = old')
      /\ todo' = p /\ pc' = "walk"
      /\ game' = <<k>> \o [n \in DOMAIN p |-> p[n].m]
  BY <1>0 DEF ResetToPosition, tree
<1>2. game' \in Seq(Keys \cup Moves) /\ \A i \in DOMAIN game' \ {1} : game'[i] \in Moves
  BY <1>1, MovesOf
<1>3. seen' \in BOOLEAN
  BY <1>1
<1>4. HeadIsComplete'
  BY <1>1 DEF HeadIsComplete
<1>5. CASE ~ fresh
  <2>1. root # Null /\ head # Null /\ key = k
    BY <1>5 DEF Inv, Forest
  <2>2. /\ live \in SUBSET Addresses /\ ClosedIn(nodes, live) /\ root \in live /\ root \in Tops
        /\ Tree = Reach(nodes, root) /\ Tree \subseteq live /\ ClosedIn(nodes, Tree)
        /\ head \in Tree /\ root \in Tree
        /\ \A x \in live : Depth(x) \in Nat /\ Deep[x] = Depth(x)
    BY <2>1, TreeFacts
  <2>3. Shaped
    BY Shape DEF Inv, TreeIsOfGame
  <2>4. Types'
    BY <1>1, <1>2, <1>3, <1>5, Null \in Slot DEF Inv, Types, Slot
  <2>5. Forest'
    BY <1>1, <1>5, <2>1 DEF Inv, Forest, Slots, Children
  <2>6. TreeMatchesMoves'
    BY <1>1, <1>5, Zenon DEF Inv, TreeIsOfGame, TreeMatchesMoves, Slots
  <2>7. Tree' = Tree /\ \A x : Owned(x)' = Reach(nodes, x)
    BY <1>1, <1>5, OwnedIsReach DEF Tree
  <2>8. \A x \in Tree : x # root => Depth(x) > Depth(root)
    BY <2>2, <2>3, Deeper DEF Shaped
  <2>9. ASSUME NEW y \in Tree, ~ Whole(y) PROVE ~ seen' /\ y # old' /\ old' \in Owned(y)'
    <3>1. Depth(y) < Depth(head)
      BY <1>1, <2>1, <2>2, <2>9 DEF Inv, Spine
    <3>2. Depth(root) <= Depth(y)
      BY <2>2, <2>8
    <3>3. y # head /\ root # head
      BY <2>2, <3>1, <3>2
    <3> DEFINE S == {z \in Tree : Depth(z) <= Depth(y)} \cup Reach(nodes, y)
    <3>4. y \in Reach(nodes, y) /\ ClosedIn(nodes, Reach(nodes, y)) /\ Reach(nodes, y) \subseteq Tree
      BY <2>2, ReachClosed
    <3>5. ASSUME NEW z \in S, NEW x \in Kids(nodes, z) PROVE x \in S
      <4>1. CASE z \in Reach(nodes, y)
        BY <3>4, <3>5, <4>1 DEF ClosedIn
      <4>2. CASE z \in Tree /\ Depth(z) = Depth(y)
        <5>1. z = y
          BY <2>1, <2>2, <3>1, <4>2 DEF Inv, Spine
        <5> QED BY <3>4, <3>5, <5>1 DEF ClosedIn
      <4>3. CASE z \in Tree /\ Depth(z) < Depth(y)
        <5>1. x \in Tree /\ Depth(x) = Depth(z) + 1
          BY <2>2, <2>3, <3>5, <4>3 DEF Shaped, IsForest, ClosedIn
        <5> QED BY <2>2, <4>3, <5>1
      <4> QED BY <2>2, <3>5, <4>1, <4>2, <4>3
    <3>6. root \in S /\ S \in SUBSET Addresses
      BY <2>2, <3>2, <3>4
    <3>7. head \in S
      <4>1. ClosedIn(nodes, S)
        BY <3>5 DEF ClosedIn
      <4> HIDE DEF S
      <4> QED BY <2>2, <3>6, <4>1, ReachLeast
    <3>8. head \in Reach(nodes, y)
      BY <2>2, <3>1, <3>7
    <3> QED BY <1>1, <1>5, <2>7, <3>3, <3>8
  <2>10. Spine'
    <3>1. \A x : Depth(x)' = Depth(x) /\ Whole(x)' = Whole(x)
      BY <1>1, <1>5 DEF Depth, Whole
    <3>2. \A x, y \in Tree : Depth(x) = Depth(y) /\ Depth(x) <= Depth(root) => x = y
      BY <2>2, <2>8
    <3>3. line'[root'] = <<key'>>
      BY <1>1, <1>5, <2>1 DEF Inv, Spine
    <3> QED BY <1>1, <1>5, <2>1, <2>2, <2>7, <2>9, <3>1, <3>2, <3>3 DEF Spine
  <2>11. AtHead'
    <3>1. line'[head'] = <<k>>
      BY <1>1, <1>5, <2>1 DEF Inv, Spine
    <3> QED BY <1>1, <1>5, <2>1, <3>1 DEF AtHead
  <2> QED BY <1>4, <2>4, <2>5, <2>6, <2>10, <2>11 DEF Inv, TreeIsOfGame
<1>6. CASE fresh
  <2>1. new \in Addresses /\ new \notin live /\ new # Null
    BY <1>0, <1>1, <1>6, MinFree
  <2>2. live \in SUBSET Addresses /\ gc \subseteq live
    BY DEF Inv, Types
  <2>3. /\ \A b \in live : child'[b] = child[b] /\ nodes'[b] = nodes[b] /\ line'[b] = line[b]
        /\ child'[new] = << >> /\ nodes'[new] = << >> /\ line'[new] = <<k>>
        /\ \A b \in Addresses \ live : child'[b] = << >> /\ nodes'[b] = << >>
    BY <1>1, <1>6, <2>1, <2>2 DEF Inv, Types, Forest
  <2>4. Types'
    <3>1. child' \in [Addresses -> Seq(Child)]
      BY <1>1, <1>6, << >> \in Seq(Child) DEF Inv, Types
    <3>2. nodes' \in [Addresses -> Seq(Slot)]
      BY <1>1, <1>6, << >> \in Seq(Slot) DEF Inv, Types
    <3>3. <<k>> \in Seq(Keys \cup Moves)
      OBVIOUS
    <3>4. line' \in [Addresses -> Seq(Keys \cup Moves)]
      BY <1>1, <1>6, <3>3 DEF Inv, Types
    <3>5. live' \in SUBSET Addresses /\ gc' \in SUBSET live'
      BY <1>1, <1>6, <2>1, <2>2 DEF Inv, Forest
    <3>6. root' \in Slot /\ head' \in Slot /\ old' \in Slot /\ prev' \in Slot
      BY <1>1, <1>6, <2>1 DEF Slot
    <3> QED BY <1>1, <1>2, <1>3, <3>1, <3>2, <3>4, <3>5, <3>6 DEF Types
  <2>5. ASSUME NEW b \in live', NEW i \in Slots(b)'
        PROVE  b \in live /\ i \in Slots(b) /\ nodes'[b][i] = nodes[b][i]
    <3>1. b # new
      BY <2>3, <2>5 DEF Slots
    <3>2. b \in live /\ nodes'[b] = nodes[b]
      BY <1>1, <1>6, <2>3, <2>5, <3>1
    <3> QED BY <2>5, <3>2 DEF Slots
  <2>6. Forest'
    <3>1. ASSUME NEW b \in live', NEW i \in Slots(b)' PROVE nodes'[b][i] \in live' \ (gc' \cup {root'})
      <4>1. b \in live /\ i \in Slots(b) /\ nodes'[b][i] = nodes[b][i]
        BY <2>5, <3>1
      <4> QED BY <1>1, <1>6, <2>1, <4>1 DEF Inv, Forest
    <3>2. ASSUME NEW b \in live', NEW c \in live', NEW i \in Slots(b)', NEW j \in Slots(c)',
                 nodes'[b][i] = nodes'[c][j]
          PROVE  b = c /\ i = j
      BY <2>5, <3>2 DEF Inv, Forest
    <3>3. ASSUME NEW x \in live' PROVE x = root' \/ x \in gc' \/ \E b \in live' : x \in Children(b)'
      <4>1. CASE x \in live
        <5>1. \A b \in live : Children(b)' = Children(b)
          BY <2>3 DEF Children, Slots
        <5>2. x = root \/ x \in gc \/ \E b \in live : x \in Children(b)
          BY <4>1 DEF Inv, Forest
        <5> QED BY <1>1, <1>6, <2>1, <2>2, <4>1, <5>1, <5>2
      <4> QED BY <1>1, <1>6, <3>3, <4>1
    <3>4. root' # Null => root' \in live' \ gc'
      BY <1>1, <1>6, <2>1, <2>2 DEF Inv, Forest
    <3>5. \A x \in Addresses \ live' : child'[x] = << >> /\ nodes'[x] = << >>
      BY <1>1, <1>6, <2>3
    <3>6. \A x \in live' : nodes'[x] = << >> \/ Len(nodes'[x]) = Len(child'[x])
      BY <1>1, <1>6, <2>3 DEF Inv, Forest
    <3>7. root' = Null <=> head' = Null
      BY <1>1
    <3> QED BY <3>1, <3>2, <3>3, <3>4, <3>5, <3>6, <3>7 DEF Forest
  <2>7. TreeMatchesMoves'
    <3> SUFFICES ASSUME NEW b \in live', NEW i \in Slots(b)'
                 PROVE  i \in DOMAIN child'[b] /\ line'[nodes'[b][i]] = Append(line'[b], child'[b][i].m)
      BY DEF TreeMatchesMoves
    <3>1. b \in live /\ i \in Slots(b) /\ nodes'[b][i] = nodes[b][i]
      BY <2>5
    <3>2. nodes[b][i] \in live
      BY <3>1 DEF Inv, Forest
    <3>3. i \in DOMAIN child[b] /\ line[nodes[b][i]] = Append(line[b], child[b][i].m)
      BY <3>1 DEF Inv, TreeIsOfGame, TreeMatchesMoves
    <3> QED BY <2>3, <3>1, <3>2, <3>3
  <2>8. Tree' = {new}
    <3>1. ClosedIn(nodes', {new}) /\ {new} \in SUBSET Addresses
      BY <2>1, <2>3 DEF ClosedIn, Kids
    <3>2. Reach(nodes', new) \subseteq {new} /\ new \in Reach(nodes', new)
      BY <3>1, ReachClosed
    <3> QED BY <1>1, <1>6, <3>2, OwnedIsReach DEF Tree
  <2>9. Spine'
    <3>1. Whole(new)'
      BY <2>3 DEF Whole
    <3> QED BY <1>1, <1>6, <2>3, <2>8, <3>1 DEF Spine
  <2>10. AtHead'
    BY <1>1, <1>6, <2>1, <2>3 DEF AtHead
  <2> QED BY <1>4, <2>4, <2>6, <2>7, <2>9, <2>10 DEF Inv, TreeIsOfGame
<1> QED BY <1>5, <1>6

(* A step along the line takes the first move from todo.                    *)
LEMMA MovesStep ==
  ASSUME NEW X, Moves \subseteq X, NEW s \in Seq(X), NEW p \in Seq(Child), p # << >>
  PROVE  /\ Head(p) \in Child /\ Tail(p) \in Seq(Child)
         /\ s \o [i \in DOMAIN p |-> p[i].m]
              = Append(s, Head(p).m) \o [i \in DOMAIN Tail(p) |-> Tail(p)[i].m]
<1> DEFINE m == [i \in DOMAIN p |-> p[i].m]
           n == [i \in DOMAIN Tail(p) |-> Tail(p)[i].m]
<1>1. /\ DOMAIN p = 1 .. Len(p) /\ Len(p) \in Nat \ {0} /\ \A i \in DOMAIN p : p[i] \in Child
      /\ Head(p) = p[1] /\ Tail(p) \in Seq(Child) /\ Len(Tail(p)) = Len(p) - 1
      /\ \A i \in 1 .. Len(p) - 1 : Tail(p)[i] = p[i + 1]
  OBVIOUS
<1>2. \A i \in DOMAIN p : p[i].m \in X
  BY <1>1 DEF Child
<1>3. m \in [1 .. Len(p) -> X] /\ n \in [1 .. Len(p) - 1 -> X]
  BY <1>1, <1>2
<1>4. m \in Seq(X) /\ n \in Seq(X) /\ Len(m) = Len(p) /\ Len(n) = Len(p) - 1
  BY <1>1, <1>3
<1>5. m[1] = Head(p).m /\ \A i \in 1 .. Len(p) - 1 : n[i] = m[i + 1]
  BY <1>1
<1>6. Head(p).m \in X /\ Head(p) \in Child
  BY <1>1, <1>2
<1> HIDE DEF m, n
<1>7. s \o m = Append(s, Head(p).m) \o n
  <2> DEFINE e == Head(p).m
             t == Append(s, e)
  <2>1. e \in X
    BY <1>6
  <2> HIDE DEF e
  <2>2. t \in Seq(X) /\ Len(t) = Len(s) + 1 /\ t[Len(s) + 1] = e /\ \A i \in 1 .. Len(s) : t[i] = s[i]
    BY <2>1
  <2> HIDE DEF t
  <2>3. /\ s \o m \in Seq(X) /\ t \o n \in Seq(X) /\ Len(s) \in Nat /\ Len(p) \in Nat \ {0}
        /\ Len(s \o m) = Len(s) + Len(p) /\ Len(t \o n) = Len(s) + Len(p)
    <3>1. Len(s) \in Nat /\ Len(p) \in Nat \ {0} /\ Len(t) = Len(s) + 1 /\ Len(n) = Len(p) - 1
      BY <1>1, <1>4, <2>2
    <3>2. s \o m \in Seq(X) /\ t \o n \in Seq(X)
      BY <1>4, <2>2
    <3>3. Len(s \o m) = Len(s) + Len(m)
      BY <1>4, ConcatProperties
    <3>4. Len(t \o n) = Len(t) + Len(n)
      BY <1>4, <2>2, ConcatProperties
    <3> QED BY <1>4, <3>1, <3>2, <3>3, <3>4
  <2>4. ASSUME NEW i \in 1 .. Len(s) + Len(p) PROVE (s \o m)[i] = (t \o n)[i]
    <3>1. CASE i <= Len(s)
      BY <1>4, <2>2, <2>3, <3>1
    <3>2. CASE i = Len(s) + 1
      <4>1. (s \o m)[i] = m[1]
        BY <1>4, <2>3, <3>2
      <4>2. (t \o n)[i] = t[i]
        BY <1>4, <2>2, <2>3, <3>2
      <4> QED BY <1>5, <2>2, <3>2, <4>1, <4>2 DEF e
    <3>3. CASE i > Len(s) + 1
      <4>1. (s \o m)[i] = m[i - Len(s)]
        BY <1>4, <2>3, <3>3
      <4>2. (t \o n)[i] = n[i - Len(s) - 1]
        BY <1>4, <2>2, <2>3, <3>3
      <4>3. i - Len(s) - 1 \in 1 .. Len(p) - 1
        BY <2>3, <3>3
      <4>4. n[i - Len(s) - 1] = m[(i - Len(s) - 1) + 1] /\ (i - Len(s) - 1) + 1 = i - Len(s)
        BY <1>5, <2>3, <4>3
      <4> QED BY <4>1, <4>2, <4>4
    <3> QED BY <2>3, <3>1, <3>2, <3>3
  <2>5. s \o m = t \o n
    BY <2>3, <2>4
  <2> QED BY <2>5 DEF t, e
<1> QED BY <1>1, <1>6, <1>7 DEF m, n

(* A step of the walk from a: x is the only child that is left to it.       *)
LEMMA WalkStep ==
  ASSUME Inv, Walk
  PROVE  \E x \in Addresses :
    /\ x # head /\ head' = x /\ live' = live \cup {x}
    /\ gc' = gc \cup (Children(head) \ {x})
    /\ x \in live => x \in Children(head) /\ line'[x] = line[x]
    /\ \A b \in Addresses \ {head, x} : child'[b] = child[b] /\ nodes'[b] = nodes[b] /\ line'[b] = line[b]
    /\ child'[head] = <<Head(todo)>> /\ nodes'[head] = <<x>> /\ line'[head] = line[head]
    /\ child'[x] = child[x] /\ nodes'[x] = nodes[x]
    /\ line'[x] = Append(line[head], Head(todo).m)
    /\ child' \in [Addresses -> Seq(Child)] /\ nodes' \in [Addresses -> Seq(Slot)]
    /\ line' \in [Addresses -> Seq(Keys \cup Moves)]
<1> USE AddressAssumption DEF Null
<1> DEFINE a == head
           c == Head(todo)
<1>1. /\ pc = "walk" /\ todo # << >> /\ todo \in Seq(Child)
      /\ a # Null /\ a \in live /\ a \in Addresses /\ live \in SUBSET Addresses
  BY TreeFacts DEF Walk, Inv, Types, AtHead
<1>2. c \in Child /\ c.m \in Moves
  <2>1. c \in Child
    BY <1>1
  <2> QED BY <2>1 DEF Child
<1> DEFINE Old(x, i) == /\ x = (IF nodes[a][i] = Null THEN Min(Free) ELSE nodes[a][i])
                        /\ nodes[a][i] = Null => Free # {}
                        /\ Leave(a, c, x) /\ gc' = gc \cup Dropped(a, i)
           New(x) == Found(a, c) = {} /\ Free # {} /\ x = Min(Free) /\ Leave(a, c, x) /\ gc' = gc \cup Dropped(a, Null)
<1>3. PICK x : (\E i \in Found(a, c) : Old(x, i)) \/ New(x)
  BY Zenon DEF Walk
<1> DEFINE Left == /\ x \in Addresses /\ x # a /\ Leave(a, c, x) /\ gc' = gc \cup (Children(a) \ {x})
                   /\ x \in live => \E i \in Slots(a) : x = nodes[a][i] /\ child[a][i] = c
<1>4. Left
  <2>1. CASE \E i \in Found(a, c) : nodes[a][i] # Null /\ x = nodes[a][i] /\ Leave(a, c, x) /\ gc' = gc \cup Dropped(a, i)
    <3>1. PICK i \in Found(a, c) : nodes[a][i] # Null /\ x = nodes[a][i] /\ gc' = gc \cup Dropped(a, i)
      BY <2>1
    <3>2. i \in DOMAIN nodes[a] /\ child[a][i] = c
      <4>1. i \in DOMAIN child[a] /\ nodes[a] # << >> /\ child[a][i] = c
        BY <3>1 DEF Found
      <4>2. Len(nodes[a]) = Len(child[a]) /\ nodes[a] \in Seq(Slot) /\ child[a] \in Seq(Child)
        BY <1>1, <4>1 DEF Inv, Forest, Types
      <4> QED BY <4>1, <4>2
    <3>3. i \in Slots(a) /\ x \in live
      BY <1>1, <3>1, <3>2 DEF Slots, Inv, Forest
    <3>4. \A j \in Slots(a) : nodes[a][j] = x => j = i
      BY <1>1, <3>1, <3>3 DEF Inv, Forest
    <3>5. Dropped(a, i) = Children(a) \ {x}
      BY <3>1, <3>4 DEF Dropped, Children
    <3>6. x # a
      <4>1. Shaped /\ x \in Kids(nodes, a)
        BY <3>1, <3>2, Shape DEF Kids, Inv, TreeIsOfGame
      <4>2. Deep[x] = Deep[a] + 1 /\ Deep[a] \in Nat
        BY <1>1, <4>1 DEF Shaped, IsForest
      <4> QED BY <4>2
    <3> QED BY <1>1, <2>1, <3>1, <3>2, <3>3, <3>5, <3>6
  <2>2. CASE /\ Free # {} /\ x = Min(Free) /\ Leave(a, c, x)
             /\ \E i : i \notin Slots(a) /\ gc' = gc \cup Dropped(a, i)
    <3>1. x \in Addresses /\ x \notin live
      BY <2>2, MinFree
    <3>2. PICK i : i \notin Slots(a) /\ gc' = gc \cup Dropped(a, i)
      BY <2>2
    <3>3. Dropped(a, i) = Children(a) /\ Children(a) \subseteq live
      BY <1>1, <3>2 DEF Dropped, Children, Inv, Forest
    <3> QED BY <1>1, <2>2, <3>1, <3>2, <3>3
  <2>3. Null \notin Slots(a)
    <3>1. nodes[a] \in Seq(Slot)
      BY <1>1 DEF Inv, Types
    <3> QED BY <3>1 DEF Slots
  <2>4. \A i : nodes[a][i] = Null => i \notin Slots(a)
    BY DEF Slots
  <2> HIDE DEF a, c
  <2>5. CASE New(x)
    BY <2>2, <2>3, <2>5
  <2>6. ASSUME NEW i \in Found(a, c), Old(x, i) PROVE Left
    <3>1. CASE nodes[a][i] = Null
      BY <2>2, <2>4, <2>6, <3>1
    <3>2. CASE nodes[a][i] # Null
      BY <2>1, <2>6, <3>2
    <3> QED BY <3>1, <3>2
  <2> HIDE DEF Old, New, Left
  <2> QED BY <1>3, <2>5, <2>6
<1>5. x \in live => line[x] = Append(line[a], c.m) /\ x \in Children(a)
  BY <1>1, <1>4 DEF Inv, TreeIsOfGame, TreeMatchesMoves, Children
<1>6. x \notin live => child[x] = << >> /\ nodes[x] = << >>
  BY <1>4 DEF Inv, Forest
<1>7. /\ head' = x /\ live' = live \cup {x}
      /\ child' = [child EXCEPT ![a] = <<c>>, ![x] = IF x \in live THEN @ ELSE << >>]
      /\ nodes' = [nodes EXCEPT ![a] = <<x>>, ![x] = IF x \in live THEN @ ELSE << >>]
      /\ line'  = [line EXCEPT ![x] = IF x \in live THEN @ ELSE Append(line[a], c.m)]
  BY <1>4, Zenon DEF Leave
<1> HIDE DEF a, c
<1>8. child' = [child EXCEPT ![a] = <<c>>] /\ nodes' = [nodes EXCEPT ![a] = <<x>>]
      /\ line' = [line EXCEPT ![x] = Append(line[a], c.m)]
  BY <1>1, <1>4, <1>5, <1>6, <1>7 DEF Inv, Types
<1>9. <<c>> \in Seq(Child) /\ <<x>> \in Seq(Slot) /\ line[a] \in Seq(Keys \cup Moves)
  <2>1. x \in Slot /\ line[a] \in Seq(Keys \cup Moves)
    BY <1>1, <1>4 DEF Inv, Types, Slot
  <2> QED BY <1>2, <2>1
<1>10. Append(line[a], c.m) \in Seq(Keys \cup Moves)
  BY <1>2, <1>9
<1>11. /\ child' \in [Addresses -> Seq(Child)] /\ nodes' \in [Addresses -> Seq(Slot)]
       /\ line' \in [Addresses -> Seq(Keys \cup Moves)]
  BY <1>8, <1>9, <1>10 DEF Inv, Types
<1>12. /\ \A b \in Addresses \ {a, x} : child'[b] = child[b] /\ nodes'[b] = nodes[b] /\ line'[b] = line[b]
       /\ child'[a] = <<c>> /\ nodes'[a] = <<x>> /\ line'[a] = line[a]
       /\ child'[x] = child[x] /\ nodes'[x] = nodes[x]
       /\ line'[x] = Append(line[a], c.m)
  BY <1>1, <1>4, <1>8 DEF Inv, Types
<1> QED BY <1>4, <1>5, <1>7, <1>11, <1>12 DEF a, c

LEMMA WalkKeeps == ASSUME Inv, Walk PROVE Inv'
<1> USE AddressAssumption DEF Null
<1>0. PICK a : a = head
  OBVIOUS
<1>1. PICK x \in Addresses :
    /\ x # a /\ head' = x /\ live' = live \cup {x}
    /\ gc' = gc \cup (Children(a) \ {x})
    /\ x \in live => x \in Children(a) /\ line'[x] = line[x]
    /\ \A b \in Addresses \ {a, x} : child'[b] = child[b] /\ nodes'[b] = nodes[b] /\ line'[b] = line[b]
    /\ child'[a] = <<Head(todo)>> /\ nodes'[a] = <<x>> /\ line'[a] = line[a]
    /\ child'[x] = child[x] /\ nodes'[x] = nodes[x]
    /\ line'[x] = Append(line[a], Head(todo).m)
    /\ child' \in [Addresses -> Seq(Child)] /\ nodes' \in [Addresses -> Seq(Slot)]
    /\ line' \in [Addresses -> Seq(Keys \cup Moves)]
  BY <1>0, WalkStep, Zenon
<1>2. /\ pc = "walk" /\ todo # << >> /\ todo \in Seq(Child) /\ head # Null
      /\ UNCHANGED <<root, key, pc, old, game>>
      /\ prev' = a /\ (seen' = (seen \/ x = old)) /\ todo' = Tail(todo)
  <2>1. pc = "walk" /\ todo # << >> /\ UNCHANGED <<root, key, pc, old, game>>
        /\ prev' = head /\ (seen' = (seen \/ head' = old)) /\ todo' = Tail(todo)
    BY Zenon DEF Walk, history
  <2> QED BY <1>0, <1>1, <2>1 DEF Inv, Types, AtHead
<1>3. /\ live \in SUBSET Addresses /\ ClosedIn(nodes, live) /\ root \in live /\ root \in Tops
      /\ Tree = Reach(nodes, root) /\ Tree \subseteq live /\ ClosedIn(nodes, Tree)
      /\ a \in Tree /\ root \in Tree /\ Shaped
      /\ \A b \in live : Depth(b) \in Nat /\ Deep[b] = Depth(b)
  BY <1>0, <1>2, TreeFacts, Shape DEF Inv, TreeIsOfGame
<1>4. a \in live /\ a \in Addresses
  BY <1>3
<1>5. /\ Children(a) \subseteq live /\ Children(a) = Kids(nodes, a)
      /\ x \notin live => child[x] = << >> /\ nodes[x] = << >>
      /\ x # root /\ x \notin gc
  <2>1. Children(a) \subseteq live \ (gc \cup {root}) /\ Children(a) = Kids(nodes, a)
    BY <1>4, OwnedIsReach DEF Inv, Forest, Children
  <2>2. x \notin live => child[x] = << >> /\ nodes[x] = << >>
    BY DEF Inv, Forest
  <2>3. gc \subseteq live
    BY DEF Inv, Types
  <2> QED BY <1>1, <1>3, <2>1, <2>2, <2>3
<1>6. Head(todo) \in Child /\ Head(todo).m \in Moves /\ Tail(todo) \in Seq(Child)
  <2>1. Head(todo) \in Child /\ Tail(todo) \in Seq(Child)
    BY <1>2
  <2> QED BY <2>1 DEF Child
<1>7. Types'
  <2>1. live' \in SUBSET Addresses /\ gc' \in SUBSET live'
    BY <1>1, <1>3, <1>5 DEF Inv, Types
  <2>2. seen' \in BOOLEAN
    BY <1>2
  <2>3. head' \in Slot /\ prev' \in Slot
    BY <1>1, <1>2, <1>4 DEF Slot
  <2> QED BY <1>1, <1>2, <1>6, <2>1, <2>2, <2>3 DEF Inv, Types
<1>8. /\ Kids(nodes', a) = {x} /\ Slots(a)' = {1}
      /\ \A b \in Addresses \ {a} : Kids(nodes', b) = Kids(nodes, b)
      /\ \A b \in Addresses \ {a} : nodes'[b] = nodes[b] /\ child'[b] = child[b]
      /\ \A b \in live : line'[b] = line[b]
  <2>1. x # 0 /\ DOMAIN nodes'[a] = {1} /\ nodes'[a][1] = x
    BY <1>1
  <2>2. \A b \in Addresses \ {a} : nodes'[b] = nodes[b] /\ child'[b] = child[b]
    BY <1>1
  <2>3. Kids(nodes', a) = {x} /\ Slots(a)' = {1}
    BY <2>1 DEF Kids, Slots
  <2>4. \A b \in Addresses \ {a} : Kids(nodes', b) = Kids(nodes, b)
    BY <2>2 DEF Kids
  <2>5. \A b \in live : line'[b] = line[b]
    BY <1>1, <1>3
  <2> QED BY <2>2, <2>3, <2>4, <2>5
<1>9. ASSUME NEW b \in live', NEW i \in Slots(b)', b # a
      PROVE  b \in live /\ i \in Slots(b) /\ nodes'[b][i] = nodes[b][i]
             /\ nodes[b][i] \in live \ (gc \cup {root}) /\ nodes[b][i] \notin Children(a) /\ nodes[b][i] # x
  <2>1. b \in Addresses /\ nodes'[b] = nodes[b]
    BY <1>1, <1>3, <1>8, <1>9
  <2>2. i \in Slots(b)
    BY <1>9, <2>1 DEF Slots
  <2>3. b \in live
    BY <1>1, <1>5, <1>9, <2>2 DEF Slots
  <2>4. nodes[b][i] \in live \ (gc \cup {root})
    BY <2>2, <2>3 DEF Inv, Forest
  <2>5. nodes[b][i] \notin Children(a)
    BY <1>4, <1>9, <2>2, <2>3 DEF Inv, Forest, Children
  <2> QED BY <1>1, <2>1, <2>2, <2>3, <2>4, <2>5
<1>10. Forest'
  <2>1. ASSUME NEW b \in live', NEW i \in Slots(b)' PROVE nodes'[b][i] \in live' \ (gc' \cup {root'})
    <3>1. CASE b = a
      BY <1>1, <1>2, <1>5, <1>8, <2>1, <3>1
    <3>2. CASE b # a
      BY <1>1, <1>2, <1>9, <2>1, <3>2
    <3> QED BY <3>1, <3>2
  <2>2. ASSUME NEW b \in live', NEW c \in live', NEW i \in Slots(b)', NEW j \in Slots(c)',
               nodes'[b][i] = nodes'[c][j]
        PROVE  b = c /\ i = j
    <3>1. CASE b = a /\ c = a
      BY <1>8, <2>2, <3>1
    <3>2. CASE b = a /\ c # a
      <4>1. nodes'[b][i] = x
        BY <1>1, <1>8, <2>2, <3>2
      <4>2. nodes'[c][j] # x
        BY <1>9, <2>2, <3>2
      <4> QED BY <2>2, <4>1, <4>2
    <3>3. CASE b # a /\ c = a
      <4>1. nodes'[c][j] = x
        BY <1>1, <1>8, <2>2, <3>3
      <4>2. nodes'[b][i] # x
        BY <1>9, <2>2, <3>3
      <4> QED BY <2>2, <4>1, <4>2
    <3>4. CASE b # a /\ c # a
      BY <1>9, <2>2, <3>4 DEF Inv, Forest
    <3> QED BY <3>1, <3>2, <3>3, <3>4
  <2>3. ASSUME NEW y \in live' PROVE y = root' \/ y \in gc' \/ \E b \in live' : y \in Children(b)'
    <3>1. CASE y = x
      <4>1. x \in Children(a)'
        BY <1>8, OwnedIsReach
      <4> QED BY <1>1, <1>4, <3>1, <4>1
    <3>2. CASE y \in Children(a) /\ y # x
      BY <1>1, <3>2
    <3>3. CASE y \notin Children(a) /\ y # x
      <4>1. y \in live
        BY <1>1, <2>3, <3>3
      <4>2. \A b \in live \ {a} : Children(b)' = Children(b)
        BY <1>3, <1>8, OwnedIsReach
      <4>3. y = root \/ y \in gc \/ \E b \in live : y \in Children(b)
        BY <4>1 DEF Inv, Forest
      <4> QED BY <1>1, <1>2, <3>3, <4>2, <4>3
    <3> QED BY <3>1, <3>2, <3>3
  <2>4. root' # Null => root' \in live' \ gc'
    <3>1. root \notin gc /\ root \notin Children(a)
      BY <1>3, <1>4, <1>5 DEF Inv, Forest, Children
    <3> QED BY <1>1, <1>2, <1>3, <3>1
  <2>5. \A y \in Addresses \ live' : child'[y] = << >> /\ nodes'[y] = << >>
    BY <1>1, <1>4, <1>8 DEF Inv, Forest
  <2>6. \A y \in live' : nodes'[y] = << >> \/ Len(nodes'[y]) = Len(child'[y])
    <3> SUFFICES ASSUME NEW y \in live' PROVE nodes'[y] = << >> \/ Len(nodes'[y]) = Len(child'[y])
      OBVIOUS
    <3>1. CASE y = a
      BY <1>1, <3>1
    <3>2. CASE y # a /\ y \in live
      BY <1>3, <1>8, <3>2 DEF Inv, Forest
    <3>3. CASE y # a /\ y \notin live
      BY <1>1, <1>5, <3>3
    <3> QED BY <3>1, <3>2, <3>3
  <2>7. root' = Null <=> head' = Null
    BY <1>1, <1>2, <1>3
  <2> QED BY <2>1, <2>2, <2>3, <2>4, <2>5, <2>6, <2>7 DEF Forest
<1>11. TreeMatchesMoves'
  <2> SUFFICES ASSUME NEW b \in live', NEW i \in Slots(b)'
               PROVE  i \in DOMAIN child'[b] /\ line'[nodes'[b][i]] = Append(line'[b], child'[b][i].m)
    BY DEF TreeMatchesMoves
  <2>1. CASE b = a
    BY <1>1, <1>8, <2>1
  <2>2. CASE b # a
    <3>1. b \in live /\ i \in Slots(b) /\ nodes'[b][i] = nodes[b][i] /\ nodes[b][i] \in live
      BY <1>9, <2>2
    <3>2. i \in DOMAIN child[b] /\ line[nodes[b][i]] = Append(line[b], child[b][i].m)
      BY <3>1 DEF Inv, TreeIsOfGame, TreeMatchesMoves
    <3>3. child'[b] = child[b] /\ line'[b] = line[b] /\ line'[nodes[b][i]] = line[nodes[b][i]]
      BY <1>3, <1>8, <2>2, <3>1
    <3> QED BY <3>1, <3>2, <3>3
  <2> QED BY <2>1, <2>2
<1>12. HeadIsComplete'
  BY <1>2 DEF HeadIsComplete
<1>13. Shaped'
  BY <1>7, <1>10, <1>11, ShapeNext
<1>14. /\ \A b \in live : Depth(b)' = Depth(b)
       /\ Depth(x)' = Depth(a) + 1
       /\ \A b \in live' : b \in Addresses
  <2>1. line[a] \in Seq(Keys \cup Moves)
    BY <1>4 DEF Inv, Types
  <2>2. Len(Append(line[a], Head(todo).m)) = Len(line[a]) + 1
    BY <1>6, <2>1
  <2> QED BY <1>1, <1>3, <1>8, <2>2 DEF Depth
<1>15. x \in Tree' /\ Tree' \subseteq Tree \cup {x} /\ Tree' = Reach(nodes', root)
  <2>1. a \in Reach(nodes', root)
    BY <1>3, <1>8, ReachKept
  <2>2. ClosedIn(nodes', Tree \cup {x})
    <3>1. x \in live => x \in Tree
      BY <1>1, <1>3, <1>5 DEF ClosedIn
    <3>2. x \notin live => Kids(nodes', x) = {}
      BY <1>1, <1>5, <1>8 DEF Kids
    <3> QED BY <1>1, <1>3, <1>8, <3>1, <3>2 DEF ClosedIn
  <2>3. Tree \cup {x} \in SUBSET Addresses /\ root \in Tree \cup {x}
    BY <1>3
  <2>4. Reach(nodes', root) \subseteq Tree \cup {x}
    BY <2>2, <2>3, ReachLeast
  <2>5. Tree' = Reach(nodes', root)
    BY <1>2, OwnedIsReach DEF Tree
  <2>6. root \in Reach(nodes', root) /\ ClosedIn(nodes', Reach(nodes', root))
    BY <2>2, <2>3, ReachClosed
  <2>7. x \in Reach(nodes', root)
    BY <1>8, <2>1, <2>6 DEF ClosedIn
  <2> QED BY <2>4, <2>5, <2>7
<1>16. \A y \in Tree' : y = x \/ (y \in Tree /\ y \in live /\ Depth(y)' = Depth(y) /\ Depth(y) \in Nat)
  BY <1>3, <1>14, <1>15
<1>17. \A y \in Tree' : y # root => \E b \in Tree' : y \in Kids(nodes', b) /\ Depth(y)' = Depth(b)' + 1
  <2> SUFFICES ASSUME NEW y \in Reach(nodes', root), y # root
               PROVE  \E b \in Reach(nodes', root) : y \in Kids(nodes', b) /\ Depth(y)' = Depth(b)' + 1
    BY <1>15
  <2>1. live' \in SUBSET Addresses /\ ClosedIn(nodes', live') /\ root \in live'
    BY <1>1, <1>3, <1>13, <1>14 DEF Shaped, IsForest, ClosedIn
  <2>2. PICK b \in Reach(nodes', root) : y \in Kids(nodes', b)
    BY <2>1, ReachParent
  <2>3. b \in live' /\ y \in live'
    BY <2>1, <2>2, ReachClosed DEF ClosedIn
  <2>4. Deep'[y] = Deep'[b] + 1
    BY <1>13, <2>2, <2>3 DEF Shaped, IsForest
  <2>5. Deep'[y] = Depth(y)' /\ Deep'[b] = Depth(b)'
    BY <1>14, <2>3 DEF Deep
  <2> QED BY <2>2, <2>4, <2>5
<1>18. \A y \in Tree : y = root \/ Depth(y) > Depth(root)
  BY <1>3, Deeper DEF Shaped
<1>19. ASSUME NEW y \in Tree', Depth(y)' = Depth(x)' PROVE y = x
  <2>1. Depth(a) \in Nat /\ Depth(root) \in Nat /\ Depth(root) <= Depth(a)
    BY <1>3, <1>18
  <2>2. y # root
    BY <1>3, <1>14, <1>19, <2>1
  <2>3. PICK b \in Tree' : y \in Kids(nodes', b) /\ Depth(y)' = Depth(b)' + 1
    BY <1>17, <2>2
  <2>4. b # x /\ b \in Tree /\ Depth(b)' = Depth(b) /\ Depth(b) = Depth(a)
    BY <1>14, <1>16, <1>19, <2>1, <2>3
  <2>5. b = a
    BY <1>0, <1>2, <1>3, <2>1, <2>4 DEF Inv, Spine
  <2> QED BY <1>8, <2>3, <2>5
<1>20. \A y, z \in Tree' : Depth(y)' = Depth(z)' /\ Depth(y)' <= Depth(x)' => y = z
  <2> SUFFICES ASSUME NEW y \in Tree', NEW z \in Tree', Depth(y)' = Depth(z)', Depth(y)' <= Depth(x)' PROVE y = z
    OBVIOUS
  <2>1. CASE Depth(y)' = Depth(x)'
    BY <1>19, <2>1
  <2>2. CASE Depth(y)' # Depth(x)'
    <3>1. y # x /\ z # x
      BY <2>2
    <3>2. y \in Tree /\ z \in Tree /\ Depth(y) = Depth(z) /\ Depth(y) <= Depth(a)
      BY <1>3, <1>14, <1>16, <2>2, <3>1
    <3> QED BY <1>0, <1>2, <3>2 DEF Inv, Spine
  <2> QED BY <2>1, <2>2
<1>21. ASSUME NEW y \in Tree', Depth(y)' >= Depth(x)', ~ Whole(y)'
       PROVE  ~ seen' /\ y # old' /\ old' \in Owned(y)'
  <2>1. CASE y \notin live
    <3>1. y = x /\ child'[x] = << >>
      BY <1>1, <1>3, <1>5, <1>16, <2>1
    <3> QED BY <1>21, <3>1 DEF Whole
  <2>2. CASE y \in live
    <3>1. y \in Tree /\ Depth(y) >= Depth(a) + 1 /\ y # a
      <4>1. Depth(y)' = Depth(y) /\ Depth(y) \in Nat /\ Depth(a) \in Nat
        BY <1>3, <1>14, <2>2
      <4>2. Depth(y) >= Depth(a) + 1
        BY <1>14, <1>21, <4>1
      <4>3. y \in Tree
        <5>1. x \in live => x \in Tree
          BY <1>1, <1>3, <1>5 DEF ClosedIn
        <5> QED BY <1>16, <2>2, <5>1
      <4> QED BY <4>1, <4>2, <4>3
    <3>2. ~ Whole(y)
      BY <1>3, <1>8, <1>21, <3>1 DEF Whole
    <3>3. ~ seen /\ y # old /\ old \in Reach(nodes, y)
      <4>1. Depth(y) >= Depth(head)
        BY <1>0, <1>3, <3>1
      <4> QED BY <1>2, <3>1, <3>2, <4>1, OwnedIsReach DEF Inv, Spine
    <3>4. \A z \in Reach(nodes, y) : z \in live /\ (z # y => Depth(z) > Depth(y))
      BY <1>3, <2>2, Deeper DEF Shaped
    <3>5. a \notin Reach(nodes, y)
      BY <1>3, <3>1, <3>4
    <3>6. Reach(nodes', y) = Reach(nodes, y)
      <4>1. \A b \in Reach(nodes, y) : Kids(nodes', b) = Kids(nodes, b)
        BY <1>3, <1>8, <3>4, <3>5
      <4> QED BY <1>3, <2>2, <4>1, ReachSame
    <3>7. x # old
      <4>1. x \in live => Depth(x) = Depth(a) + 1
        BY <1>14
      <4> QED BY <1>3, <3>1, <3>3, <3>4, <4>1
    <3> QED BY <1>2, <3>3, <3>6, <3>7, OwnedIsReach
  <2> QED BY <2>1, <2>2
<1>22. Spine'
  <2>1. line'[root'] = <<key'>>
    BY <1>2, <1>3, <1>8 DEF Inv, Spine
  <2>2. pc' = "walk" /\ head' = x
    BY <1>1, <1>2
  <2>3. \A y \in Tree' : Depth(y)' >= Depth(x)' =>
          Whole(y)' \/ (pc' = "walk" /\ ~ seen' /\ y # old' /\ old' \in Owned(y)')
    BY <1>21, <2>2
  <2>4. Depth(head)' = Depth(x)'
    BY <2>2 DEF Depth
  <2> QED BY <1>15, <1>20, <2>1, <2>2, <2>3, <2>4 DEF Spine
<1>23. AtHead'
  <2>1. line[a] \in Seq(Keys \cup Moves) /\ Moves \subseteq Keys \cup Moves
    BY <1>4 DEF Inv, Types
  <2>2. game = line[a] \o [i \in DOMAIN todo |-> todo[i].m]
    BY <1>0, <1>2 DEF Inv, AtHead
  <2>3. game = Append(line[a], Head(todo).m) \o [i \in DOMAIN Tail(todo) |-> Tail(todo)[i].m]
    BY <1>2, <2>1, <2>2, MovesStep
  <2>4. game' = line'[head'] \o [i \in DOMAIN todo' |-> todo'[i].m]
    BY <1>1, <1>2, <2>3
  <2>5. a # Null /\ a \in live' /\ x # Null
    BY <1>1, <1>4
  <2> QED BY <1>1, <1>2, <2>4, <2>5 DEF AtHead
<1> QED BY <1>7, <1>10, <1>11, <1>12, <1>22, <1>23 DEF Inv, TreeIsOfGame

(* The new head that takes the place of one that may lack children.         *)
LEMMA FinishKeeps == ASSUME Inv, FinishReset PROVE Inv'
<1> USE AddressAssumption DEF Null
<1>0. PICK new : new = Min(Free)
  OBVIOUS
<1>1. PICK h : h = head
  OBVIOUS
<1>2. /\ pc = "walk" /\ todo = << >> /\ h # Null /\ pc' = "expand"
      /\ old' = Null /\ prev' = Null /\ seen' = FALSE
      /\ UNCHANGED <<key, todo, game>>
      /\ IF Stale
         THEN /\ Free # {} /\ live' = live \cup {new}
              /\ child' = [child EXCEPT ![new] = << >>]
              /\ line' = [line EXCEPT ![new] = line[h]]
              /\ gc' = gc \cup {h} /\ head' = new
              /\ IF prev # Null
                 THEN nodes' = [nodes EXCEPT ![new] = << >>, ![prev] = <<new>>] /\ root' = root
                 ELSE nodes' = [nodes EXCEPT ![new] = << >>] /\ root' = new
         ELSE UNCHANGED <<child, nodes, live, line, root, head, gc>>
  BY <1>0, <1>1 DEF FinishReset, history, tree, Inv, AtHead
<1>3. /\ live \in SUBSET Addresses /\ ClosedIn(nodes, live) /\ root \in live /\ root \in Tops
      /\ Tree = Reach(nodes, root) /\ Tree \subseteq live /\ ClosedIn(nodes, Tree)
      /\ h \in Tree /\ root \in Tree /\ Shaped /\ h \in live
      /\ \A b \in live : Depth(b) \in Nat /\ Deep[b] = Depth(b)
  BY <1>1, <1>2, TreeFacts, Shape DEF Inv, TreeIsOfGame
<1>4. HeadIsComplete'
  BY <1>2 DEF HeadIsComplete
<1>5. CASE ~ Stale
  <2>1. UNCHANGED <<child, nodes, live, line, root, head, gc>>
    BY <1>2, <1>5
  <2>2. Types'
    BY <1>2, <2>1 DEF Inv, Types, Slot
  <2>3. Forest'
    BY <2>1 DEF Inv, Forest, Slots, Children
  <2>4. TreeMatchesMoves'
    BY <2>1, Zenon DEF Inv, TreeIsOfGame, TreeMatchesMoves, Slots
  <2>5. Tree' = Tree
    BY <2>1, OwnedIsReach DEF Tree
  <2>6. ASSUME NEW y \in Tree, Depth(y) >= Depth(h) PROVE Whole(y)
    <3> SUFFICES ASSUME ~ Whole(y) PROVE FALSE
      OBVIOUS
    <3>1. ~ seen /\ y # old /\ old \in Reach(nodes, y)
      BY <1>1, <1>2, <2>6, OwnedIsReach DEF Inv, Spine
    <3>2. old = h
      BY <1>1, <1>5, <3>1 DEF Stale
    <3>3. Depth(h) > Depth(y)
      BY <1>3, <3>1, <3>2, Deeper DEF Shaped
    <3> QED BY <1>3, <2>6, <3>3
  <2>7. \A y \in Tree : Depth(y)' = Depth(y) /\ Whole(y)' = Whole(y)
    BY <2>1 DEF Depth, Whole
  <2>8. Spine'
    BY <1>1, <1>2, <2>1, <2>5, <2>6, <2>7 DEF Inv, Spine, Depth
  <2>9. AtHead'
    BY <1>1, <1>2, <2>1 DEF Inv, AtHead
  <2> QED BY <1>4, <2>2, <2>3, <2>4, <2>8, <2>9 DEF Inv, TreeIsOfGame
<1>6. CASE Stale
  <2>1. new \in Addresses /\ new \notin live /\ new # Null
    BY <1>0, <1>2, <1>6, MinFree
  <2>2. /\ live' = live \cup {new} /\ gc' = gc \cup {h} /\ head' = new
        /\ child' = [child EXCEPT ![new] = << >>] /\ line' = [line EXCEPT ![new] = line[h]]
    BY <1>2, <1>6
  <2>3. PICK q : q = prev
    OBVIOUS
  <2>4. /\ q = Null => h = root /\ root' = new
        /\ q # Null => q \in live /\ q \in Addresses /\ nodes[q] = <<h>> /\ root' = root /\ h # root
    <3>1. CASE q = Null
      BY <1>1, <1>2, <1>6, <2>3, <3>1 DEF Inv, AtHead
    <3>2. CASE q # Null
      <4>1. q \in live /\ nodes[q] = <<h>> /\ root' = root
        BY <1>1, <1>2, <1>6, <2>3, <3>2 DEF Inv, AtHead
      <4>2. h \in Kids(nodes, q)
        BY <1>2, <4>1 DEF Kids
      <4> QED BY <1>3, <3>2, <4>1, <4>2 DEF Shaped, IsForest
    <3> QED BY <3>1, <3>2
  <2>5. nodes' = IF q # Null THEN [nodes EXCEPT ![new] = << >>, ![q] = <<new>>] ELSE [nodes EXCEPT ![new] = << >>]
    BY <1>2, <1>6, <2>3
  <2>6. /\ nodes' \in [Addresses -> Seq(Slot)]
        /\ \A b \in live \ {q} : nodes'[b] = nodes[b]
        /\ nodes'[new] = << >> /\ (q # Null => nodes'[q] = <<new>>)
        /\ \A b \in Addresses \ live : nodes'[b] = << >>
    <3>1. nodes \in [Addresses -> Seq(Slot)] /\ \A b \in Addresses \ live : nodes[b] = << >>
      BY DEF Inv, Types, Forest
    <3>2. << >> \in Seq(Slot) /\ <<new>> \in Seq(Slot)
      <4>1. new \in Slot
        BY <2>1 DEF Slot
      <4> QED BY <4>1
    <3>3. CASE q = Null
      BY <1>3, <2>1, <2>5, <3>1, <3>2, <3>3
    <3>4. CASE q # Null
      BY <1>3, <2>1, <2>4, <2>5, <3>1, <3>2, <3>4
    <3> QED BY <3>3, <3>4
  <2>7. /\ child' \in [Addresses -> Seq(Child)] /\ line' \in [Addresses -> Seq(Keys \cup Moves)]
        /\ \A b \in live : child'[b] = child[b] /\ line'[b] = line[b]
        /\ child'[new] = << >> /\ line'[new] = line[h]
        /\ \A b \in Addresses \ live : child'[b] = << >>
    <3>1. /\ child \in [Addresses -> Seq(Child)] /\ line \in [Addresses -> Seq(Keys \cup Moves)]
          /\ \A b \in Addresses \ live : child[b] = << >> /\ << >> \in Seq(Child)
      BY DEF Inv, Types, Forest
    <3>2. line[h] \in Seq(Keys \cup Moves)
      BY <1>3, <3>1
    <3>3. \A b \in live : b # new /\ b \in Addresses
      BY <1>3, <2>1
    <3> QED BY <2>1, <2>2, <3>1, <3>2, <3>3
  <2>8. Types'
    <3>1. root' \in Slot /\ head' \in Slot /\ old' \in Slot /\ prev' \in Slot
      BY <1>2, <2>1, <2>2, <2>4 DEF Inv, Types, Slot
    <3>2. gc' \in SUBSET live' /\ live' \in SUBSET Addresses
      BY <1>3, <2>1, <2>2 DEF Inv, Types
    <3> QED BY <1>2, <2>6, <2>7, <3>1, <3>2 DEF Inv, Types
  <2>9. ASSUME NEW b \in live', NEW i \in Slots(b)', b # q
        PROVE  b \in live /\ i \in Slots(b) /\ nodes'[b][i] = nodes[b][i]
               /\ nodes[b][i] \in live \ (gc \cup {root, h, new})
    <3>1. b # new
      BY <2>6, <2>9 DEF Slots
    <3>2. b \in live /\ nodes'[b] = nodes[b]
      BY <2>2, <2>6, <2>9, <3>1
    <3>3. i \in Slots(b)
      BY <2>9, <3>2 DEF Slots
    <3>4. nodes[b][i] \in live \ (gc \cup {root})
      BY <3>2, <3>3 DEF Inv, Forest
    <3>5. nodes[b][i] # h
      <4>1. CASE q = Null
        BY <2>4, <3>4, <4>1
      <4>2. CASE q # Null
        <5>1. 1 \in Slots(q) /\ nodes[q][1] = h
          BY <1>2, <2>4, <4>2 DEF Slots
        <5> QED BY <2>4, <2>9, <3>2, <3>3, <4>2, <5>1 DEF Inv, Forest
      <4> QED BY <4>1, <4>2
    <3> QED BY <2>1, <3>2, <3>3, <3>4, <3>5
  <2>10. ASSUME q \in live', NEW i \in Slots(q)' PROVE q # Null /\ q \in live /\ i = 1 /\ nodes'[q][i] = new
    <3>1. q # Null
      BY <1>3, <2>1, <2>2, <2>10
    <3>2. DOMAIN nodes'[q] = {1} /\ nodes'[q][1] = new
      BY <2>6, <3>1
    <3> QED BY <2>4, <2>10, <3>1, <3>2 DEF Slots
  <2>11. Forest'
    <3>1. ASSUME NEW b \in live', NEW i \in Slots(b)' PROVE nodes'[b][i] \in live' \ (gc' \cup {root'})
      <4>1. CASE b = q
        BY <1>3, <2>1, <2>2, <2>4, <2>10, <3>1, <4>1 DEF Inv, Types
      <4>2. CASE b # q
        BY <2>2, <2>4, <2>9, <3>1, <4>2
      <4> QED BY <4>1, <4>2
    <3>2. ASSUME NEW b \in live', NEW c \in live', NEW i \in Slots(b)', NEW j \in Slots(c)',
                 nodes'[b][i] = nodes'[c][j]
          PROVE  b = c /\ i = j
      <4>1. CASE b = q /\ c = q
        BY <2>10, <3>2, <4>1
      <4>2. CASE b = q /\ c # q
        <5>1. nodes'[b][i] = new
          BY <2>10, <3>2, <4>2
        <5>2. nodes'[c][j] # new
          BY <2>9, <3>2, <4>2
        <5> QED BY <3>2, <5>1, <5>2
      <4>3. CASE b # q /\ c = q
        <5>1. nodes'[c][j] = new
          BY <2>10, <3>2, <4>3
        <5>2. nodes'[b][i] # new
          BY <2>9, <3>2, <4>3
        <5> QED BY <3>2, <5>1, <5>2
      <4>4. CASE b # q /\ c # q
        BY <2>9, <3>2, <4>4 DEF Inv, Forest
      <4> QED BY <4>1, <4>2, <4>3, <4>4
    <3>3. ASSUME NEW y \in live' PROVE y = root' \/ y \in gc' \/ \E b \in live' : y \in Children(b)'
      <4>1. CASE y = new
        <5>1. CASE q = Null
          BY <2>4, <4>1, <5>1
        <5>2. CASE q # Null
          <6>1. new \in Kids(nodes', q)
            BY <2>1, <2>6, <5>2 DEF Kids
          <6> QED BY <2>2, <2>4, <4>1, <5>2, <6>1, OwnedIsReach
        <5> QED BY <5>1, <5>2
      <4>2. CASE y = h
        BY <2>2, <4>2
      <4>3. CASE y \in live /\ y # h
        <5>1. \A b \in live \ {q} : Children(b)' = Children(b)
          BY <2>6 DEF Children, Slots
        <5>2. q # Null => Children(q) = {h}
          BY <1>2, <2>4 DEF Children, Slots
        <5>3. y = root \/ y \in gc \/ \E b \in live : y \in Children(b)
          BY <4>3 DEF Inv, Forest
        <5>4. q # Null \/ q \notin live
          BY <1>3
        <5> QED BY <2>2, <2>4, <4>3, <5>1, <5>2, <5>3, <5>4
      <4> QED BY <2>2, <3>3, <4>1, <4>2, <4>3
    <3>4. root' # Null => root' \in live' \ gc'
      BY <1>3, <2>1, <2>2, <2>4 DEF Inv, Forest, Types
    <3>5. \A y \in Addresses \ live' : child'[y] = << >> /\ nodes'[y] = << >>
      BY <2>2, <2>6, <2>7
    <3>6. \A y \in live' : nodes'[y] = << >> \/ Len(nodes'[y]) = Len(child'[y])
      <4> SUFFICES ASSUME NEW y \in live' PROVE nodes'[y] = << >> \/ Len(nodes'[y]) = Len(child'[y])
        OBVIOUS
      <4>1. CASE y = new
        BY <2>6, <4>1
      <4>2. CASE y = q /\ y # new
        <5>1. q # Null /\ q \in live
          BY <1>3, <2>1, <2>2, <4>2
        <5>2. nodes[q] = <<h>> /\ nodes'[q] = <<new>> /\ nodes[q] # << >>
          BY <2>4, <2>6, <5>1
        <5>3. Len(nodes[q]) = Len(child[q])
          BY <5>1, <5>2 DEF Inv, Forest
        <5> QED BY <2>7, <4>2, <5>1, <5>2, <5>3
      <4>3. CASE y # q /\ y # new
        BY <2>2, <2>6, <2>7, <4>3 DEF Inv, Forest
      <4> QED BY <4>1, <4>2, <4>3
    <3>7. root' = Null <=> head' = Null
      BY <1>3, <2>1, <2>2, <2>4
    <3> QED BY <3>1, <3>2, <3>3, <3>4, <3>5, <3>6, <3>7 DEF Forest
  <2>12. TreeMatchesMoves'
    <3> SUFFICES ASSUME NEW b \in live', NEW i \in Slots(b)'
                 PROVE  i \in DOMAIN child'[b] /\ line'[nodes'[b][i]] = Append(line'[b], child'[b][i].m)
      BY DEF TreeMatchesMoves
    <3>1. CASE b = q
      <4>1. q # Null /\ q \in live /\ i = 1 /\ nodes'[q][i] = new
        BY <2>10, <3>1
      <4>2. 1 \in Slots(q) /\ nodes[q][1] = h
        BY <1>2, <2>4, <4>1 DEF Slots
      <4>3. 1 \in DOMAIN child[q] /\ line[h] = Append(line[q], child[q][1].m)
        BY <4>1, <4>2 DEF Inv, TreeIsOfGame, TreeMatchesMoves
      <4> QED BY <2>7, <3>1, <4>1, <4>3
    <3>2. CASE b # q
      <4>1. b \in live /\ i \in Slots(b) /\ nodes'[b][i] = nodes[b][i] /\ nodes[b][i] \in live
        BY <2>9, <3>2
      <4>2. i \in DOMAIN child[b] /\ line[nodes[b][i]] = Append(line[b], child[b][i].m)
        BY <4>1 DEF Inv, TreeIsOfGame, TreeMatchesMoves
      <4> QED BY <2>7, <4>1, <4>2
    <3> QED BY <3>1, <3>2
  <2>13. \A b \in live \ {q} : Kids(nodes', b) = Kids(nodes, b)
    BY <2>6 DEF Kids
  <2>14. Kids(nodes', new) = {} /\ (q # Null => Kids(nodes', q) = {new} /\ Kids(nodes, q) = {h})
    <3>1. Kids(nodes', new) = {}
      BY <2>6 DEF Kids
    <3>2. ASSUME q # Null PROVE Kids(nodes', q) = {new}
      <4>1. nodes'[q] = <<new>>
        BY <2>6, <3>2
      <4> QED BY <2>1, <4>1 DEF Kids
    <3>3. ASSUME q # Null PROVE Kids(nodes, q) = {h}
      <4>1. nodes[q] = <<h>>
        BY <2>4, <3>3
      <4> QED BY <1>2, <4>1 DEF Kids
    <3> QED BY <3>1, <3>2, <3>3
  <2> DEFINE S == {y \in Tree : Depth(y) <= Depth(h) /\ y # h} \cup {new}
  <2>15. ClosedIn(nodes', S)
    <3> SUFFICES ASSUME NEW b \in S, NEW y \in Kids(nodes', b) PROVE y \in S
      BY DEF ClosedIn
    <3>1. b # new
      BY <2>14
    <3>2. b \in Tree /\ b \in live /\ Depth(b) < Depth(h)
      <4>1. b \in Tree /\ b \in live /\ Depth(b) <= Depth(h) /\ b # h
        BY <1>3, <3>1
      <4>2. Depth(b) # Depth(h)
        BY <1>1, <1>2, <1>3, <4>1 DEF Inv, Spine
      <4> QED BY <1>3, <4>1, <4>2
    <3>3. CASE b = q
      BY <1>3, <2>14, <3>2, <3>3
    <3>4. CASE b # q
      <4>1. y \in Kids(nodes, b) /\ y \in Tree
        BY <1>3, <2>13, <3>2, <3>4 DEF ClosedIn
      <4>2. Depth(y) = Depth(b) + 1
        BY <1>3, <3>2, <4>1 DEF Shaped, IsForest
      <4>3. y # h
        <5>1. CASE q = Null
          BY <1>3, <2>4, <3>2, <4>1, <5>1 DEF Shaped, IsForest
        <5>2. CASE q # Null
          <6>1. h \in Kids(nodes, q) /\ q \in live
            BY <2>4, <2>14, <5>2
          <6> QED BY <1>3, <3>2, <3>4, <4>1, <6>1 DEF Shaped, IsForest
        <5> QED BY <5>1, <5>2
      <4> QED BY <1>3, <3>2, <4>1, <4>2, <4>3
    <3> QED BY <3>3, <3>4
  <2>16. root' \in S /\ S \in SUBSET Addresses
    <3>1. Depth(root) <= Depth(h)
      BY <1>3, Deeper DEF Shaped
    <3> QED BY <1>3, <2>1, <2>4, <3>1
  <2>17. Tree' \subseteq S /\ new \in Tree'
    <3> HIDE DEF S
    <3>1. Tree' = Reach(nodes', root')
      BY OwnedIsReach DEF Tree
    <3>2. Tree' \subseteq S
      BY <2>15, <2>16, <3>1, ReachLeast
    <3>3. root' \in Tree' /\ ClosedIn(nodes', Tree')
      BY <2>15, <2>16, <3>1, ReachClosed
    <3>4. q = Null => new \in Tree'
      BY <2>4, <3>3
    <3>5. ASSUME q # Null PROVE new \in Tree'
      <4>1. PICK d \in Tree : h \in Kids(nodes, d)
        BY <1>3, <2>4, <3>5, ReachParent
      <4>2. d = q
        BY <1>3, <2>4, <2>14, <3>5, <4>1 DEF Shaped, IsForest
      <4>3. \A b \in Addresses \ {q} : Kids(nodes, b) \subseteq Kids(nodes', b)
        <5> SUFFICES ASSUME NEW b \in Addresses \ {q} PROVE Kids(nodes, b) \subseteq Kids(nodes', b)
          OBVIOUS
        <5>1. CASE b \in live
          BY <2>13, <5>1
        <5>2. CASE b \notin live
          BY <5>2 DEF Kids, Inv, Forest
        <5> QED BY <5>1, <5>2
      <4>4. q \in Reach(nodes', root)
        BY <1>3, <4>1, <4>2, <4>3, ReachKept
      <4> QED BY <2>4, <2>14, <3>1, <3>3, <3>5, <4>4 DEF ClosedIn
    <3> QED BY <3>2, <3>4, <3>5
  <2>18. /\ \A y \in live : Depth(y)' = Depth(y)
         /\ Depth(new)' = Depth(h) /\ Depth(head)' = Depth(h)
    BY <2>2, <2>7 DEF Depth
  <2>19. Spine'
    <3>1. \A y, z \in Tree' : Depth(y)' = Depth(z)' /\ Depth(y)' <= Depth(head)' => y = z
      <4> SUFFICES ASSUME NEW y \in Tree', NEW z \in Tree', Depth(y)' = Depth(z)', y # z PROVE FALSE
        OBVIOUS
      <4>1. \A u \in Tree' : u # new => u \in Tree /\ u # h /\ Depth(u)' = Depth(u) /\ Depth(u) <= Depth(h)
        BY <1>3, <2>17, <2>18
      <4>2. \A u \in Tree : u # h => ~ (Depth(u) = Depth(h))
        BY <1>1, <1>2, <1>3 DEF Inv, Spine
      <4>3. y # new /\ z # new
        BY <2>18, <4>1, <4>2
      <4> QED BY <1>1, <1>2, <4>1, <4>3 DEF Inv, Spine
    <3>2. \A y \in Tree' : Depth(y)' >= Depth(head)' => y = new
      <4> SUFFICES ASSUME NEW y \in Tree', Depth(y)' >= Depth(head)', y # new PROVE FALSE
        OBVIOUS
      <4>1. y \in Tree /\ y # h /\ Depth(y) <= Depth(h) /\ Depth(y)' = Depth(y) /\ Depth(y) \in Nat /\ Depth(h) \in Nat
        BY <1>3, <2>17, <2>18
      <4>2. Depth(y) = Depth(h)
        BY <2>18, <4>1
      <4> QED BY <1>1, <1>2, <1>3, <4>1, <4>2 DEF Inv, Spine
    <3>3. Whole(new)'
      BY <2>7 DEF Whole
    <3>4. line'[root'] = <<key'>>
      BY <1>1, <1>2, <1>3, <2>4, <2>7 DEF Inv, Spine
    <3> QED BY <2>2, <2>17, <3>1, <3>2, <3>3, <3>4 DEF Spine
  <2>20. AtHead'
    BY <1>1, <1>2, <2>1, <2>2, <2>7 DEF Inv, AtHead
  <2> QED BY <1>4, <2>8, <2>11, <2>12, <2>19, <2>20 DEF Inv, TreeIsOfGame
<1> QED BY <1>5, <1>6

-----------------------------------------------------------------------------
LEMMA InitHolds == Init => Inv
<1> SUFFICES ASSUME Init PROVE Inv
  OBVIOUS
<1> USE AddressAssumption DEF Null, Init
<1>1. Types
  <2>1. << >> \in Seq(Child) /\ << >> \in Seq(Slot) /\ << >> \in Seq(Keys \cup Moves)
    OBVIOUS
  <2>2. game \in Seq(Keys \cup Moves) /\ DOMAIN game = {1}
    OBVIOUS
  <2> QED BY <2>1, <2>2 DEF Types, Slot
<1>2. Forest
  BY DEF Forest, Slots, Children
<1>3. TreeIsOfGame
  BY DEF TreeIsOfGame, TreeMatchesMoves, HeadIsComplete
<1>4. Spine /\ AtHead
  BY DEF Spine, AtHead
<1> QED BY <1>1, <1>2, <1>3, <1>4 DEF Inv

(* A game, and going on, start from the root.                               *)
LEMMA GoIsReset == ASSUME Inv, Go \/ GoOn PROVE \E k \in Keys, p \in Seq(Child) : ResetToPosition(k, p)
<1>1. CASE Go
  <2>1. PICK k \in Keys, n \in 0 .. MaxLine : \E p \in [1 .. n -> Moves] :
          ResetToPosition(k, [i \in 1 .. n |-> Plain(p[i])])
    BY <1>1 DEF Go
  <2>2. PICK p \in [1 .. n -> Moves] : ResetToPosition(k, [i \in 1 .. n |-> Plain(p[i])])
    BY <2>1
  <2> DEFINE q == [i \in 1 .. n |-> Plain(p[i])]
  <2>3. q \in Seq(Child)
    <3>1. n \in Nat
      BY BoundAssumption
    <3>2. \A i \in 1 .. n : Plain(p[i]) \in Child
      BY DEF Plain, Child
    <3> QED BY <3>1, <3>2
  <2> HIDE DEF q
  <2> QED BY <2>2, <2>3 DEF q
<1>2. CASE GoOn
  <2> DEFINE q(c) == [i \in 1 .. Len(game) |-> IF i = Len(game) THEN c ELSE Plain(game[i + 1])]
  <2>1. PICK c \in Range(child[head]) : ResetToPosition(key, q(c))
    BY <1>2 DEF GoOn
  <2>2. key \in Keys /\ Len(game) \in Nat
    BY DEF Inv, Types
  <2>3. c \in Child
    <3>1. head # Null /\ head \in Addresses
      BY <1>2 DEF GoOn, Inv, Types, Slot
    <3>2. child[head] \in Seq(Child)
      BY <3>1 DEF Inv, Types
    <3> QED BY <3>2 DEF Range
  <2>4. \A i \in 1 .. Len(game) : i # Len(game) => Plain(game[i + 1]) \in Child
    <3> SUFFICES ASSUME NEW i \in 1 .. Len(game), i # Len(game) PROVE game[i + 1] \in Moves
      BY DEF Plain, Child
    <3>1. i + 1 \in DOMAIN game \ {1}
      BY <2>2 DEF Inv, Types
    <3> QED BY <3>1 DEF Inv, Types
  <2>5. q(c) \in Seq(Child)
    BY <2>2, <2>3, <2>4
  <2> HIDE DEF q
  <2> QED BY <2>1, <2>2, <2>5
<1> QED BY <1>1, <1>2

LEMMA NextKeeps == Inv /\ [Next]_vars => Inv'
<1> SUFFICES ASSUME Inv, [Next]_vars PROVE Inv'
  OBVIOUS
<1>1. CASE Go \/ GoOn
  BY <1>1, GoIsReset, ResetKeeps
<1>3. CASE Walk
  BY <1>3, WalkKeeps
<1>4. CASE FinishReset
  BY <1>4, FinishKeeps
<1>5. CASE ExpandRoot
  BY <1>5, ExpandRootKeeps
<1>6. CASE Search
  <2>1. head # Null
    BY <1>6 DEF Search
  <2>2. PICK a \in Owned(head) : \E i \in DOMAIN child[a] : CreateChildNode(a, i) \/ SetFlag(a, i)
    BY <1>6 DEF Search
  <2>3. PICK i \in DOMAIN child[a] : CreateChildNode(a, i) \/ SetFlag(a, i)
    BY <2>2
  <2> QED BY <2>1, <2>3, CreateChildNodeKeeps, SetFlagKeeps
<1>7. CASE GarbageCollect
  BY <1>7, GarbageCollectKeeps
<1>8. CASE UNCHANGED vars
  <2>1. UNCHANGED <<child, nodes, live, line, root, head, key, gc, pc, todo, old, prev, seen, game>>
    BY <1>8 DEF vars, tree, walk, history
  <2>2. Types' /\ AtHead'
    BY <2>1 DEF Inv, Types, AtHead
  <2>3. Forest'
    BY <2>1 DEF Inv, Forest, Slots, Children
  <2>4. TreeIsOfGame'
    BY <2>1 DEF Inv, TreeIsOfGame, TreeMatchesMoves, HeadIsComplete, Slots
  <2>5. Tree' = Tree /\ \A x : Owned(x)' = Owned(x)
    BY <2>1, OwnedIsReach DEF Tree
  <2>6. Spine'
    BY <2>1, <2>5 DEF Inv, Spine, Depth, Whole
  <2> QED BY <2>2, <2>3, <2>4, <2>6 DEF Inv
<1> QED BY <1>1, <1>3, <1>4, <1>5, <1>6, <1>7, <1>8 DEF Next

(* Inv holds in every state.                                                *)
LEMMA Invariance == Spec => []Inv
BY InitHolds, NextKeeps, PTL DEF Spec

LEMMA OneOwnerHolds == Inv => OneOwner
<1> SUFFICES ASSUME Inv PROVE OneOwner
  OBVIOUS
<1> USE AddressAssumption DEF Null
<1>1. ASSUME NEW a, NEW o
      PROVE  o \in Owners(a) <=>
               \/ a = root /\ o = <<Null, 0>>
               \/ a \in gc /\ o = <<Null, 1>>
               \/ \E b \in live : \E i \in Slots(b) : nodes[b][i] = a /\ o = <<b, i>>
  <2> DEFINE U == UNION {{<<b, i>> : i \in {j \in Slots(b) : nodes[b][j] = a}} : b \in live}
  <2>1. o \in {<<Null, 0>> : x \in {root} \cap {a}} <=> a = root /\ o = <<Null, 0>>
    OBVIOUS
  <2>2. o \in {<<Null, 1>> : x \in gc \cap {a}} <=> a \in gc /\ o = <<Null, 1>>
    OBVIOUS
  <2>3. o \in U <=> \E b \in live : \E i \in Slots(b) : nodes[b][i] = a /\ o = <<b, i>>
    <3>1. ASSUME o \in U PROVE \E b \in live : \E i \in Slots(b) : nodes[b][i] = a /\ o = <<b, i>>
      <4>1. PICK b \in live : o \in {<<b, i>> : i \in {j \in Slots(b) : nodes[b][j] = a}}
        BY <3>1
      <4> QED BY <4>1
    <3>2. ASSUME NEW b \in live, NEW i \in Slots(b), nodes[b][i] = a, o = <<b, i>> PROVE o \in U
      <4>1. o \in {<<b, j>> : j \in {j \in Slots(b) : nodes[b][j] = a}}
        BY <3>2
      <4> QED BY <4>1
    <3> QED BY <3>1, <3>2
  <2> HIDE DEF U
  <2>4. Owners(a) = {<<Null, 0>> : x \in {root} \cap {a}} \cup {<<Null, 1>> : x \in gc \cap {a}} \cup U
    BY Zenon DEF Owners, U
  <2> QED BY <2>1, <2>2, <2>3, <2>4
<1>2. /\ live \in SUBSET Addresses /\ gc \subseteq live
      /\ \A b \in live : \A i \in Slots(b) : nodes[b][i] \in live \ (gc \cup {root})
      /\ root # Null => root \in live \ gc
  BY DEF Inv, Types, Forest
<1>3. ASSUME NEW a \in live PROVE \E o \in Owners(a) : Owners(a) = {o}
  <2>1. CASE a = root
    <3> DEFINE t == <<Null, 0>>
    <3>1. \A o : o \in Owners(a) <=> o = t
      BY <1>1, <1>2, <2>1
    <3> HIDE DEF t
    <3>5. t \in Owners(a) /\ Owners(a) = {t}
      BY <3>1
    <3> QED BY <3>5
  <2>2. CASE a \in gc
    <3> DEFINE t == <<Null, 1>>
    <3>1. \A o : o \in Owners(a) <=> o = t
      BY <1>1, <1>2, <2>2
    <3> HIDE DEF t
    <3>5. t \in Owners(a) /\ Owners(a) = {t}
      BY <3>1
    <3> QED BY <3>5
  <2>3. CASE a # root /\ a \notin gc
    <3>1. PICK b \in live : a \in Children(b)
      BY <2>3 DEF Inv, Forest
    <3>2. PICK i \in Slots(b) : nodes[b][i] = a
      BY <3>1 DEF Children
    <3>3. \A c \in live : \A j \in Slots(c) : nodes[c][j] = a => c = b /\ j = i
      BY <3>2 DEF Inv, Forest
    <3> DEFINE t == <<b, i>>
    <3>4. \A o : o \in Owners(a) <=> o = t
      BY <1>1, <2>3, <3>2, <3>3
    <3> HIDE DEF t
    <3>5. t \in Owners(a) /\ Owners(a) = {t}
      BY <3>4
    <3> QED BY <3>5
  <2> QED BY <2>1, <2>2, <2>3
<1>4. ASSUME NEW a \in Addresses \ live PROVE Owners(a) = {}
  <2>1. a # root /\ a \notin gc
    BY <1>2, <1>4
  <2>2. \A o : o \notin Owners(a)
    BY <1>1, <1>2, <1>4, <2>1
  <2> QED BY <2>2
<1>5. head # Null => head \in Owned(root)
  BY DEF Inv, Spine, Tree
<1> QED BY <1>3, <1>4, <1>5 DEF OneOwner

(* Every node in use belongs to the tree, to the collector or to its        *)
(* parent, and to one of them only: it is freed at most once, and none is   *)
(* lost.  The head is in the tree.                                          *)
THEOREM NodesHaveOneOwner == Spec => []OneOwner
BY Invariance, OneOwnerHolds, PTL

(* A node's statistics are those of the position its moves lead to, and the *)
(* search starts at the position of the command, with all its moves.        *)
THEOREM TreeFollowsGame == Spec => []TreeIsOfGame
<1>1. Inv => TreeIsOfGame
  BY DEF Inv
<1> QED BY <1>1, Invariance, PTL

-----------------------------------------------------------------------------
(* The invariant behind KeepsPlainLine: while the moves are walked, the     *)
(* rest of them leads through nodes w to the one that is kept, and the old  *)
(* head is among those or was seen.  No node has a move twice.              *)
Leads(N, C, w, p) ==
  /\ w \in Seq(Addresses) /\ Len(w) = Len(p) + 1
  /\ \A n \in 1 .. Len(p) :
       \E i \in DOMAIN C[w[n]] : C[w[n]][i] = p[n] /\ i \in DOMAIN N[w[n]] /\ N[w[n]][i] = w[n + 1]
Distinct == \A a \in Addresses : \A i, j \in DOMAIN child[a] : child[a][i].m = child[a][j].m => i = j
KeptInv ==
  /\ Distinct
  /\ pc = "search" => kept = Null
  /\ pc = "walk" /\ head = old => seen
  /\ pc = "walk" /\ kept # Null /\ plain =>
       \E w : /\ Leads(nodes, child, w, todo) /\ w[1] = head /\ w[Len(w)] = kept
              /\ seen \/ \E n \in 1 .. Len(w) : w[n] = old
  /\ pc = "expand" /\ kept # Null /\ plain => head = kept

(* Such nodes are below the first, each one deeper than the one before.     *)
LEMMA LeadsDown ==
  ASSUME NEW N, NEW V, NEW T, NEW D, IsForest(N, V, T, D), NEW C, NEW w, NEW p \in Seq(Child),
         Leads(N, C, w, p), w[1] \in V
  PROVE  \A n \in 1 .. Len(w) : w[n] \in V /\ w[n] \in Reach(N, w[1]) /\ D[w[n]] = D[w[1]] + n - 1
<1> DEFINE Good(n) == w[n] \in V /\ w[n] \in Reach(N, w[1]) /\ D[w[n]] = D[w[1]] + n - 1
           Bad     == {n \in 1 .. Len(w) : ~ Good(n)}
<1>1. Len(p) \in Nat /\ Len(w) = Len(p) + 1 /\ \A n \in 1 .. Len(w) : w[n] \in Addresses
  BY DEF Leads
<1>2. V \in SUBSET Addresses /\ ClosedIn(N, V)
  BY DEF IsForest, ClosedIn
<1>3. Good(1)
  BY <1>2, ReachClosed DEF IsForest
<1>4. ASSUME NEW n \in 1 .. Len(p), Good(n) PROVE Good(n + 1)
  <2>1. w[n + 1] \in Kids(N, w[n])
    <3>1. n + 1 \in 1 .. Len(w)
      BY <1>1
    <3>2. w[n + 1] \in Addresses /\ w[n + 1] # Null
      BY <1>1, <3>1, AddressAssumption
    <3> QED BY <3>2 DEF Leads, Kids
  <2>2. w[n + 1] \in V /\ D[w[n + 1]] = D[w[n]] + 1 /\ D[w[n]] \in Nat /\ D[w[1]] \in Nat
    BY <1>4, <2>1 DEF IsForest
  <2>3. w[n + 1] \in Reach(N, w[1])
    BY <1>2, <1>4, <2>1, ReachClosed DEF ClosedIn
  <2>4. D[w[n + 1]] = D[w[1]] + (n + 1) - 1
    BY <1>1, <1>4, <2>2
  <2> QED BY <2>2, <2>3, <2>4
<1> HIDE DEF Good
<1>5. Bad = {}
  <2> SUFFICES ASSUME Bad # {} PROVE FALSE
    OBVIOUS
  <2>1. Bad \in SUBSET Nat
    OBVIOUS
  <2> HIDE DEF Bad
  <2>2. PICK n \in Bad : \A m \in Bad : n <= m
    BY <2>1, Least
  <2>3. n \in 1 .. Len(w) /\ ~ Good(n) /\ n # 1
    BY <1>3, <2>2 DEF Bad
  <2>4. n - 1 \in 1 .. Len(p) /\ n - 1 \in 1 .. Len(w) /\ ~ (n <= n - 1) /\ (n - 1) + 1 = n
    BY <1>1, <2>3
  <2>5. Good(n - 1)
    BY <2>2, <2>4 DEF Bad
  <2> QED BY <1>4, <2>3, <2>4, <2>5
<1> QED BY <1>5 DEF Good

(* Functions that are defined step by step.                                 *)
Iterates(X, a, L, G, f) == f \in [0 .. L -> X] /\ f[0] = a /\ \A n \in 1 .. L : f[n] = G[n][f[n - 1]]
LEMMA Iterate ==
  ASSUME NEW X, NEW a \in X, NEW L \in Nat, NEW G \in [1 .. L -> [X -> X]]
  PROVE  \E f : Iterates(X, a, L, G, f)
<1> DEFINE Has(k) == \E f \in [0 .. k -> X] : f[0] = a /\ \A n \in 1 .. k : f[n] = G[n][f[n - 1]]
           Bad    == {k \in 0 .. L : ~ Has(k)}
<1>1. Has(0)
  <2> DEFINE f == [n \in 0 .. 0 |-> a]
  <2>1. f \in [0 .. 0 -> X] /\ f[0] = a /\ \A n \in 1 .. 0 : f[n] = G[n][f[n - 1]]
    OBVIOUS
  <2> QED BY <2>1
<1>2. ASSUME NEW k \in 0 .. L, k # 0, Has(k - 1) PROVE Has(k)
  <2>1. PICK f \in [0 .. k - 1 -> X] : f[0] = a /\ \A n \in 1 .. k - 1 : f[n] = G[n][f[n - 1]]
    BY <1>2
  <2> DEFINE g == [n \in 0 .. k |-> IF n = k THEN G[k][f[k - 1]] ELSE f[n]]
  <2>2. k \in 1 .. L /\ k - 1 \in 0 .. k - 1 /\ f[k - 1] \in X
    BY <1>2
  <2>3. G[k][f[k - 1]] \in X
    BY <2>2
  <2>4. \A n \in 0 .. k : g[n] = (IF n = k THEN G[k][f[k - 1]] ELSE f[n])
    OBVIOUS
  <2>5. \A n \in 0 .. k : n # k => n \in 0 .. k - 1
    OBVIOUS
  <2>6. g \in [0 .. k -> X]
    BY <2>3, <2>5
  <2>7. 0 \in 0 .. k /\ 0 # k
    BY <1>2
  <2>8. g[0] = a
    BY <2>1, <2>4, <2>7
  <2> HIDE DEF g
  <2>9. ASSUME NEW n \in 1 .. k PROVE g[n] = G[n][g[n - 1]]
    <3>1. n \in 0 .. k /\ n - 1 \in 0 .. k /\ n - 1 # k /\ (n # k => n \in 1 .. k - 1)
      OBVIOUS
    <3>2. g[n - 1] = f[n - 1]
      BY <3>1, <2>4
    <3> QED BY <3>1, <3>2, <2>1, <2>4
  <2> QED BY <2>6, <2>8, <2>9
<1> HIDE DEF Has
<1>3. Bad = {}
  <2> SUFFICES ASSUME Bad # {} PROVE FALSE
    OBVIOUS
  <2>1. Bad \in SUBSET Nat
    OBVIOUS
  <2> HIDE DEF Bad
  <2>2. PICK k \in Bad : \A m \in Bad : k <= m
    BY <2>1, Least
  <2>3. k \in 0 .. L /\ ~ Has(k) /\ k # 0
    BY <1>1, <2>2 DEF Bad
  <2>4. k - 1 \in 0 .. L /\ ~ (k <= k - 1)
    BY <2>3
  <2>5. Has(k - 1)
    BY <2>2, <2>4 DEF Bad
  <2> QED BY <1>2, <2>3, <2>5
<1>4. Has(L)
  BY <1>3
<1> QED BY <1>4 DEF Has, Iterates

LEMMA NodeAtIs ==
  ASSUME NEW a, NEW p, Len(p) \in Nat, NEW f, f[0] = a, \A n \in 1 .. Len(p) : f[n] = Step(f[n - 1], p[n].m)
  PROVE  NodeAt(a, p) = f[Len(p)]
<1> DEFINE L == Len(p)
           IsAt(at) == at = [n \in 0 .. L |-> IF n = 0 THEN a ELSE Step(at[n - 1], p[n].m)]
           g == [n \in 0 .. L |-> f[n]]
           h == CHOOSE at : IsAt(at)
<1>1. IsAt(g)
  <2>1. ASSUME NEW n \in 0 .. L PROVE g[n] = IF n = 0 THEN a ELSE Step(g[n - 1], p[n].m)
    <3>1. CASE n = 0
      BY <3>1
    <3>2. CASE n # 0
      <4>1. n \in 1 .. L /\ n - 1 \in 0 .. L
        BY <3>2
      <4>2. g[n] = f[n] /\ g[n - 1] = f[n - 1]
        BY <4>1
      <4> HIDE DEF g
      <4> QED BY <3>2, <4>1, <4>2
    <3> QED BY <3>1, <3>2
  <2>2. g = [n \in 0 .. L |-> g[n]]
    OBVIOUS
  <2> HIDE DEF g
  <2> QED BY <2>1, <2>2
<1>2. IsAt(h)
  <2> HIDE DEF IsAt, g
  <2> QED BY <1>1
<1>3. \A n \in 0 .. L : h[n] = IF n = 0 THEN a ELSE Step(h[n - 1], p[n].m)
  <2> HIDE DEF h
  <2> QED BY <1>2
<1>4. NodeAt(a, p) = h[L]
  BY Zenon DEF NodeAt
<1> HIDE DEF h, g, IsAt
<1> DEFINE Bad == {n \in 0 .. L : h[n] # f[n]}
<1>5. Bad = {}
  <2> SUFFICES ASSUME Bad # {} PROVE FALSE
    OBVIOUS
  <2>1. Bad \in SUBSET Nat
    OBVIOUS
  <2> HIDE DEF Bad
  <2>2. PICK k \in Bad : \A m \in Bad : k <= m
    BY <2>1, Least
  <2>3. k \in 0 .. L /\ h[k] # f[k] /\ k # 0
    <3>1. 0 \in 0 .. L
      OBVIOUS
    <3> QED BY <1>3, <2>2, <3>1 DEF Bad
  <2>4. k - 1 \in 0 .. L /\ ~ (k <= k - 1) /\ k \in 1 .. L
    BY <2>3
  <2>5. h[k - 1] = f[k - 1]
    BY <2>2, <2>4 DEF Bad
  <2>6. h[k] = Step(h[k - 1], p[k].m) /\ f[k] = Step(f[k - 1], p[k].m)
    BY <1>3, <2>3, <2>4
  <2> QED BY <2>3, <2>5, <2>6
<1> QED BY <1>4, <1>5

LEMMA ResetKept == ASSUME Inv, KeptInv, NEW k \in Keys, NEW p \in Seq(Child), ResetToPosition(k, p) PROVE KeptInv'
<1> USE AddressAssumption DEF Null
<1> DEFINE drop  == root # Null /\ key # k
           fresh == root = Null \/ drop
           below == head # Null /\ ~ drop /\ Len(game) <= Len(p) + 1 /\
                      \A n \in 2 .. Len(game) : game[n] = p[n - 1].m
<1>1. /\ pc = "search" /\ (fresh => Free # {})
      /\ fresh => child' = [child EXCEPT ![Min(Free)] = << >>]
      /\ ~ fresh => UNCHANGED tree /\ root' = root /\ head' = root /\ old' = head
      /\ pc' = "walk" /\ todo' = p /\ (head' = old' => seen')
      /\ kept' = IF below THEN NodeAt(root, p) ELSE Null
      /\ plain' = (below => Compares(root, p))
  BY Zenon DEF ResetToPosition
<1>2. Distinct'
  <2>1. CASE fresh
    <3>1. child' = [child EXCEPT ![Min(Free)] = << >>]
      BY <1>1, <2>1
    <3> HIDE DEF fresh
    <3>2. \A a \in Addresses : child'[a] = IF a = Min(Free) THEN << >> ELSE child[a]
      BY <3>1 DEF Inv, Types
    <3> QED BY <3>2 DEF KeptInv, Distinct
  <2>2. CASE ~ fresh
    <3>1. child' = child
      BY <1>1, <2>2 DEF tree
    <3> QED BY <3>1 DEF KeptInv, Distinct
  <2> QED BY <2>1, <2>2
<1>3. ASSUME kept' # Null, plain'
      PROVE  \E w : /\ Leads(nodes, child, w, p) /\ w[1] = root /\ w[Len(w)] = kept'
                    /\ \E n \in 1 .. Len(w) : w[n] = head
  <2>1. below /\ kept' = NodeAt(root, p) /\ Compares(root, p)
    BY <1>1, <1>3
  <2> HIDE DEF below, fresh, drop
  <2>2. head # Null /\ root # Null
    BY <2>1 DEF below, Inv, Forest
  <2> DEFINE L == Len(p)
             G == [n \in 1 .. L |-> [x \in Slot |-> Step(x, p[n].m)]]
  <2>3. L \in Nat /\ root \in Slot
    BY DEF Inv, Types
  <2>4. ASSUME NEW x \in Slot, NEW m PROVE Step(x, m) \in Slot
    <3>1. CASE x = Null \/ Index(x, m) = {} \/ nodes[x] = << >>
      BY <3>1 DEF Step, Slot
    <3>2. CASE ~ (x = Null \/ Index(x, m) = {} \/ nodes[x] = << >>)
      <4>1. x \in Addresses /\ (CHOOSE i \in Index(x, m) : TRUE) \in Index(x, m)
        BY <3>2 DEF Slot
      <4> DEFINE i == CHOOSE i \in Index(x, m) : TRUE
      <4>2. i \in DOMAIN child[x] /\ child[x] # << >>
        BY <4>1 DEF Index
      <4>3. x \in live
        BY <4>1, <4>2 DEF Inv, Forest
      <4>4. Len(nodes[x]) = Len(child[x]) /\ nodes[x] \in Seq(Slot) /\ child[x] \in Seq(Child)
        BY <3>2, <4>1, <4>3 DEF Inv, Forest, Types
      <4>5. i \in DOMAIN nodes[x]
        BY <4>2, <4>4
      <4> HIDE DEF i
      <4>6. nodes[x][i] \in Slot
        BY <4>4, <4>5
      <4> QED BY <3>2, <4>6 DEF Step, i
    <3> QED BY <3>1, <3>2
  <2>5. G \in [1 .. L -> [Slot -> Slot]]
    <3>1. \A n \in 1 .. L : [x \in Slot |-> Step(x, p[n].m)] \in [Slot -> Slot]
      BY <2>4
    <3> QED BY <3>1
  <2> HIDE DEF L
  <2>6. \A n \in 1 .. L : \A x \in Slot : G[n][x] = Step(x, p[n].m)
    OBVIOUS
  <2> HIDE DEF G
  <2>7. PICK f \in [0 .. L -> Slot] : f[0] = root /\ \A n \in 1 .. L : f[n] = G[n][f[n - 1]]
    <3>1. PICK f : Iterates(Slot, root, L, G, f)
      BY <2>3, <2>5, Iterate, Zenon
    <3> QED BY <3>1 DEF Iterates
  <2>8. ASSUME NEW n \in 1 .. L PROVE n - 1 \in 0 .. L /\ f[n - 1] \in Slot /\ f[n] = Step(f[n - 1], p[n].m)
    <3>1. n - 1 \in 0 .. L
      BY <2>3
    <3> QED BY <3>1, <2>6, <2>7
  <2>9. f[L] = kept'
    <3>1. NodeAt(root, p) = f[Len(p)]
      <4>1. Len(p) \in Nat /\ f[0] = root /\ \A n \in 1 .. Len(p) : f[n] = Step(f[n - 1], p[n].m)
        BY <2>3, <2>7, <2>8 DEF L
      <4> QED BY <4>1, NodeAtIs, Zenon
    <3> QED BY <3>1, <2>1 DEF L
  <2>10. \A n \in 0 .. L : f[n] # Null
    <3> SUFFICES ASSUME NEW l \in 0 .. L, f[l] = Null PROVE FALSE
      OBVIOUS
    <3> DEFINE Some == {n \in 0 .. L : n >= l /\ f[n] # Null}
    <3>1. Some \in SUBSET Nat /\ L \in Some
      BY <1>3, <2>3, <2>9
    <3> HIDE DEF Some
    <3>2. PICK n \in Some : \A m \in Some : n <= m
      BY <3>1, Least
    <3>3. n \in 1 .. L /\ n > l /\ f[n] # Null /\ n - 1 \in 0 .. L /\ ~ (n <= n - 1) /\ n - 1 >= l
      BY <3>2, <2>3 DEF Some
    <3>4. f[n - 1] = Null
      BY <3>2, <3>3 DEF Some
    <3>5. f[n] = Step(Null, p[n].m)
      BY <2>8, <3>3, <3>4
    <3> QED BY <3>3, <3>5 DEF Step
  <2> DEFINE w == [n \in 1 .. L + 1 |-> f[n - 1]]
  <2>11. w \in Seq(Addresses) /\ Len(w) = L + 1 /\ \A n \in 1 .. L + 1 : w[n] = f[n - 1]
    <3>1. \A n \in 1 .. L + 1 : f[n - 1] \in Addresses
      <4> TAKE n \in 1 .. L + 1
      <4>1. n - 1 \in 0 .. L
        BY <2>3
      <4> QED BY <4>1, <2>10, <2>7 DEF Slot
    <3>2. L + 1 \in Nat
      BY <2>3
    <3>3. w \in [1 .. L + 1 -> Addresses] /\ \A n \in 1 .. L + 1 : w[n] = f[n - 1]
      BY <3>1
    <3> HIDE DEF w
    <3> QED BY <3>2, <3>3
  <2>12. ASSUME NEW n \in 1 .. L
         PROVE  \E i \in DOMAIN child[w[n]] : child[w[n]][i] = p[n] /\ i \in DOMAIN nodes[w[n]] /\ nodes[w[n]][i] = w[n + 1]
    <3>1. n - 1 \in 0 .. L /\ n \in 0 .. L /\ n \in 1 .. L + 1 /\ n + 1 \in 1 .. L + 1 /\ (n + 1) - 1 = n
      BY <2>3
    <3> DEFINE b == f[n - 1]
               i == CHOOSE i \in Index(b, p[n].m) : TRUE
    <3>2. w[n] = b /\ w[n + 1] = f[n] /\ b # Null /\ f[n] # Null /\ b \in Addresses
      BY <3>1, <2>7, <2>10, <2>11 DEF Slot
    <3>3. f[n] = Step(b, p[n].m)
      BY <2>8
    <3>4. Index(b, p[n].m) # {} /\ nodes[b] # << >> /\ f[n] = nodes[b][i]
      BY <3>2, <3>3 DEF Step
    <3>5. i \in DOMAIN child[b] /\ child[b][i].m = p[n].m
      BY <3>4 DEF Index
    <3>6. i \in DOMAIN nodes[b]
      <4> HIDE DEF b, i
      <4>1. b \in live
        BY <3>2, <3>5 DEF Inv, Forest
      <4>2. Len(nodes[b]) = Len(child[b]) /\ nodes[b] \in Seq(Slot) /\ child[b] \in Seq(Child)
        BY <3>2, <3>4, <4>1 DEF Inv, Forest, Types
      <4> QED BY <3>5, <4>2
    <3>7. PICK j \in DOMAIN child[b] : child[b][j] = p[n]
      <4> DEFINE q == SubSeq(p, 1, n - 1)
      <4>1. NodeAt(root, q) = b
        <5>1. q \in Seq(Child) /\ Len(q) = n - 1 /\ \A j \in 1 .. n - 1 : q[j] = p[j]
          BY <3>1 DEF L
        <5>2. Len(q) \in Nat /\ f[0] = root /\ \A j \in 1 .. Len(q) : f[j] = Step(f[j - 1], q[j].m)
          <6>1. \A j \in 1 .. n - 1 : j \in 1 .. L
            BY <2>3
          <6> QED BY <5>1, <6>1, <2>7, <2>8
        <5> HIDE DEF q
        <5>3. NodeAt(root, q) = f[Len(q)]
          BY <5>2, NodeAtIs, Zenon
        <5> QED BY <5>1, <5>3, Zenon
      <4>2. n \in DOMAIN p
        BY DEF L
      <4> HIDE DEF b
      <4> QED BY <4>1, <4>2, <2>1, <3>2 DEF Compares
    <3>8. i = j
      <4>1. \A x, y \in DOMAIN child[b] : child[b][x].m = child[b][y].m => x = y
        BY <3>2 DEF KeptInv, Distinct
      <4>2. child[b][i].m = child[b][j].m
        BY <3>5, <3>7
      <4> HIDE DEF b, i
      <4> QED BY <3>5, <4>1, <4>2, Zenon
    <3> HIDE DEF i, b, w
    <3> QED BY <3>2, <3>4, <3>5, <3>6, <3>7, <3>8
  <2> HIDE DEF w
  <2>13. Leads(nodes, child, w, p)
    BY <2>11, <2>12 DEF Leads, L
  <2>14. w[1] = root /\ w[Len(w)] = kept'
    BY <2>3, <2>7, <2>9, <2>11
  <2>15. \E n \in 1 .. Len(w) : w[n] = head
    <3>1. /\ live \in SUBSET Addresses /\ root \in live /\ head \in Tree /\ head \in live
          /\ Tree = Reach(nodes, root) /\ Shaped /\ \A x \in live : Depth(x) \in Nat /\ Deep[x] = Depth(x)
      BY <2>2, TreeFacts, Shape DEF Inv, TreeIsOfGame
    <3>2. \A n \in 1 .. Len(w) : w[n] \in live /\ w[n] \in Tree /\ Deep[w[n]] = Deep[root] + n - 1
      BY <3>1, <2>13, <2>14, LeadsDown DEF Shaped
    <3>3. Depth(root) = 1 /\ Deep[root] = 1
      BY <2>2, <3>1 DEF Inv, Spine, Depth
    <3>4. Depth(head) = Len(game) /\ Len(game) \in Nat
      <4>1. todo = << >> /\ game = line[head] \o [i \in DOMAIN todo |-> todo[i].m]
        BY <1>1, <2>2 DEF Inv, AtHead
      <4>2. [i \in DOMAIN todo |-> todo[i].m] = << >>
        BY <4>1
      <4>3. line[head] \in Seq(Keys \cup Moves)
        BY <3>1 DEF Inv, Types
      <4>4. game = line[head]
        BY <4>1, <4>2, <4>3
      <4> QED BY <4>4, <3>1 DEF Depth
    <3>5. Depth(head) >= 1
      BY <3>1, <3>3, Deeper DEF Shaped
    <3> DEFINE n == Len(game)
    <3>6. n \in 1 .. Len(w)
      BY <2>1, <2>3, <2>11, <3>4, <3>5 DEF below, L
    <3> HIDE DEF n
    <3>7. Depth(w[n]) = n
      <4>1. Depth(w[n]) = 1 + n - 1
        BY <3>1, <3>2, <3>3, <3>6
      <4>2. n \in Int
        BY <3>4 DEF n
      <4> QED BY <4>1, <4>2
    <3>8. w[n] = head
      BY <3>1, <3>2, <3>4, <3>6, <3>7, <2>2 DEF Inv, Spine, n
    <3> QED BY <3>6, <3>8
  <2> QED BY <2>13, <2>14, <2>15
<1>4. ASSUME kept' # Null, plain'
      PROVE  \E w : /\ Leads(nodes', child', w, todo') /\ w[1] = head' /\ w[Len(w)] = kept'
                    /\ \E n \in 1 .. Len(w) : w[n] = old'
  <2>1. ~ fresh
    BY <1>1, <1>4 DEF Inv, Forest
  <2>2. nodes' = nodes /\ child' = child /\ head' = root /\ old' = head /\ todo' = p
    BY <1>1, <2>1 DEF tree
  <2> QED BY <2>2, <1>3, <1>4
<1> HIDE DEF below, fresh
<1> QED BY <1>1, <1>2, <1>4 DEF KeptInv

LEMMA WalkKept == ASSUME Inv, KeptInv, Walk PROVE KeptInv'
<1> USE AddressAssumption DEF Null
<1>0. PICK a, c : a = head /\ c = Head(todo)
  OBVIOUS
<1>1. PICK x \in Addresses :
    /\ x # a /\ head' = x
    /\ \A b \in Addresses \ {a, x} : child'[b] = child[b] /\ nodes'[b] = nodes[b]
    /\ child'[a] = <<c>>
    /\ child'[x] = child[x] /\ nodes'[x] = nodes[x]
  <2>1. PICK x \in Addresses :
      /\ x # head /\ head' = x
      /\ \A b \in Addresses \ {head, x} : child'[b] = child[b] /\ nodes'[b] = nodes[b]
      /\ child'[head] = <<Head(todo)>>
      /\ child'[x] = child[x] /\ nodes'[x] = nodes[x]
    BY WalkStep
  <2> QED BY <2>1, <1>0
<1>2. /\ pc = "walk" /\ todo # << >> /\ todo \in Seq(Child) /\ head # Null /\ a \in Addresses
      /\ pc' = pc /\ old' = old /\ kept' = kept /\ plain' = plain
      /\ (seen' = (seen \/ x = old)) /\ todo' = Tail(todo)
  <2>1. pc = "walk" /\ todo # << >> /\ UNCHANGED <<pc, old, kept, plain>>
        /\ (seen' = (seen \/ head' = old)) /\ todo' = Tail(todo)
    BY Zenon DEF Walk, history
  <2> QED BY <1>0, <1>1, <2>1 DEF Inv, Types, AtHead, Slot
<1>3. Distinct'
  <2>1. \A b \in Addresses : b # a => child'[b] = child[b]
    BY <1>1
  <2> QED BY <2>1, <1>1 DEF KeptInv, Distinct
<1>4. ASSUME kept # Null, plain
      PROVE  \E w : /\ Leads(nodes', child', w, todo') /\ w[1] = head' /\ w[Len(w)] = kept
                    /\ seen' \/ \E n \in 1 .. Len(w) : w[n] = old
  <2>1. PICK w : /\ Leads(nodes, child, w, todo) /\ w[1] = a /\ w[Len(w)] = kept
                 /\ seen \/ \E n \in 1 .. Len(w) : w[n] = old
    BY <1>0, <1>2, <1>4 DEF KeptInv
  <2>2. Len(todo) \in Nat \ {0} /\ w \in Seq(Addresses) /\ Len(w) = Len(todo) + 1 /\ c = todo[1] /\ 1 \in 1 .. Len(todo)
    BY <1>0, <1>2, <2>1 DEF Leads
  <2>3. PICK j \in DOMAIN child[a] : child[a][j] = c /\ j \in DOMAIN nodes[a] /\ nodes[a][j] = w[2]
    BY <2>1, <2>2 DEF Leads
  <2>4. w[2] \in Addresses /\ w[2] # Null
    <3>1. 2 \in 1 .. Len(w)
      BY <2>2
    <3> QED BY <3>1, <2>2
  <2>5. j \in Found(a, c)
    <3>1. nodes[a] # << >>
      BY <2>3
    <3> QED BY <3>1, <2>3 DEF Found
  <2>6. PICK i \in Found(a, c) : head' = IF nodes[a][i] = Null THEN Min(Free) ELSE nodes[a][i]
    <3>1. \/ \E i \in Found(head, Head(todo)) :
               Leave(head, Head(todo), IF nodes[head][i] = Null THEN Min(Free) ELSE nodes[head][i])
          \/ Found(head, Head(todo)) = {}
      BY Zenon DEF Walk
    <3> QED BY <3>1, <1>0, <2>5 DEF Leave
  <2>7. i = j
    BY <1>2, <2>3, <2>6 DEF Found, KeptInv, Distinct
  <2>8. x = w[2]
    BY <1>1, <2>3, <2>4, <2>6, <2>7
  <2>9. \A n \in 2 .. Len(w) : w[n] # a /\ w[n] \in Addresses
    <3>1. Shaped /\ a \in live /\ live \subseteq Addresses
      BY <1>0, <1>2, TreeFacts, Shape DEF Inv, TreeIsOfGame
    <3>2. \A n \in 1 .. Len(w) : w[n] \in live /\ Deep[w[n]] = Deep[w[1]] + n - 1
      BY <3>1, <2>1, <1>2, LeadsDown DEF Shaped
    <3>3. Deep[a] \in Nat
      BY <3>1 DEF Shaped, IsForest
    <3> TAKE n \in 2 .. Len(w)
    <3>4. n \in 1 .. Len(w) /\ n \in Int /\ n > 1
      BY <2>2
    <3>5. Deep[w[n]] # Deep[a]
      BY <3>2, <3>3, <3>4, <2>1
    <3> QED BY <3>1, <3>2, <3>4, <3>5
  <2> DEFINE v == Tail(w)
             t == Tail(todo)
  <2>10. v \in Seq(Addresses) /\ Len(v) = Len(w) - 1 /\ \A n \in 1 .. Len(v) : v[n] = w[n + 1]
    BY <2>2
  <2>11. Len(t) = Len(todo) - 1 /\ \A n \in 1 .. Len(t) : t[n] = todo[n + 1]
    BY <1>2, <2>2
  <2> HIDE DEF v, t
  <2>12. \A b \in Addresses : b # a => child'[b] = child[b] /\ nodes'[b] = nodes[b]
    BY <1>1
  <2>13. ASSUME NEW n \in 1 .. Len(t)
         PROVE  \E l \in DOMAIN child'[v[n]] : child'[v[n]][l] = t[n] /\ l \in DOMAIN nodes'[v[n]] /\ nodes'[v[n]][l] = v[n + 1]
    <3>1. n + 1 \in 1 .. Len(todo) /\ n + 1 \in 2 .. Len(w) /\ n \in 1 .. Len(v) /\ n + 1 \in 1 .. Len(v)
      BY <2>2, <2>10, <2>11
    <3>2. v[n] = w[n + 1] /\ v[n + 1] = w[(n + 1) + 1] /\ t[n] = todo[n + 1]
      BY <3>1, <2>10, <2>11
    <3>3. v[n] # a /\ v[n] \in Addresses
      BY <3>1, <3>2, <2>9
    <3>4. PICK l \in DOMAIN child[w[n + 1]] :
            child[w[n + 1]][l] = todo[n + 1] /\ l \in DOMAIN nodes[w[n + 1]] /\ nodes[w[n + 1]][l] = w[(n + 1) + 1]
      BY <3>1, <2>1 DEF Leads
    <3> QED BY <3>2, <3>3, <3>4, <2>12
  <2>14. Leads(nodes', child', v, t)
    <3>1. Len(v) = Len(t) + 1
      BY <2>2, <2>10, <2>11
    <3> QED BY <3>1, <2>10, <2>13, Zenon DEF Leads
  <2>15. v[1] = head' /\ v[Len(v)] = kept
    <3>1. 1 \in 1 .. Len(v) /\ Len(v) \in 1 .. Len(v) /\ Len(v) + 1 = Len(w)
      BY <2>2, <2>10
    <3> QED BY <3>1, <1>1, <2>1, <2>8, <2>10
  <2>16. seen' \/ \E n \in 1 .. Len(v) : v[n] = old
    <3>1. ASSUME ~ seen PROVE \E n \in 1 .. Len(v) : v[n] = old
      <4>1. PICK n \in 1 .. Len(w) : w[n] = old
        BY <2>1, <3>1
      <4>2. n # 1
        BY <3>1, <4>1, <1>0, <1>2, <2>1 DEF KeptInv
      <4>3. n - 1 \in 1 .. Len(v) /\ (n - 1) + 1 = n
        BY <4>2, <2>2, <2>10
      <4> QED BY <4>1, <4>3, <2>10
    <3> QED BY <3>1, <1>2
  <2> QED BY <2>14, <2>15, <2>16, <1>2 DEF t
<1>5. pc' = "walk" /\ (head' = old' => seen')
  BY <1>1, <1>2
<1>6. \E w : kept # Null /\ plain => /\ Leads(nodes', child', w, todo') /\ w[1] = head' /\ w[Len(w)] = kept
                                     /\ seen' \/ \E n \in 1 .. Len(w) : w[n] = old
  BY <1>4
<1> QED BY <1>2, <1>3, <1>5, <1>6 DEF KeptInv

LEMMA FinishKept == ASSUME Inv, KeptInv, FinishReset PROVE KeptInv'
<1> USE AddressAssumption DEF Null
<1>1. /\ pc = "walk" /\ todo = << >> /\ pc' = "expand" /\ kept' = kept /\ plain' = plain
      /\ Stale => child' = [child EXCEPT ![Min(Free)] = << >>]
      /\ ~ Stale => child' = child /\ head' = head
  BY Zenon DEF FinishReset, history, tree
<1>2. Distinct'
  <2>1. ASSUME Stale PROVE \A a \in Addresses : child'[a] = IF a = Min(Free) THEN << >> ELSE child[a]
    BY <1>1, <2>1 DEF Inv, Types
  <2> QED BY <2>1, <1>1 DEF KeptInv, Distinct
<1>3. ASSUME kept # Null, plain PROVE head' = kept
  <2>1. PICK w : /\ Leads(nodes, child, w, todo) /\ w[1] = head /\ w[Len(w)] = kept
                 /\ seen \/ \E n \in 1 .. Len(w) : w[n] = old
    BY <1>1, <1>3 DEF KeptInv
  <2>2. Len(w) = 1
    BY <1>1, <2>1 DEF Leads
  <2>3. head = kept /\ seen
    BY <1>1, <2>1, <2>2 DEF KeptInv
  <2> QED BY <2>3, <1>1 DEF Stale
<1> QED BY <1>1, <1>2, <1>3 DEF KeptInv

LEMMA ExpandRootKept == ASSUME Inv, KeptInv, ExpandRoot PROVE KeptInv'
<1>1. pc' = "search" /\ kept' = Null
      /\ (child' = IF child[head] = << >> THEN [child EXCEPT ![head] = Listed] ELSE child)
  BY Zenon DEF ExpandRoot
<1>2. \A i, j \in DOMAIN Listed : Listed[i].m = Listed[j].m => i = j
  BY MoveAssumption DEF Listed, Plain
<1>3. ASSUME NEW a \in Addresses PROVE child'[a] = child[a] \/ child'[a] = Listed
  BY <1>1 DEF Inv, Types
<1>4. Distinct'
  BY <1>2, <1>3 DEF KeptInv, Distinct
<1> QED BY <1>1, <1>4 DEF KeptInv

LEMMA SearchKept == ASSUME Inv, KeptInv, Search PROVE KeptInv'
<1> USE AddressAssumption DEF Null
<1>1. head # Null
  BY DEF Search
<1>2. PICK a \in Owned(head) : \E i \in DOMAIN child[a] : CreateChildNode(a, i) \/ SetFlag(a, i)
  BY DEF Search
<1>3. PICK i \in DOMAIN child[a] : CreateChildNode(a, i) \/ SetFlag(a, i)
  BY <1>2
<1>4. pc = "search" /\ pc' = pc /\ kept' = kept
  BY <1>3 DEF CreateChildNode, SetFlag, history
<1>5. \A j, l \in DOMAIN Listed : Listed[j].m = Listed[l].m => j = l
  BY MoveAssumption DEF Listed, Plain
<1>6. a \in Addresses
  BY DEF Owned
<1> DEFINE flagged == [child[a] EXCEPT ![i] = [child[a][i] EXCEPT !.f = TRUE]]
<1>7. DOMAIN flagged = DOMAIN child[a] /\ \A j \in DOMAIN flagged : flagged[j].m = child[a][j].m
  <2>1. child[a] \in Seq(Child)
    BY <1>6 DEF Inv, Types
  <2>2. \A j \in DOMAIN child[a] : child[a][j] \in Child
    BY <2>1
  <2>3. \A y \in Child : [y EXCEPT !.f = TRUE].m = y.m
    BY DEF Child
  <2>4. DOMAIN flagged = DOMAIN child[a]
        /\ \A j \in DOMAIN child[a] : flagged[j] = IF j = i THEN [child[a][i] EXCEPT !.f = TRUE] ELSE child[a][j]
    OBVIOUS
  <2> HIDE DEF flagged
  <2> QED BY <2>2, <2>3, <2>4, <1>3
<1>8. ASSUME NEW b \in Addresses
      PROVE  child'[b] = child[b] \/ child'[b] = Listed \/ child'[b] = << >> \/ (b = a /\ child'[b] = flagged)
  <2>1. CASE CreateChildNode(a, i)
    <3>1. \/ child' = [child EXCEPT ![Min(Free)] = Listed]
          \/ child' = [child EXCEPT ![Min(Free)] = << >>, ![a][i].f = TRUE]
      BY <2>1 DEF CreateChildNode
    <3>2. a # Min(Free)
      <4>1. Free # {}
        BY <2>1 DEF CreateChildNode
      <4>2. a \in live
        BY <1>3, <1>6 DEF Inv, Forest
      <4> QED BY <4>1, <4>2, MinFree
    <3>3. CASE child' = [child EXCEPT ![Min(Free)] = Listed]
      BY <3>3 DEF Inv, Types
    <3>4. CASE child' = [child EXCEPT ![Min(Free)] = << >>, ![a][i].f = TRUE]
      BY <3>2, <3>4, <1>6 DEF Inv, Types
    <3> QED BY <3>1, <3>3, <3>4
  <2>2. CASE SetFlag(a, i)
    <3>1. child' = [child EXCEPT ![a][i].f = TRUE]
      BY <2>2 DEF SetFlag
    <3> QED BY <3>1, <1>6 DEF Inv, Types
  <2> QED BY <2>1, <2>2, <1>3
<1> HIDE DEF flagged
<1>9. Distinct'
  <2> SUFFICES ASSUME NEW b \in Addresses, NEW j \in DOMAIN child'[b], NEW l \in DOMAIN child'[b],
                      child'[b][j].m = child'[b][l].m
               PROVE  j = l
    BY DEF Distinct
  <2>1. CASE child'[b] = child[b]
    <3>1. \A x, y \in DOMAIN child[b] : child[b][x].m = child[b][y].m => x = y
      BY DEF KeptInv, Distinct
    <3> QED BY <3>1, <2>1, Zenon
  <2>3. CASE child'[b] = Listed
    BY <2>3, <1>5, Zenon
  <2>4. CASE child'[b] = << >>
    BY <2>4
  <2>5. CASE b = a /\ child'[b] = flagged
    <3>1. \A x, y \in DOMAIN child[a] : child[a][x].m = child[a][y].m => x = y
      BY <1>6 DEF KeptInv, Distinct
    <3>2. j \in DOMAIN child[a] /\ l \in DOMAIN child[a] /\ child[a][j].m = child[a][l].m
      BY <2>5, <1>7
    <3> QED BY <3>1, <3>2, Zenon
  <2> QED BY <2>1, <2>5, <2>3, <2>4, <1>8
<1> QED BY <1>4, <1>9 DEF KeptInv

LEMMA GarbageCollectKept == ASSUME Inv, KeptInv, GarbageCollect PROVE KeptInv'
<1> USE AddressAssumption DEF Null
<1>1. PICK a \in gc :
        /\ child' = [b \in Addresses |-> IF b \in Owned(a) THEN << >> ELSE child[b]]
        /\ nodes' = [b \in Addresses |-> IF b \in Owned(a) THEN << >> ELSE nodes[b]]
        /\ UNCHANGED <<root, head, pc, todo, old, seen, kept, plain>>
  BY Zenon DEF GarbageCollect, walk, history
<1>2. Distinct'
  <2> SUFFICES ASSUME NEW b \in Addresses, NEW x \in DOMAIN child'[b], NEW y \in DOMAIN child'[b],
                      child'[b][x].m = child'[b][y].m
               PROVE  x = y
    BY DEF Distinct
  <2>1. \A i, j \in DOMAIN child[b] : child[b][i].m = child[b][j].m => i = j
    BY DEF KeptInv, Distinct
  <2>2. child'[b] = child[b] \/ child'[b] = << >>
    BY <1>1
  <2>3. CASE child'[b] = child[b]
    BY <2>1, <2>3, Zenon
  <2>4. CASE child'[b] = << >>
    BY <2>4
  <2> QED BY <2>2, <2>3, <2>4
<1>3. ASSUME pc = "walk", NEW w, Leads(nodes, child, w, todo), w[1] = head PROVE Leads(nodes', child', w, todo)
  <2>1. head # Null
    BY <1>3 DEF Inv, AtHead
  <2>2. /\ live \in SUBSET Addresses /\ ClosedIn(nodes, live) /\ root \in live /\ root \in Tops
        /\ Tree = Reach(nodes, root) /\ Tree \subseteq live /\ head \in Tree /\ Shaped
    BY <2>1, TreeFacts, Shape DEF Inv, TreeIsOfGame
  <2>3. Owned(a) = Reach(nodes, a) /\ a \in Tops /\ a # root
    BY <2>1, <2>2, OwnedIsReach DEF Tops, Inv, Forest
  <2>4. Reach(nodes, a) \cap Reach(nodes, root) = {}
    BY <2>2, <2>3, TopsApart DEF Shaped
  <2>5. Reach(nodes, head) \subseteq Tree
    BY <2>2, ReachTrans
  <2>6. \A n \in 1 .. Len(w) : w[n] \in Reach(nodes, head) /\ w[n] \in live
    BY <2>2, <1>3, LeadsDown DEF Shaped, Inv, Types
  <2>7. \A n \in 1 .. Len(w) : child'[w[n]] = child[w[n]] /\ nodes'[w[n]] = nodes[w[n]]
    BY <1>1, <2>2, <2>3, <2>4, <2>5, <2>6
  <2>8. Len(w) = Len(todo) + 1 /\ Len(todo) \in Nat /\ w \in Seq(Addresses)
    BY <1>3 DEF Leads, Inv, Types
  <2>9. \A n \in 1 .. Len(todo) : n \in 1 .. Len(w)
    BY <2>8
  <2> QED BY <1>3, <2>7, <2>8, <2>9 DEF Leads
<1> QED BY <1>1, <1>2, <1>3 DEF KeptInv

LEMMA KeptInit == Init => KeptInv
BY DEF Init, KeptInv, Distinct

LEMMA KeptNext == Inv /\ KeptInv /\ [Next]_vars => KeptInv'
<1> SUFFICES ASSUME Inv, KeptInv, [Next]_vars PROVE KeptInv'
  OBVIOUS
<1>1. ASSUME Go \/ GoOn PROVE \E k \in Keys, p \in Seq(Child) : ResetToPosition(k, p)
  BY <1>1, GoIsReset
<1>2. CASE Go \/ GoOn
  BY <1>1, <1>2, ResetKept
<1>3. CASE UNCHANGED vars
  BY <1>3 DEF vars, tree, walk, history, KeptInv, Distinct
<1> QED BY <1>2, <1>3, WalkKept, FinishKept, ExpandRootKept, SearchKept, GarbageCollectKept DEF Next

(* A game that goes on from the head keeps the node of its position and all *)
(* that was searched below it, if no move on the way there is decided: the  *)
(* walk finds this node through all the cutting, and never replaces it.     *)
THEOREM LineIsKept == Spec => []KeepsPlainLine
<1>1. KeptInv => KeepsPlainLine
  BY DEF KeptInv, KeepsPlainLine
<1> QED BY <1>1, KeptInit, KeptNext, Invariance, PTL DEF Spec
=============================================================================
