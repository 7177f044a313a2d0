------------------------------ MODULE NodeTree ------------------------------
(***************************************************************************)
(* The game tree that is kept from one search to the next (usi/Node.h,     *)
(* usi/Node.cpp): nodes that own their children, the walk of               *)
(* ResetToPosition along the moves of the game, which cuts off every other *)
(* branch, and the thread that frees what was cut off.  A node is an       *)
(* address; an address may be used again once it was freed.                *)
(***************************************************************************)
EXTENDS Integers, FiniteSets, Sequences, FiniteSetsExt, Functions

CONSTANTS
  Addresses,   (* 1 .. n: where nodes can be                                 *)
  Keys,        (* the start positions                                        *)
  Legal,       (* the moves ExpandNode lists, in order, in every position    *)
  Unlisted,    (* the legal moves it leaves out: a promotion declined        *)
  MaxLine,     (* bound: moves of a game                                     *)
  MaxGrown     (* bound: nodes in use when the search stops creating more    *)

Moves == Range(Legal) \cup Unlisted
Null  == 0

ASSUME AddressAssumption == Addresses \in SUBSET (Nat \ {Null}) /\ IsFiniteSet(Addresses)
ASSUME MoveAssumption ==    (* no move is listed twice *)
  Legal \in Seq(Range(Legal)) /\ \A i, j \in DOMAIN Legal : Legal[i] = Legal[j] => i = j
ASSUME BoundAssumption   == MaxLine \in Nat /\ MaxGrown \in Nat

(* Wins, losses and draws are bits of a child's move: f says if one is set. *)
Child == [m : Moves, f : BOOLEAN]
Plain(m) == [m |-> m, f |-> FALSE]
Listed == [i \in DOMAIN Legal |-> Plain(Legal[i])]

VARIABLES
  child,     \* child[a]: the child array; its length is child_num
  nodes,     \* nodes[a]: child_nodes, << >> when it is null
  live,      \* the addresses of nodes that were not freed
  root,      \* gamebegin_node_
  head,      \* current_head_
  key,       \* history_starting_pos_key_
  gc,        \* subtrees_to_gc_
  pc,        \* what the go thread does: "search", "walk" or "expand"
  todo,      \* walk: the moves not yet walked
  old, prev, \* walk: old_head and prev_head
  seen,      \* walk: seen_old_head
  goneOn,    \* whether goUct has gone on from the position to the move it chose
  \* history
  line,      \* line[a]: the start position and the moves a was created for
  game,      \* the start position and the moves of the last position command
  kept,      \* the node of that position, if the old tree had one below its
  plain      \* head, and whether no move on the way there had a flag

tree    == <<child, nodes, live, line>>
walk    == <<todo, old, prev, seen>>
history == <<game, kept, plain>>
vars    == <<tree, root, head, key, gc, pc, walk, goneOn, history>>

(* The nodes a owns, a included: the least set with the children of each.   *)
Slots(a)    == {i \in DOMAIN nodes[a] : nodes[a][i] # Null}
Children(a) == {nodes[a][i] : i \in Slots(a)}
Owned(a) ==
  LET closed == {S \in SUBSET Addresses : a \in S /\ \A b \in S : Children(b) \subseteq S}
  IN  {x \in Addresses : \A S \in closed : x \in S}

(* The allocator takes the least free address, one freed before if it can.  *)
Free == Addresses \ live
Init ==
  /\ child = [a \in Addresses |-> << >>] /\ nodes = [a \in Addresses |-> << >>]
  /\ live = {} /\ root = Null /\ head = Null /\ key \in Keys /\ gc = {}
  /\ pc = "search" /\ todo = << >> /\ old = Null /\ prev = Null /\ seen = FALSE /\ goneOn = FALSE
  /\ line = [a \in Addresses |-> << >>]
  /\ game = <<key>> /\ kept = Null /\ plain = TRUE

-----------------------------------------------------------------------------
(* The node at the end of the moves p below a, or Null, and whether the     *)
(* moves on the way have no flags.                                          *)
Index(a, m) == {i \in DOMAIN child[a] : child[a][i].m = m}
Step(a, m) ==
  IF a = Null \/ Index(a, m) = {} \/ nodes[a] = << >> THEN Null
  ELSE nodes[a][CHOOSE i \in Index(a, m) : TRUE]
NodeAt(a, p) == LET at[n \in 0 .. Len(p)] == IF n = 0 THEN a ELSE Step(at[n - 1], p[n].m)
                IN  at[Len(p)]
Compares(a, p) ==
  \A n \in DOMAIN p : LET b == NodeAt(a, SubSeq(p, 1, n - 1)) IN
    b = Null \/ \E i \in DOMAIN child[b] : child[b][i] = p[n]

(* The start of ResetToPosition: another start position drops the tree.     *)
ResetToPosition(k, p) ==
  LET drop  == root # Null /\ key # k
      fresh == root = Null \/ drop
      new   == Min(Free)
      r     == IF fresh THEN new ELSE root
      o     == IF fresh THEN new ELSE head
      below == head # Null /\ ~ drop /\ Len(game) <= Len(p) + 1 /\
               \A n \in 2 .. Len(game) : game[n] = p[n - 1].m
  IN
  /\ pc = "search" /\ (fresh => Free # {})
  /\ IF fresh
     THEN /\ live'  = live \cup {new}
          /\ child' = [child EXCEPT ![new] = << >>] /\ nodes' = [nodes EXCEPT ![new] = << >>]
          /\ line'  = [line EXCEPT ![new] = <<k>>]
          /\ gc'    = IF drop THEN gc \cup {root} ELSE gc
     ELSE UNCHANGED <<tree, gc>>
  /\ root' = r /\ key' = k
  /\ head' = r /\ old' = o /\ prev' = Null /\ seen' = (r = o)
  /\ todo' = p /\ pc' = "walk"
  /\ game' = <<k>> \o [n \in DOMAIN p |-> p[n].m]
  /\ kept' = IF below THEN NodeAt(root, p) ELSE Null
  /\ plain' = (below => Compares(root, p))

(* Seeded faults: the children before the one that is left are forgotten;   *)
(* only the first child is compared.                                        *)
DroppedAfter(a, i) == {nodes[a][j] : j \in {n \in Slots(a) : n > i}}
FoundFirst(a, c) ==
  {i \in DOMAIN child[a] : nodes[a] # << >> /\ child[a][i] = c /\ i = 1}

(* ReleaseChildrenExceptOne(m) at a: one child is left, the one m leads to. *)
(* A new node x is created when there is none.                              *)
Dropped(a, i) == {nodes[a][j] : j \in Slots(a) \ {i}}
Leave(a, c, x) ==
  /\ child' = [child EXCEPT ![a] = <<c>>, ![x] = IF x \in live THEN @ ELSE << >>]
  /\ nodes' = [nodes EXCEPT ![a] = <<x>>, ![x] = IF x \in live THEN @ ELSE << >>]
  /\ line'  = [line EXCEPT ![x] = IF x \in live THEN @ ELSE Append(line[a], c.m)]
  /\ live'  = live \cup {x}
  /\ head'  = x

Found(a, c) ==
  {i \in DOMAIN child[a] : nodes[a] # << >> /\ child[a][i] = c}

Walk ==
  /\ pc = "walk" /\ todo # << >>
  /\ LET a == head
         c == Head(todo)
     IN  /\ \/ \E i \in Found(a, c) :
                 LET x == IF nodes[a][i] = Null THEN Min(Free) ELSE nodes[a][i] IN
                 /\ nodes[a][i] = Null => Free # {}
                 /\ Leave(a, c, x)
                 /\ gc' = gc \cup Dropped(a, i)
            \/ /\ Found(a, c) = {} /\ Free # {}
               /\ Leave(a, c, Min(Free))
               /\ gc' = gc \cup Dropped(a, Null)
         /\ prev' = a
         /\ seen' = (seen \/ head' = old)
  /\ todo' = Tail(todo)
  /\ UNCHANGED <<root, key, pc, old, goneOn, history>>

(* Seeded fault: only going back to the start position is noticed.          *)
StaleAtStart == ~ seen /\ head # old /\ prev = Null
Stale == ~ seen /\ head # old

(* The head is replaced by a new node when it may lack children that were   *)
(* cut off: when the old head was not on the way.                           *)
FinishReset ==
  LET new == Min(Free) IN
  /\ pc = "walk" /\ todo = << >>
  /\ IF Stale
     THEN /\ Free # {}
          /\ live'  = live \cup {new}
          /\ child' = [child EXCEPT ![new] = << >>]
          /\ line'  = [line EXCEPT ![new] = line[head]]
          /\ gc'    = gc \cup {head}
          /\ head'  = new
          /\ IF prev # Null
             THEN nodes' = [nodes EXCEPT ![new] = << >>, ![prev] = <<new>>] /\ UNCHANGED root
             ELSE nodes' = [nodes EXCEPT ![new] = << >>] /\ root' = new
     ELSE UNCHANGED <<tree, root, head, gc>>
  /\ pc' = "expand"
  /\ old' = Null /\ prev' = Null /\ seen' = FALSE
  /\ UNCHANGED <<key, todo, goneOn, history>>

(* ExpandRoot.                                                              *)
ExpandRoot ==
  /\ pc = "expand"
  /\ child' = IF child[head] = << >> THEN [child EXCEPT ![head] = Listed] ELSE child
  /\ pc' = "search" /\ kept' = Null /\ plain' = TRUE
  /\ UNCHANGED <<nodes, live, line, root, head, key, gc, walk, goneOn, game>>

(* position and go: the moves of the command have no flags.                 *)
Go == \E k \in Keys, n \in 0 .. MaxLine : \E p \in [1 .. n -> Moves] :
        ResetToPosition(k, [i \in 1 .. n |-> Plain(p[i])]) /\ goneOn' = FALSE

(* Stochastic pondering: after the moves of the command the one the search  *)
(* chose, with its flags.                                                   *)
GoOn ==
  /\ head # Null /\ ~ goneOn /\ Len(game) <= MaxLine
  /\ \E c \in Range(child[head]) :
       ResetToPosition(key, [i \in 1 .. Len(game) |-> IF i = Len(game) THEN c ELSE Plain(game[i + 1])])
  /\ goneOn' = TRUE

-----------------------------------------------------------------------------
(* What a search does to the tree: create the node of a child, which is     *)
(* decided, and flagged, or gets its own children and may be flagged later. *)
CreateChildNode(a, i) ==
  LET new == Min(Free) IN
  /\ pc = "search" /\ Cardinality(live) < MaxGrown /\ Free # {}
  /\ i \notin Slots(a) /\ Len(line[a]) <= MaxLine
  /\ child' \in {[child EXCEPT ![new] = Listed],
                [child EXCEPT ![new] = << >>, ![a][i].f = TRUE]}
  /\ nodes' = [nodes EXCEPT ![new] = << >>,
                 ![a] = [j \in DOMAIN child[a] |-> IF j = i THEN new
                                                   ELSE IF @ = << >> THEN Null ELSE @[j]]]
  /\ line' = [line EXCEPT ![new] = Append(line[a], child[a][i].m)]
  /\ live' = live \cup {new}
  /\ UNCHANGED <<root, head, key, gc, pc, walk, goneOn, history>>

SetFlag(a, i) ==
  /\ pc = "search" /\ i \in Slots(a) /\ ~ child[a][i].f
  /\ child' = [child EXCEPT ![a][i].f = TRUE]
  /\ UNCHANGED <<nodes, live, line, root, head, key, gc, pc, walk, goneOn, history>>

Search == head # Null /\ \E a \in Owned(head) : \E i \in DOMAIN child[a] :
            CreateChildNode(a, i) \/ SetFlag(a, i)

(* The collector takes a subtree and frees all its nodes.                   *)
GarbageCollect ==
  \E a \in gc : LET freed == Owned(a) IN
    /\ gc'   = gc \ {a}
    /\ live' = live \ freed
    /\ child' = [b \in Addresses |-> IF b \in freed THEN << >> ELSE child[b]]
    /\ nodes' = [b \in Addresses |-> IF b \in freed THEN << >> ELSE nodes[b]]
    /\ line'  = [b \in Addresses |-> IF b \in freed THEN << >> ELSE line[b]]
    /\ UNCHANGED <<root, head, key, pc, walk, goneOn, history>>

Next == Go \/ GoOn \/ Walk \/ FinishReset \/ ExpandRoot \/ Search \/ GarbageCollect
Spec == Init /\ [][Next]_vars

-----------------------------------------------------------------------------
TypeOK ==
  /\ child \in [Addresses -> Seq(Child)] /\ nodes \in [Addresses -> Seq(Addresses \cup {Null})]
  /\ live \in SUBSET Addresses /\ gc \in SUBSET live
  /\ {root, head, old, prev} \subseteq Addresses \cup {Null}
  /\ key \in Keys /\ pc \in {"search", "walk", "expand"} /\ todo \in Seq(Child)
  /\ seen \in BOOLEAN /\ plain \in BOOLEAN

(* Every node that was not freed has one owner: the tree, the collector or  *)
(* its parent.  With none it is lost, with two it is freed twice.           *)
Owners(a) ==
  {<<Null, 0>> : x \in {root} \cap {a}} \cup {<<Null, 1>> : x \in gc \cap {a}}
    \cup UNION {{<<b, i>> : i \in {j \in Slots(b) : nodes[b][j] = a}} : b \in live}
OneOwner ==
  /\ \A a \in live : \E o \in Owners(a) : Owners(a) = {o}
  /\ \A a \in Addresses \ live : Owners(a) = {}
  /\ head # Null => head \in Owned(root)

(* After all the moving and cutting, the statistics under a move are those  *)
(* of the position after that move, and the search starts from the position *)
(* of the command, with all its moves: a node whose other children were cut *)
(* off for a longer game is not used.                                       *)
TreeMatchesMoves ==
  \A a \in live : \A i \in Slots(a) :
    i \in DOMAIN child[a] /\ line[nodes[a][i]] = Append(line[a], child[a][i].m)
HeadIsComplete ==
  pc = "search" /\ head # Null =>
    /\ line[head] = game
    /\ DOMAIN child[head] = DOMAIN Legal
    /\ \A i \in DOMAIN Legal : child[head][i].m = Legal[i]
TreeIsOfGame == TreeMatchesMoves /\ HeadIsComplete

(* A game that goes on from the head keeps the node of its position, if no  *)
(* move on the way is decided.                                              *)
KeepsPlainLine == pc = "expand" /\ kept # Null /\ plain => head = kept
=============================================================================
