------------------------------ MODULE UctSearch ------------------------------
(***************************************************************************)
(* The parallel tree search of the USI engine (usi/UctSearch.cpp): threads *)
(* that make batches of playouts in one shared tree, with virtual losses,  *)
(* a queue of leaves waiting for the neural network, playouts discarded at *)
(* a leaf another thread is evaluating, Win/Lose/Draw flags that travel up *)
(* the tree, and the conditions that end a search.  A later search of the  *)
(* same game starts from a node of the tree it finds.                      *)
(*                                                                         *)
(* A node is a path of moves from the start, so the game is a tree: the    *)
(* constants below describe it.  Floating point is left out: a value is a  *)
(* number of half points, and the child of greatest UCB is any child the   *)
(* code does not exclude.                                                  *)
(***************************************************************************)
EXTENDS Integers, FiniteSets, Sequences, SequencesExt, FiniteSetsExt, Functions

CONSTANTS
  Threads,     (* the searchers of all groups                                *)
  BatchSize,   (* policy_value_batch_maxsize                                 *)
  Nodes,       (* the nodes the game tree may have                           *)
  Root,        (* the node of the position to search                         *)
  Kids,        (* Kids[n]: the nodes after the legal moves of n, in order    *)
  Ply,         (* Ply[n]: the number of moves from the start to n            *)
  Status,      (* Status[n]: what a playout finds when it creates n          *)
  NN,          (* NN[n]: the network's value of n, for its side to move      *)
  Outcome,     (* Outcome[n]: the game value of n, for its side to move      *)
  Halt,        (* po_info.halt; 0: the time decides                          *)
  NodeLimit,   (* uct_node_limit                                             *)
  Ponder,      (* the values limits.ponder may have                          *)
  Stochastic,  (* the option Stochastic_Ponder                               *)
  MaxSearches  (* bound: calls of UctSearchGenmove                           *)

(* isDraw and the mate search decide a new node "win" or "lose" for its     *)
(* side to move, or "draw"; otherwise it is "open" and is expanded.         *)
Statuses == {"win", "lose", "draw", "open"}
Outcomes == {"win", "lose", "none"}
One      == 2                               \* 1.0f in half points

ASSUME ThreadsAssumption == Threads # {} /\ IsFiniteSet(Threads)
ASSUME LimitsAssumption ==
  /\ BatchSize \in Nat \ {0} /\ NodeLimit \in Nat \ {0}
  /\ Halt \in Nat /\ Ponder \in SUBSET BOOLEAN /\ Stochastic \in BOOLEAN
  /\ MaxSearches \in Nat \ {0}
ASSUME TreeAssumption ==
  /\ Root \in Nodes
  /\ Kids \in [Nodes -> Seq(Nodes \ {Root})]
  /\ Status \in [Nodes -> Statuses]
  /\ NN \in [Nodes -> 0 .. One]

(* Outcome is a value of the game: what isDraw and the mate search report   *)
(* is right, a position with no move is lost, one with a move to a lost     *)
(* position is won, and one with only moves to won positions is lost.       *)
ASSUME OutcomeAssumption ==
  /\ Outcome \in [Nodes -> Outcomes]
  /\ \A n \in Nodes :
       /\ Status[n] \in {"win", "lose"} => Outcome[n] = Status[n]
       /\ Status[n] = "open" =>
            /\ (\E i \in DOMAIN Kids[n] : Outcome[Kids[n][i]] = "lose")
                 => Outcome[n] = "win"
            /\ (\A i \in DOMAIN Kids[n] : Outcome[Kids[n][i]] = "win")
                 => Outcome[n] = "lose"

(* No two moves lead to the same node.                                      *)
ASSUME PathsAssumption ==
  \A n, m \in Nodes : \A i \in DOMAIN Kids[n], j \in DOMAIN Kids[m] :
    Kids[n][i] = Kids[m][j] => n = m /\ i = j

KidSet(n) == Range(Kids[n])
Parent(k) == CHOOSE n \in Nodes : k \in KidSet(n)

(* A move adds one ply, so no line comes back to a node.                    *)
ASSUME PlyAssumption ==
  /\ Ply \in [Nodes -> Nat]
  /\ \A n \in Nodes : \A k \in KidSet(n) : Ply[k] = Ply[n] + 1

(* The nodes below h, h included: the least set with h and the children of  *)
(* its members; and the moves from the start to h.                          *)
Subtree == [h \in Nodes |->
  {n \in Nodes : \A S \in SUBSET Nodes :
     h \in S /\ (\A m \in S : KidSet(m) \subseteq S) => n \in S}]
Line(h) == {n \in Nodes \ {Root} : h \in Subtree[n]}

NoThread    == "none"
NotExpanded == -1                            \* NOT_EXPANDED

VARIABLES
  \* the tree; flag, emc and ewin of n are the child_node_t of its parent
  head,        \* the current head of the tree
  created,     \* the nodes that exist: child_nodes[i] is not null
  expanded,    \* the nodes whose child array exists
  rated,       \* the nodes whose children have the nnrate of the network
  flag,        \* flag[n]: the Win, Lose and Draw bits of the move to n
  nmc, nwin,   \* move_count and win of the uct_node_t n
  emc, ewin,   \* move_count and win of the child_node_t of n
  \* one search
  count,       \* po_info.count
  pre,         \* the visits of the head when the search began
  pondering, stop, interruption,
  monitor,     \* the thread that monitors the time: the one that found
               \* init_search_begin_time false
  searches,    \* calls of UctSearchGenmove so far
  onward,      \* the search went on from the move that was answered
  \* the threads
  pc,
  path,        \* path[t]: the playout of t, the nodes after the head
  result,      \* result[t]: the result of the playout
  played,      \* played[t]: playouts made in this batch
  queue,       \* queue[t]: visitor_batch, as the paths of its visitors
  evaled,      \* evaled[t]: the leaves of queue[t] EvalNode is done with
  discard      \* discard[t]: trajectories_batch_discarded

tree    == <<head, created, expanded, rated, flag>>
stats   == <<nmc, nwin, emc, ewin>>
control == <<pre, pondering, stop, interruption, monitor, searches, onward>>
batch   == <<played, queue, evaled, discard>>
vars    == <<tree, stats, count, control, pc, path, result, batch>>

Controls == {"idle", "root", "select", "leaf", "flagged", "descend", "done",
             "eval", "unvl", "backup", "check"}

Init ==
  /\ head = Root /\ created = {Root} /\ expanded = {} /\ rated = {}
  /\ flag = [n \in Nodes |-> {}]
  /\ nmc  = [n \in Nodes |-> NotExpanded] /\ nwin = [n \in Nodes |-> 0]
  /\ emc  = [n \in Nodes |-> 0]           /\ ewin = [n \in Nodes |-> 0]
  /\ count = 0 /\ pre = 0
  /\ pondering = FALSE /\ stop = FALSE /\ interruption = FALSE
  /\ monitor = NoThread /\ searches = 0 /\ onward = FALSE
  /\ pc      = [t \in Threads |-> "idle"]
  /\ path    = [t \in Threads |-> << >>] /\ result  = [t \in Threads |-> 0]
  /\ played  = [t \in Threads |-> 0]     /\ queue   = [t \in Threads |-> << >>]
  /\ evaled  = [t \in Threads |-> 0]     /\ discard = [t \in Threads |-> << >>]

(* Seeded fault: a node counts as evaluated once it has its children.       *)
IsEvaledByChildren(n) == n \in expanded
IsEvaled(n) == nmc[n] # NotExpanded

Idle == \A t \in Threads : pc[t] = "idle"

(* The node a playout is at, and the nodes its trajectory leaves from.      *)
End(p)     == p[Len(p)]
Current(t) == IF path[t] = << >> THEN head ELSE End(path[t])
Origins(p) == {Parent(n) : n \in Range(p)}

-----------------------------------------------------------------------------
ExpandRoot(h, kept) == (expanded \cap kept) \cup {h}

(* UctSearchGenmove up to the start of the threads: reset the tree to h,    *)
(* which keeps what is below h only, and expand h if it has no children.    *)
(* The line to h is found by comparing moves with their flags: where one    *)
(* differs, a new node begins (ReleaseChildrenExceptOne).  What it keeps of *)
(* the line is read again for those flags only.  A game that is not below   *)
(* the head starts with a new tree, which Init describes.                   *)
Genmove(h, found) ==
  LET kept == IF found THEN Subtree[h] \ ({head} \ {h}) ELSE {}
      Reset(f, zero) == [n \in Nodes |-> IF n \in kept THEN f[n] ELSE zero]
  IN
  /\ Idle /\ searches < MaxSearches
  /\ h \in Subtree[head] /\ Kids[h] # << >>
  /\ searches' = searches + 1
  /\ head'     = h
  /\ created'  = (created \cap kept) \cup {h}
  /\ expanded' = ExpandRoot(h, kept)
  /\ rated'    = rated \cap kept
  /\ flag'     = [n \in Nodes |-> IF found /\ n \in Subtree[h] \cup Line(h) THEN flag[n] ELSE {}]
  /\ nmc'      = Reset(nmc, NotExpanded) /\ nwin' = Reset(nwin, 0)
  /\ emc'      = Reset(emc, 0)           /\ ewin' = Reset(ewin, 0)
  /\ pre'      = IF nmc'[h] = NotExpanded THEN 0 ELSE nmc'[h]
  /\ count'    = 0
  /\ monitor'  = NoThread /\ interruption' = FALSE
  /\ pc'       = [t \in Threads |-> "root"]
  /\ UNCHANGED <<path, result, batch>>

(* Seeded fault: the comparison of moves ignores their flags.               *)
GoIgnoringFlags(h) ==
  /\ searches = 0 => h = Root
  /\ Genmove(h, TRUE)
  /\ stop' = FALSE /\ pondering' \in Ponder /\ onward' = FALSE

(* go: the moves of the position command have no flags.                     *)
Go(h) ==
  /\ searches = 0 => h = Root
  /\ Genmove(h, \A n \in Line(h) : flag[n] = {})
  /\ stop' = FALSE /\ pondering' \in Ponder /\ onward' = FALSE

(* Seeded fault: a lost child is taken like any other.                      *)
MaxChildByVisits(c) ==
  FoldLeft(LAMBDA s, k : IF emc[k] > s.max THEN [max |-> emc[k], best |-> k] ELSE s,
           [max |-> 0, best |-> Kids[c][1]], Kids[c]).best

(* select_max_child_node: the move to play, and to follow in the PV.  One   *)
(* pass over the children, with one maximum for those that are won for the  *)
(* opponent, lost for it, and open; won says that all so far are won, lost  *)
(* that one is lost.                                                        *)
MaxChild(c) ==
  LET Take(s, k, taken) == IF taken THEN [s EXCEPT !.best = k, !.max = emc[k]] ELSE s
      Step(s, k) ==
        LET more == emc[k] > s.max IN
        IF "W" \in flag[k] THEN Take(s, k, s.won /\ more)
        ELSE IF "L" \in flag[k]
             THEN [Take(s, k, ~ s.lost \/ more) EXCEPT !.won = FALSE, !.lost = TRUE]
             ELSE [Take(s, k, ~ s.lost /\ more) EXCEPT !.won = FALSE]
  IN  FoldLeft(Step, [best |-> Kids[c][1], max |-> 0, won |-> TRUE, lost |-> FALSE],
               Kids[c]).best

(* Stochastic pondering: once its move is answered, goUct plays it, flags   *)
(* and all, and searches the position of the opponent, also one decided as  *)
(* a draw or a mate.  A search that resigned does not; with                 *)
(* Resign_Threshold 0 none does, so a move that loses may be played.  One   *)
(* go goes on once.                                                         *)
GoOn(h) ==
  /\ Stochastic /\ searches > 0 /\ ~ stop /\ ~ onward
  /\ h = MaxChild(head)
  /\ Genmove(h, TRUE)
  /\ pondering' = TRUE /\ onward' = TRUE /\ UNCHANGED stop

(* The start of ParallelUctSearch: the first thread to take mutex_expand    *)
(* evaluates the root if that was never done, and the first to exchange     *)
(* init_search_begin_time monitors the time.                                *)
EvalRoot(t) ==
  /\ pc[t] = "root"
  /\ nmc'     = IF IsEvaled(head) THEN nmc ELSE [nmc EXCEPT ![head] = 0]
  /\ rated'   = IF IsEvaled(head) THEN rated ELSE rated \cup {head}
  /\ monitor' = IF monitor = NoThread THEN t ELSE monitor
  /\ pc'      = [pc EXCEPT ![t] = "select"]
  /\ UNCHANGED <<head, created, expanded, flag, nwin, emc, ewin, count, pre, pondering, stop, interruption,
                 searches, onward, path, result, batch>>

-----------------------------------------------------------------------------
(* SelectMaxUcbChild: a child lost for its mover is taken at once, a child  *)
(* won for its mover never, unless every child is.  The flags only grow, so *)
(* reading them in one step loses at most a later choice.                   *)
Wins(c)  == {i \in DOMAIN Kids[c] : "W" \in flag[Kids[c][i]]}
Loses(c) == {i \in DOMAIN Kids[c] : "L" \in flag[Kids[c][i]]} \ Wins(c)

Candidates(c) ==
  IF Loses(c) # {} THEN {i \in Loses(c) : \A j \in Loses(c) : i <= j}
  ELSE IF Wins(c) = DOMAIN Kids[c] THEN {1}
  ELSE DOMAIN Kids[c] \ Wins(c)

(* What it finds out about c itself, recorded in the move that led there.   *)
Proved(c) ==
  IF Loses(c) # {} THEN {"W"} ELSE IF Wins(c) = DOMAIN Kids[c] THEN {"L"} ELSE {}

AddVirtualLoss(c, k) ==
  nmc' = [nmc EXCEPT ![c] = @ + 1] /\ emc' = [emc EXCEPT ![k] = @ + 1]

(* One level of UctSearch, under the mutex of its position: select a child, *)
(* add the virtual losses, create the child's node if there is none.        *)
Select(t) ==
  LET c == Current(t) IN
  /\ pc[t] = "select"
  /\ flag' = IF c = head THEN flag ELSE [flag EXCEPT ![c] = @ \cup Proved(c)]
  /\ \E i \in Candidates(c) :
       LET k == Kids[c][i] IN
       /\ AddVirtualLoss(c, k)
       /\ path'    = [path EXCEPT ![t] = Append(@, k)]
       /\ created' = created \cup {k}
       /\ pc'      = [pc EXCEPT ![t] = IF k \in created THEN "descend" ELSE "leaf"]
  /\ UNCHANGED <<head, expanded, rated, nwin, ewin, count, control, result, batch>>

(* The end of one iteration of the loop over the batch.                     *)
NextPlayout(t) ==
  /\ played' = [played EXCEPT ![t] = @ + 1]
  /\ path'   = [path EXCEPT ![t] = << >>]
  /\ pc'     = [pc EXCEPT ![t] = IF played[t] + 1 = BatchSize THEN "eval" ELSE "select"]

(* Seeded fault: a position without moves is won.                           *)
FlagMateWon(n) == CASE Status[n] = "lose" -> "L" [] Status[n] = "draw" -> "D" [] OTHER -> "W"

(* What a playout finds at a node it has just created: a decided node is    *)
(* flagged, an open one is expanded and, unless it is mate, queued.         *)
Decided(n) == Status[n] # "open" \/ Kids[n] = << >>
Flag(n)    == CASE Status[n] = "win"  -> "W" [] Status[n] = "draw" -> "D" [] OTHER -> "L"
Value(f)   == CASE f = "W" -> 0 [] f = "D" -> 1 [] OTHER -> One

LeafDecided(t) ==
  LET n == Current(t) IN
  /\ pc[t] = "leaf" /\ Decided(n)
  /\ flag'     = [flag EXCEPT ![n] = @ \cup {Flag(n)}]
  /\ expanded' = IF Status[n] = "open" THEN expanded \cup {n} ELSE expanded
  /\ result'   = [result EXCEPT ![t] = Value(Flag(n))]
  /\ pc'       = [pc EXCEPT ![t] = "flagged"]
  /\ UNCHANGED <<head, created, rated, stats, count, control, path, batch>>

LeafQueued(t) ==
  LET n == Current(t) IN
  /\ pc[t] = "leaf" /\ ~ Decided(n)
  /\ expanded' = expanded \cup {n}
  /\ queue'    = [queue EXCEPT ![t] = Append(@, path[t])]
  /\ count'    = count + 1
  /\ NextPlayout(t)
  /\ UNCHANGED <<head, created, rated, flag, stats, control, result, evaled, discard>>

(* child_node->SetEvaled() of a decided leaf.                               *)
SetLeafEvaled(t) ==
  /\ pc[t] = "flagged"
  /\ nmc' = [nmc EXCEPT ![Current(t)] = 0]
  /\ pc'  = [pc EXCEPT ![t] = "done"]
  /\ UNCHANGED <<tree, nwin, emc, ewin, count, control, path, result, batch>>

EndsPlayout(n) == flag[n] # {} \/ n \notin expanded \/ Kids[n] = << >>

(* A node that existed, after the mutex is released: the playout is         *)
(* discarded when it is not evaluated yet, ends when it is decided, and     *)
(* goes on from it otherwise.                                               *)
Discard(t) ==
  /\ pc[t] = "descend" /\ ~ IsEvaled(Current(t))
  /\ discard' = [discard EXCEPT ![t] = Append(@, path[t])]
  /\ NextPlayout(t)
  /\ UNCHANGED <<tree, stats, count, control, result, queue, evaled>>

Descend(t) ==
  LET n == Current(t) IN
  /\ pc[t] = "descend" /\ IsEvaled(n)
  /\ IF EndsPlayout(n)
     THEN /\ result' = [result EXCEPT ![t] =
               Value(IF "W" \in flag[n] THEN "W" ELSE IF "L" \in flag[n] THEN "L"
                     ELSE IF "D" \in flag[n] THEN "D" ELSE "L")]
          /\ pc' = [pc EXCEPT ![t] = "done"]
     ELSE pc' = [pc EXCEPT ![t] = "select"] /\ UNCHANGED result
  /\ UNCHANGED <<tree, stats, count, control, path, batch>>

(* UpdateResult on the way up: r is added to the last move of p, 1 - r to   *)
(* the one before, and so on; a node gets what its move gets.               *)
AtDepth(p, i, r) == IF (Len(p) - i) % 2 = 0 THEN r ELSE One - r
MoveGain(n, p, r) == IF \E i \in DOMAIN p : p[i] = n
                     THEN AtDepth(p, CHOOSE i \in DOMAIN p : p[i] = n, r) ELSE 0
NodeGain(n, p, r) == IF \E i \in DOMAIN p : Parent(p[i]) = n
                     THEN AtDepth(p, CHOOSE i \in DOMAIN p : Parent(p[i]) = n, r) ELSE 0

UpdateResults(t) ==
  /\ pc[t] = "done"
  /\ ewin'  = [n \in Nodes |-> ewin[n] + MoveGain(n, path[t], result[t])]
  /\ nwin'  = [n \in Nodes |-> nwin[n] + NodeGain(n, path[t], result[t])]
  /\ count' = count + 1
  /\ NextPlayout(t)
  /\ UNCHANGED <<tree, nmc, emc, control, result, queue, evaled, discard>>

-----------------------------------------------------------------------------
(* EvalNode, one element of the batch at a time.                            *)
EvalNode(t) ==
  LET n == End(queue[t][evaled[t] + 1]) IN
  /\ pc[t] = "eval" /\ evaled[t] < Len(queue[t])
  /\ rated'  = rated \cup {n}
  /\ nmc'    = [nmc EXCEPT ![n] = 0]
  /\ evaled' = [evaled EXCEPT ![t] = @ + 1]
  /\ UNCHANGED <<head, created, expanded, flag, nwin, emc, ewin, count, control, pc, path,
                 result, played, queue, discard>>

(* Seeded fault: the last element is left out.                              *)
EvalDoneEarly(t) ==
  /\ pc[t] = "eval" /\ evaled[t] + 1 >= Len(queue[t])
  /\ pc' = [pc EXCEPT ![t] = "unvl"]
  /\ UNCHANGED <<tree, stats, count, control, path, result, batch>>

EvalDone(t) ==
  /\ pc[t] = "eval" /\ evaled[t] = Len(queue[t])
  /\ pc' = [pc EXCEPT ![t] = "unvl"]
  /\ UNCHANGED <<tree, stats, count, control, path, result, batch>>

MoveDiscards(t, n) == Cardinality({j \in DOMAIN discard[t] : n \in Range(discard[t][j])})
NodeDiscards(t, n) == Cardinality({j \in DOMAIN discard[t] : n \in Origins(discard[t][j])})

(* Seeded fault: the visits of the nodes are not returned.                  *)
SubMoveVirtualLosses(t) ==
  /\ pc[t] = "unvl"
  /\ emc' = [n \in Nodes |-> emc[n] - MoveDiscards(t, n)]
  /\ pc'  = [pc EXCEPT ![t] = "backup"]
  /\ UNCHANGED <<tree, nmc, nwin, ewin, count, control, path, result, batch>>

(* The virtual losses of the discarded playouts are returned.               *)
SubVirtualLosses(t) ==
  /\ pc[t] = "unvl"
  /\ emc' = [n \in Nodes |-> emc[n] - MoveDiscards(t, n)]
  /\ nmc' = [n \in Nodes |-> nmc[n] - NodeDiscards(t, n)]
  /\ pc'  = [pc EXCEPT ![t] = "backup"]
  /\ UNCHANGED <<tree, nwin, ewin, count, control, path, result, batch>>

(* The values of the evaluated leaves are backed up.                        *)
LeafValue(p)    == One - NN[End(p)]
MoveGains(t, n) == SumFunction([j \in DOMAIN queue[t] |-> MoveGain(n, queue[t][j], LeafValue(queue[t][j]))])
NodeGains(t, n) == SumFunction([j \in DOMAIN queue[t] |-> NodeGain(n, queue[t][j], LeafValue(queue[t][j]))])

Backup(t) ==
  /\ pc[t] = "backup"
  /\ ewin' = [n \in Nodes |-> ewin[n] + MoveGains(t, n)]
  /\ nwin' = [n \in Nodes |-> nwin[n] + NodeGains(t, n)]
  /\ pc'   = [pc EXCEPT ![t] = "check"]
  /\ UNCHANGED <<tree, nmc, emc, count, control, path, result, batch>>

(* What InterruptionCheck answers depends on the clock: it may say no (too  *)
(* early) and yes (the time is up) whatever the visits are.                 *)
InterruptionCheck == BOOLEAN

(* The conditions that end ParallelUctSearch, or the next batch.            *)
Exhausted == stop \/ nmc[head] >= NodeLimit
Halted    == Halt > 0 /\ count > Halt

Check(t) ==
  /\ pc[t] = "check"
  /\ IF ~ Exhausted /\ ~ pondering /\ Halt = 0 /\ monitor = t
     THEN interruption' \in InterruptionCheck
     ELSE UNCHANGED interruption
  /\ pc' = [pc EXCEPT ![t] =
       IF Exhausted \/ (~ pondering /\ (Halted \/ interruption'))
       THEN "idle" ELSE "select"]
  /\ played'  = [played  EXCEPT ![t] = 0]
  /\ queue'   = [queue   EXCEPT ![t] = << >>]
  /\ evaled'  = [evaled  EXCEPT ![t] = 0]
  /\ discard' = [discard EXCEPT ![t] = << >>]
  /\ UNCHANGED <<tree, stats, count, pre, pondering, stop, monitor, searches, onward, path, result>>

-----------------------------------------------------------------------------
(* The rest of the engine, while the threads search.                        *)
StopUctSearch ==
  /\ searches > 0 /\ ~ stop
  /\ stop' = TRUE
  /\ UNCHANGED <<tree, stats, count, pre, pondering, interruption, monitor, searches, onward,
                 pc, path, result, batch>>

PonderHit ==
  /\ ~ Idle /\ pondering
  /\ pondering' = FALSE
  /\ UNCHANGED <<tree, stats, count, pre, stop, interruption, monitor, searches, onward,
                 pc, path, result, batch>>

(* A mate search thread on the PV proves the move to n won for its opponent *)
(* (SearchInner, PvMateSearch.cpp); the df-pn search it runs is right.  The *)
(* PV may change while it runs: any move of an evaluated node will do.  |=  *)
(* is not atomic: a Draw bit written meanwhile may be lost.                 *)
PvMateFound(n) ==
  /\ ~ Idle
  /\ n # head /\ Parent(n) \in expanded /\ IsEvaled(Parent(n))
  /\ flag[n] \cap {"W", "L"} = {} /\ Outcome[n] = "win"
  /\ \E lost \in {{}, {"D"}} : flag' = [flag EXCEPT ![n] = (@ \ lost) \cup {"W"}]
  /\ UNCHANGED <<head, created, expanded, rated, stats, count, control, pc, path, result, batch>>

Thread(t) ==
  \/ EvalRoot(t) \/ Select(t) \/ LeafDecided(t) \/ LeafQueued(t) \/ SetLeafEvaled(t)
  \/ Discard(t) \/ Descend(t) \/ UpdateResults(t)
  \/ EvalNode(t) \/ EvalDone(t) \/ SubVirtualLosses(t) \/ Backup(t) \/ Check(t)

(* The bound on the searches is reached.                                    *)
Ended == Idle /\ searches = MaxSearches /\ UNCHANGED vars

Next ==
  \/ \E h \in Nodes : Go(h) \/ GoOn(h)
  \/ \E t \in Threads : Thread(t)
  \/ StopUctSearch \/ PonderHit
  \/ \E n \in Nodes \ {Root} : PvMateFound(n)
  \/ Ended

Spec     == Init /\ [][Next]_vars
FairSpec == Spec /\ \A t \in Threads : WF_vars(Thread(t))

-----------------------------------------------------------------------------
TypeOK ==
  /\ head \in Nodes /\ created \in SUBSET Nodes /\ expanded \in SUBSET Nodes
  /\ rated \in SUBSET Nodes
  /\ flag \in [Nodes -> SUBSET {"W", "L", "D"}]
  /\ nmc \in [Nodes -> Nat \cup {NotExpanded}] /\ emc \in [Nodes -> Nat]
  /\ nwin \in [Nodes -> Nat] /\ ewin \in [Nodes -> Nat]
  /\ count \in Nat /\ pre \in Nat /\ searches \in Nat
  /\ {pondering, stop, interruption, onward} \subseteq BOOLEAN
  /\ monitor \in Threads \cup {NoThread}
  /\ pc \in [Threads -> Controls]
  /\ path \in [Threads -> Seq(Nodes)] /\ result \in [Threads -> 0 .. One]
  /\ played \in [Threads -> 0 .. BatchSize] /\ evaled \in [Threads -> 0 .. BatchSize]
  /\ queue \in [Threads -> Seq(Seq(Nodes))] /\ discard \in [Threads -> Seq(Seq(Nodes))]

(* A Win or Lose flag says what the game is worth, whichever thread set it, *)
(* in whatever order flags travelled up, and a move never has both: the     *)
(* engine reports mates and picks moves from these bits.                    *)
FlagsSound ==
  \A n \in Nodes :
    /\ "W" \in flag[n] => Outcome[n] = "win"
    /\ "L" \in flag[n] => Outcome[n] = "lose"
    /\ "D" \in flag[n] => Status[n] = "draw"

(* A playout selects only at a node that is evaluated and has children, or  *)
(* it would read a child array that is not there, and whose children the    *)
(* network has rated ("evaluate the root node", UctSearch.cpp:1242), or it  *)
(* would search without their probabilities.  There is one exception: when  *)
(* stochastic pondering goes on through a move that was decided as a draw   *)
(* or a mate (main.cpp:592-609), the new head counts as evaluated since     *)
(* SetEvaled of the leaf (:1516), so that no one evaluates it, and playouts *)
(* select at this head by probabilities that are not there.                 *)
HasChildren(n) == n \in expanded /\ Kids[n] # << >>
Skipped(n) == onward /\ n = head /\ Status[n] # "open"
SelectsReady ==
  \A t \in Threads : pc[t] = "select" =>
    /\ HasChildren(Current(t)) /\ IsEvaled(Current(t))
    /\ Current(t) \in rated \/ Skipped(Current(t))

(* A node waiting for its value is in exactly one place: being created, or  *)
(* in the queue of one thread.  It is never evaluated twice, and when all   *)
(* threads have returned none is left behind, or each later search would    *)
(* discard every playout through it.                                        *)
HeldAt(t, n) ==
  {j \in {0} : pc[t] \in {"leaf", "flagged"} /\ Current(t) = n}
  \cup {j \in evaled[t] + 1 .. Len(queue[t]) : End(queue[t][j]) = n}
Waiting(n) == UNION {{t} \X HeldAt(t, n) : t \in Threads}
EvaluatedOnce ==
  \A n \in created \ {head} :
    IF nmc[n] = NotExpanded THEN \E place \in Waiting(n) : Waiting(n) = {place}
    ELSE Waiting(n) = {}

(* At every moment a node has been visited as often as its moves have, and  *)
(* the head as often as playouts were counted, plus those under way and     *)
(* those discarded and not yet returned.                                    *)
NotCounted(t) == (IF path[t] # << >> THEN 1 ELSE 0) +
                 (IF pc[t] \in {"backup", "check"} THEN 0 ELSE Len(discard[t]))
VisitsConserved ==
  /\ \A n \in expanded : nmc[n] # NotExpanded => nmc[n] = SumFunctionOnSet(emc, KidSet(n))
  /\ nmc[head] # NotExpanded =>
       nmc[head] = pre + count + SumFunction([t \in Threads |-> NotCounted(t)])

(* Between searches every visit has left its result: the wins of a node are *)
(* those of its moves, and a move's are those of its node seen from the     *)
(* other side, its evaluation, and its decided value for each visit that    *)
(* went no further.  A draw in which a mate search finds a win later (it    *)
(* does not look for the Draw bit) is a draw only for the visits before.    *)
Fixed(n) == IF "W" \in flag[n] THEN 0 ELSE IF "D" \in flag[n] THEN 1 ELSE One
WinsConserved ==
  Idle => \A n \in created :
    /\ n \in expanded => nwin[n] = SumFunctionOnSet(ewin, KidSet(n))
    /\ n # head =>
         IF Status[n] = "draw" THEN ewin[n] <= emc[n] /\ ("W" \notin flag[n] => ewin[n] = emc[n])
         ELSE IF Decided(n) THEN ewin[n] = emc[n] * Fixed(n)
         ELSE ewin[n] = (One - NN[n]) + (One * nmc[n] - nwin[n])
                        + (emc[n] - 1 - nmc[n]) * Fixed(n)

(* Virtual losses are taken back, and no result is lost or counted twice,   *)
(* however playouts cross, are discarded and meet decided moves.            *)
StatisticsConserved == VisitsConserved /\ WinsConserved

(* A search has ended.                                                      *)
Answered == Idle /\ searches > 0

-----------------------------------------------------------------------------
(* The inductive invariant behind FlagsSound.  A flag is derived at a node  *)
(* from the flags of its children, so the node must be open: one that is    *)
(* decided, by a repetition for example, has another value than its         *)
(* children say.  Only the head may be expanded although it is decided, and *)
(* the head has no flag to set.                                             *)
FlagTypes ==
  /\ head \in Nodes /\ expanded \in SUBSET Nodes /\ searches \in Nat
  /\ flag \in [Nodes -> SUBSET {"W", "L", "D"}]
  /\ pc \in [Threads -> Controls] /\ path \in [Threads -> Seq(Nodes)]

OpenInv == \A n \in expanded : n = head \/ Status[n] = "open"

(* Where the playouts are.                                                  *)
PathInv ==
  /\ searches > 0 => HasChildren(head)
  /\ \A t \in Threads :
       /\ pc[t] # "idle" => searches > 0
       /\ pc[t] \in {"idle", "root", "eval", "unvl", "backup", "check"} => path[t] = << >>
       /\ pc[t] \in {"leaf", "flagged", "descend", "done"} => path[t] # << >>
       /\ pc[t] = "select" => HasChildren(Current(t))

IInv == FlagTypes /\ OpenInv /\ PathInv /\ FlagsSound

(* Every search ends: the playouts a thread discards while another holds    *)
(* the leaf never go on for ever, and a stop, a limit or an interruption    *)
(* seen by one thread is seen by all.                                       *)
SearchEnds == \A t \in Threads : (pc[t] = "root") ~> Idle
=============================================================================
