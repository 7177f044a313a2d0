-------------------------------- MODULE Dfpn --------------------------------
(***************************************************************************)
(* The df-pn mate search (usi/dfpn.cpp) with its transposition table, on   *)
(* small games.                                                            *)
(*                                                                         *)
(* A game is a graph of boards.  At an OR board the attacker gives check,  *)
(* at an AND board the defender evades.  One kind of piece can be in hand: *)
(* pieces[b] of them are in the hands of the two sides at board b, hand of *)
(* them in the attacker's, so that a move that leaves fewer is a drop and  *)
(* one that leaves more a capture.  near[b] says that the check is given   *)
(* from a square next to the king, or by a knight: no drop interposes.     *)
(* That is what mateMoveIn1Ply looks for.  No evasion gives check itself.  *)
(*                                                                         *)
(* A search starts at any position, possibly after a game in which another *)
(* position occurred three plies earlier.  The table is one cluster: the   *)
(* others are as independent of it as they are of each other.  NewSearch   *)
(* makes every entry of an earlier search an empty one.                    *)
(***************************************************************************)
EXTENDS Integers, Sequences, SequencesExt

CONSTANTS
  OrBoards, AndBoards,
  Roots,         (* the boards that are searched                            *)
  Graphs,        (* the games: records [pieces, succ, near]                  *)
  ClusterSize,   (* entries of a cluster                                     *)
  MaxDepth,      (* kMaxDepth, from a root at ply 0                          *)
  MaxSearchNode

ASSUME BoundAssumption == {ClusterSize, MaxDepth, MaxSearchNode} \subseteq Nat \ {0}

VARIABLES
  game,   \* the game
  won,    \* history: its positions that are mate, by the rules
  root,   \* the position, what was before it, and if by checks only
  tt,     \* the cluster: entries [board, hand, depth, pn, dn, searched]
  stack,  \* the calls of dfpn_inner, the innermost last, see TypeOK
  nodes,  \* searchedNode
  pc, result

vars == <<game, won, root, tt, stack, nodes, pc, result>>

Infinite == 1000    \* kInfinitePnDn
Repeat   == 2000    \* REPEAT, and more than num_searched ever is

Least(S)     == CHOOSE x \in S : \A y \in S : x <= y
Greatest(S)  == CHOOSE x \in S : \A y \in S : y <= x
Lesser(x, y) == IF x < y THEN x ELSE y

-----------------------------------------------------------------------------
(* The game.                                                                *)
IsOr(b) == b \in OrBoards
Drops(b, c)    == game.pieces[c] < game.pieces[b]
Captures(b, c) == game.pieces[c] > game.pieces[b]

(* MovePicker: the checks or the evasions, in the order they are tried.     *)
MovePicker(b, h) ==
  SelectSeq(game.succ[b], LAMBDA c : Drops(b, c) => (IF IsOr(b) THEN h ELSE game.pieces[b] - h) > 0)

(* The attacker's hand after the move.                                      *)
HandAfter(b, h, c) == IF IsOr(b) THEN h + game.pieces[c] - game.pieces[b] ELSE h

(* Mate by the rules, as the least fixed point.                             *)
Positions == UNION {{<<b, h>> : h \in 0..game.pieces[b]} : b \in OrBoards \cup AndBoards}
Mates[n \in Nat] ==
  IF n = 0 THEN {}
  ELSE LET known == Mates[n - 1]
           Leads(p, c) == <<c, HandAfter(p[1], p[2], c)>> \in known
       IN  {p \in Positions : LET moves == ToSet(MovePicker(p[1], p[2])) IN
              IF IsOr(p[1]) THEN \E c \in moves : Leads(p, c) ELSE \A c \in moves : Leads(p, c)}

(* mateMoveIn1Ply: the move, as a sequence of none or one.                  *)
MateMoveIn1Ply(b, h) ==
  LET mates == SelectSeq(MovePicker(b, h),
                 LAMBDA c : game.near[c] /\ MovePicker(c, HandAfter(b, h, c)) = <<>>)
  IN  IF mates = <<>> THEN <<>> ELSE <<Head(mates)>>

(* isDraw of the position <<b, h>> that path leads to: by the nearest       *)
(* occurrence of the board, four plies or more before.  All moves of the    *)
(* attacker in the search are checks, and so are those before it if         *)
(* root.checks.                                                             *)
Before == <<root.old, <<>>, <<>>>>
Path   == Before \o [i \in DOMAIN stack |-> <<stack[i].board, stack[i].hand>>]

IsDraw(path, b, h) ==
  LET same == {i \in 1..Len(path) - 3 : path[i] # <<>> /\ path[i][1] = b}
      last == path[CHOOSE i \in same : \A j \in same : j <= i]
  IN  IF same = {} THEN "Not"
      ELSE IF last[2] = h
           THEN IF same = {1} /\ ~ root.checks THEN "Draw" ELSE IF IsOr(b) THEN "Lose" ELSE "Win"
      ELSE IF (last[2] < h) = IsOr(b) THEN "Superior" ELSE "Inferior"

-----------------------------------------------------------------------------
(* The table.                                                               *)
Proves(e, h)    == e.pn = 0 /\ h >= e.hand /\ e.searched # Repeat
Disproves(e, h) == e.pn # 0 /\ e.dn = 0 /\ e.hand >= h /\ e.searched # Repeat
Open(e)         == e.pn # 0 /\ e.dn # 0

(* LookUpDirect: the entry of the position, or one that decides it by the   *)
(* hands; else a new one, in an empty place or in that of the entry that    *)
(* was searched least.                                                      *)
LookUp(t, b, h, depth) ==
  LET known   == {i \in DOMAIN t : t[i].board = b}
      decides == {i \in known : Proves(t[i], h) \/ Disproves(t[i], h)}
      exact   == {i \in known : t[i].hand = h /\ t[i].depth = depth}
      first   == Least(decides \cup exact)
      rest    == {i \in decides : i > first}
      pns     == {1} \cup {t[i].pn : i \in {j \in known : Open(t[j]) /\ t[j].hand >= h}}
      dns     == {1} \cup {t[i].dn : i \in {j \in known : Open(t[j]) /\ t[j].hand < h}}
      entry(pn, dn) == [board |-> b, hand |-> h, depth |-> depth, pn |-> pn, dn |-> dn, searched |-> 0]
      unproved == {i \in DOMAIN t : t[i].pn # 0}
      old      == IF unproved = {} THEN DOMAIN t ELSE unproved
      victim   == Least({i \in old : \A j \in old : t[i].searched <= t[j].searched})
  IN  IF decides \cup exact # {}
      THEN [tt |-> t, at |-> IF first \in exact /\ rest # {} THEN Least(rest) ELSE first]
      ELSE IF Len(t) < ClusterSize
      THEN [tt |-> Append(t, entry(Greatest(pns), Greatest(dns))),
            at |-> Len(t) + 1]
      ELSE [tt |-> [t EXCEPT ![victim] = entry(1, 1)], at |-> victim]

LookUpChild(t, b, h, c, depth) == LookUp(t, c, HandAfter(b, h, c), depth + 1)

Set(t, i, pn, dn) == [t EXCEPT ![i].pn = pn, ![i].dn = dn]
Repeated(t, i)    == [t EXCEPT ![i].pn = Infinite, ![i].dn = 0, ![i].searched = Repeat]

(* Fault: the pieces that the defender lacks are forgotten.                 *)
MateHandOfDrop(b, h, c) == IF Drops(b, c) THEN 1 ELSE 0

(* The attacker's pieces with which a mate by move c is proved: the piece   *)
(* dropped, and all if the defender, who could interpose, has none.         *)
MateHand(b, h, c) ==
  IF ~ game.near[c] /\ game.pieces[b] = h THEN h ELSE IF Drops(b, c) THEN 1 ELSE 0

(* dp: the pieces with which a position without checks is disproved.        *)
DisproofHand(b, h) == IF h > 0 THEN game.pieces[b] ELSE 0

-----------------------------------------------------------------------------
(* The search of three plies at a new OR node, with its entry at e: each    *)
(* check in turn, until one mates at once or after every evasion.           *)

(* The evasions up to the first after which there is no mate in one ply.    *)
Evade(t, b, h, depth) ==
  FoldLeft(LAMBDA acc, c :
    IF ~ acc.mates THEN acc
    ELSE IF MateMoveIn1Ply(c, h) = <<>> THEN [acc EXCEPT !.mates = FALSE]
    ELSE LET l == LookUpChild(acc.tt, b, h, c, depth)
         IN  [acc EXCEPT !.tt = Set(l.tt, l.at, 0, Infinite + 2)],
    [tt |-> t, mates |-> TRUE], MovePicker(b, h))

ThreePlies(t, e, f) ==
  FoldLeft(LAMBDA acc, c :
    LET h == HandAfter(f.board, f.hand, c)
        l == LookUpChild(acc.tt, f.board, f.hand, c, f.depth)
        evasions == MovePicker(c, h)
        evade    == Evade(l.tt, c, h, f.depth + 1)
    IN  IF acc.mate \/ IsDraw(Path, c, h) = "Win" THEN acc
        ELSE IF evasions = <<>>
        THEN [tt |-> [Set(Set(l.tt, l.at, 0, Infinite + 1), e, 0, Infinite)
                        EXCEPT ![e].hand = MateHand(f.board, f.hand, c)],
              mate |-> TRUE]
        ELSE IF f.depth + 3 > MaxDepth THEN [acc EXCEPT !.tt = Repeated(l.tt, l.at)]
        ELSE IF evade.mates
        THEN [tt |-> Set(Set(evade.tt, l.at, 0, Infinite), e, 0, Infinite), mate |-> TRUE]
        ELSE IF evade.tt[l.at].searched = 0
        THEN [acc EXCEPT !.tt = [Set(evade.tt, l.at, Len(evasions), Len(evasions)) EXCEPT ![l.at].searched = 1]]
        ELSE [acc EXCEPT !.tt = evade.tt],
    [tt |-> t, mate |-> FALSE], MovePicker(f.board, f.hand))

(* The search of two plies at a new AND node: every evasion in turn, until  *)
(* one is found without a mate after it, which decides if no check is left. *)
TwoPlies(t, e, f) ==
  LET moves == MovePicker(f.board, f.hand)
      after == FoldLeft(LAMBDA acc, c :
        LET mate == MateMoveIn1Ply(c, f.hand)
            l    == LookUpChild(acc.tt, f.board, f.hand, c, f.depth)
            hand == DisproofHand(c, f.hand)
        IN  IF acc.at # "mates" THEN acc
            ELSE IF mate # <<>>
            THEN [acc EXCEPT !.tt = [Set(l.tt, l.at, 0, Infinite + 2) EXCEPT ![l.at].hand = MateHand(c, f.hand, mate[1])]]
            ELSE IF MovePicker(c, f.hand) # <<>> THEN [acc EXCEPT !.at = "open"]
            ELSE [at |-> "none",
                  tt |-> [Set(Set(l.tt, l.at, Infinite, 0), e, Infinite, 0) EXCEPT ![l.at].hand = hand,
                            ![e].hand = IF Drops(f.board, c) THEN hand - 1
                                        ELSE IF Captures(f.board, c) /\ @ > hand THEN hand + 1 ELSE @]],
        [tt |-> t, at |-> "mates"], moves)
  IN  IF after.at = "mates"
      THEN [tt |-> Set(after.tt, e, 0, Infinite), decided |-> TRUE]
      ELSE [tt |-> after.tt, decided |-> after.at = "none"]

-----------------------------------------------------------------------------
(* One turn of the loop: the entries of the children are looked up, each    *)
(* when its turn comes, up to the first that decides the node.              *)
Children(f) ==
  FoldLeft(LAMBDA acc, c :
    IF acc.decided THEN acc
    ELSE LET l     == LookUpChild(acc.tt, f.board, f.hand, c, f.depth)
             child == l.tt[l.at]
         IN  [tt      |-> l.tt,
              seen    |-> Append(acc.seen, [move |-> c, entry |-> child]),
              decided |-> IF IsOr(f.board) THEN child.pn = 0 ELSE child.dn = 0],
    [tt |-> [tt EXCEPT ![f.entry].searched = @ + 1], seen |-> <<>>, decided |-> FALSE], MovePicker(f.board, f.hand))

(* The least number, or Infinite, and a sum.                                *)
LeastOf(S)     == Least(S \cup {Infinite})
Total(numbers) == Lesser(FoldLeft(LAMBDA a, n : a + n, 0, numbers), Infinite)

(* The table after the turn, the child that is searched next, and the       *)
(* thresholds for it.                                                       *)
Turn(t, best, thpn, thdn) == [tt |-> t, best |-> best, thpn |-> thpn, thdn |-> thdn]

(* At an OR node pn is the least of the children and dn the sum.  The child *)
(* with the least pn is next, of several the one searched least.            *)
Or(x, f) ==
  LET e    == f.entry
      kids == DOMAIN x.seen
      kid  == [i \in kids |-> x.seen[i].entry]
      own  == x.tt[e].hand
      last == x.seen[Len(x.seen)]
      hand == IF Drops(f.board, last.move)
              THEN IF own > last.entry.hand THEN last.entry.hand + 1 ELSE own
              ELSE IF Captures(f.board, last.move)
              THEN IF last.entry.hand > 0 THEN last.entry.hand - 1 ELSE 0
              ELSE own
      best == CHOOSE i \in kids : \A j \in kids \ {i} :
                \/ kid[i].pn < kid[j].pn
                \/ kid[i].pn = kid[j].pn /\ kid[i].searched < kid[j].searched
                \/ kid[i].pn = kid[j].pn /\ kid[i].searched = kid[j].searched /\ i < j
      dn   == Total([i \in kids |-> kid[i].dn])
      set  == Set(x.tt, e, LeastOf({kid[i].pn : i \in kids}), dn)
      disproof == LeastOf({kid[i].hand : i \in kids})
  IN  IF x.decided
      THEN Turn([Set(x.tt, e, 0, Infinite) EXCEPT ![e].hand = hand], f.board, f.thpn, f.thdn)
      ELSE IF dn = 0 /\ \E i \in kids : kid[i].searched = Repeat
      THEN Turn([set EXCEPT ![e].searched = Repeat], f.board, f.thpn, f.thdn)
      ELSE IF dn = 0
      THEN Turn([set EXCEPT ![e].hand = IF own = 0 THEN 0 ELSE IF disproof < own THEN own ELSE disproof],
                f.board, f.thpn, f.thdn)
      ELSE Turn(set, x.seen[best].move,
                Lesser(f.thpn, LeastOf({kid[i].pn : i \in kids \ {best}}) + 1),
                Lesser(f.thdn - dn + kid[best].dn, Infinite))

(* At an AND node they change their parts, and the last of several children *)
(* with the least dn is next.  The pieces of a proof are those with which   *)
(* all children are proved.                                                 *)
And(x, f) ==
  LET e    == f.entry
      kids == DOMAIN x.seen
      kid  == [i \in kids |-> x.seen[i].entry]
      own  == x.tt[e].hand
      last == x.seen[Len(x.seen)]
      hand == IF Drops(f.board, last.move)
              THEN IF own < last.entry.hand THEN last.entry.hand - 1 ELSE own
              ELSE IF Captures(f.board, last.move) /\ own > last.entry.hand
              THEN last.entry.hand + 1 ELSE own
      none == Set(x.tt, e, Infinite, 0)
      best == CHOOSE i \in kids : \A j \in kids \ {i} :
                kid[i].dn < kid[j].dn \/ (kid[i].dn = kid[j].dn /\ i > j)
      pn   == Total([i \in kids |-> kid[i].pn])
      set  == Set(x.tt, e, pn, LeastOf({kid[i].dn : i \in kids}))
      proof == IF ~ game.near[f.board] /\ game.pieces[f.board] = f.hand THEN f.hand
               ELSE Lesser(own, Greatest({kid[i].hand : i \in kids}))
  IN  IF x.decided
      THEN Turn(IF last.entry.searched = Repeat THEN [none EXCEPT ![e].searched = Repeat]
                ELSE [none EXCEPT ![e].hand = hand],
                f.board, f.thpn, f.thdn)
      ELSE IF pn = 0
      THEN Turn([set EXCEPT ![e].hand = proof], f.board, f.thpn, f.thdn)
      ELSE Turn(set, x.seen[best].move,
                Lesser(f.thpn - pn + kid[best].pn, Infinite),
                Lesser(f.thdn, LeastOf({kid[i].dn : i \in kids \ {best}}) + 1))

-----------------------------------------------------------------------------
Frame(b, h, depth, thpn, thdn) == [board |-> b, hand |-> h, depth |-> depth, thpn |-> thpn, thdn |-> thdn, entry |-> 0]
Top     == stack[Len(stack)]
Caller  == SubSeq(stack, 1, Len(stack) - 1)
Return  == stack' = Caller /\ pc' = IF Len(stack) = 1 THEN "end" ELSE "loop"

(* Any game.                                                                *)
Init ==
  /\ game \in Graphs /\ won = Mates[Cardinality(Positions)]
  /\ root = [board |-> CHOOSE b \in OrBoards : TRUE, hand |-> 0, old |-> <<>>, checks |-> TRUE]
  /\ tt = <<>> /\ stack = <<>> /\ nodes = 0
  /\ pc = "idle" /\ result = FALSE

(* dfpn and dfpn_andnode, up to dfpn_inner: of a position in which the      *)
(* attacker is not in check a mate in one ply is looked for first.          *)
Search(b, h, inCheck, old, checks) ==
  /\ pc = "idle"
  /\ root' = [board |-> b, hand |-> h, old |-> old, checks |-> checks]
  /\ nodes' = 0
  /\ LET mate == MateMoveIn1Ply(b, h)
         l    == LookUpChild(<<>>, b, h, mate[1], 0)
     IN  IF IsOr(b) /\ ~ inCheck /\ mate # <<>>
         THEN tt' = Set(l.tt, l.at, 0, Infinite + 1) /\ result' = TRUE /\ pc' = "done" /\ stack' = <<>>
         ELSE tt' = <<>> /\ result' = FALSE /\ pc' = "enter" /\ stack' = <<Frame(b, h, 0, Infinite, Infinite)>>
  /\ UNCHANGED <<game, won>>

(* No check to give, so no mate with all the pieces there are; or no answer. *)
NoMove(t, i, f) ==
  IF IsOr(f.board) THEN [Set(t, i, Infinite, 0) EXCEPT ![i].hand = DisproofHand(f.board, f.hand)]
                   ELSE Set(t, i, 0, Infinite)

(* A repetition decides the node, but for better pieces of the attacker: it *)
(* is no mate, or, where the side to move would win or lose by its checks   *)
(* the other way round, a proof ("does not come here").                     *)
Draw(f) == IsDraw(SubSeq(Path, 1, Len(Path) - 1), f.board, f.hand)
DrawDecides(f) ==
  Draw(f) \in {"Win", "Lose", "Draw"} \/ (Draw(f) = "Superior" /\ ~ IsOr(f.board))
Drawn(t, i, f) ==
  IF Draw(f) = (IF IsOr(f.board) THEN "Win" ELSE "Lose")
  THEN [Set(t, i, 0, Infinite) EXCEPT ![i].searched = Repeat]
  ELSE Repeated(t, i)

(* What a look of two or three plies says of a node that is new.            *)
FirstLook(t, i, f) ==
  LET three == ThreePlies(t, i, f)
      two   == TwoPlies(t, i, f)
  IN  IF t[i].searched # 0 THEN [tt |-> t, decided |-> FALSE]
      ELSE IF IsOr(f.board) THEN [tt |-> three.tt, decided |-> three.mate] ELSE two

(* dfpn_inner up to its loop.                                               *)
Enter ==
  /\ pc = "enter"
  /\ LET l == LookUp(tt, Top.board, Top.hand, Top.depth)
         f == Top
         after == FirstLook(l.tt, l.at, f)
     IN  IF IsOr(f.board) /\ f.depth + 1 > MaxDepth
         THEN tt' = Repeated(l.tt, l.at) /\ Return
         ELSE IF MovePicker(f.board, f.hand) = <<>>
         THEN tt' = NoMove(l.tt, l.at, f) /\ Return
         ELSE IF after.decided THEN tt' = after.tt /\ Return
         ELSE IF DrawDecides(f) THEN tt' = Drawn(after.tt, l.at, f) /\ Return
         ELSE tt' = after.tt /\ pc' = "loop" /\ stack' = [stack EXCEPT ![Len(stack)].entry = l.at]
  /\ UNCHANGED <<game, won, root, nodes, result>>

(* One turn of the loop, with the call for the best child, or the return.   *)
Loop ==
  /\ pc = "loop"
  /\ \E f \in {Top} : \E seen \in {Children(f)} :
     \E x \in {IF IsOr(f.board) THEN Or(seen, f) ELSE And(seen, f)} :
     LET e == x.tt[f.entry]
     IN  IF nodes >= MaxSearchNode THEN Return /\ UNCHANGED <<tt, nodes>>
         ELSE /\ tt' = x.tt
              /\ IF e.pn >= f.thpn \/ e.dn >= f.thdn THEN Return /\ UNCHANGED nodes
                 ELSE /\ nodes' = nodes + 1
                      /\ stack' = Append(stack,
                           Frame(x.best, HandAfter(f.board, f.hand, x.best), f.depth + 1, x.thpn, x.thdn))
                      /\ pc' = "enter"
  /\ UNCHANGED <<game, won, root, result>>

End ==
  /\ pc = "end"
  /\ LET l == LookUp(tt, root.board, root.hand, 0)
     IN  tt' = l.tt /\ result' = (l.tt[l.at].pn = 0)
  /\ pc' = "done"
  /\ UNCHANGED <<game, won, root, stack, nodes>>

(* dfpn_stop: every call returns at the head of its loop.                   *)
Stop ==
  /\ pc = "loop"
  /\ stack' = <<>> /\ pc' = "end"
  /\ UNCHANGED <<game, won, root, tt, nodes, result>>

Next ==
  \/ \E b \in Roots : \E h \in 0..game.pieces[b] : \E inCheck \in BOOLEAN :
       \/ Search(b, h, inCheck, <<>>, TRUE)
       \/ \E c \in ToSet(game.succ[b]) : \E k \in 0..game.pieces[c] : \E checks \in BOOLEAN :
            MovePicker(c, k) # <<>> /\ Search(b, h, inCheck, <<c, k>>, checks)
  \/ Enter \/ Loop \/ Stop \/ End

Spec == Init /\ [][Next]_vars

-----------------------------------------------------------------------------
(* dfpn_move: the first child that is proved.                               *)
IsProved(l) == l.tt[l.at].pn = 0
Child(c)    == LookUpChild(tt, root.board, root.hand, c, 0)
DfpnMove    == SelectSeq(MovePicker(root.board, root.hand), LAMBDA c : IsProved(Child(c)))

(* get_pv: a child that is proved and no repetition of the game, unless it  *)
(* is mate at once.                                                         *)
PvMove ==
  SelectSeq(DfpnMove, LAMBDA c :
    \/ Child(c).tt[Child(c).at].dn = Infinite + 1
    \/ IsDraw(Before \o <<<<root.board, root.hand>>>>, c, HandAfter(root.board, root.hand, c)) \in {"Not", "Superior"})

(* Every position that the table holds as proved is mate, with the pieces   *)
(* of its entry or more, wherever the search is: proofs are reused between  *)
(* lines of play with other hands, at other depths, after repetitions and   *)
(* cuts, so that one wrong entry makes the engine announce a false mate.    *)
ProofSound ==
  \A i \in DOMAIN tt :
    tt[i].pn = 0 => \A h \in tt[i].hand .. game.pieces[tt[i].board] : <<tt[i].board, h>> \in won

(* When the search has found a mate, dfpn_move gives a move, and it mates,  *)
(* as does the move that get_pv tells.  get_pv has one, or it would read    *)
(* the first move of an empty line (dfpn.cpp:942-946), except where the     *)
(* game had the board after each proved move four plies ago (:878-892).     *)
Found == pc = "done" /\ result /\ IsOr(root.board)
MoveMates ==
  Found => /\ DfpnMove # <<>>
           /\ PvMove = <<>> => root.old # <<>> /\ \A c \in Range(DfpnMove) : c = root.old[1]
           /\ \A c \in {DfpnMove[1]} \cup {m \in Range(PvMove) : m = PvMove[1]} :
                 <<c, HandAfter(root.board, root.hand, c)>> \in won

(* Nothing that a search proves and no move that it announces is short of a *)
(* mate, whatever was searched and proved before.                           *)
ProofsMate == ProofSound /\ MoveMates
=============================================================================
