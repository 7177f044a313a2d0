------------------------------- MODULE Rules -------------------------------
(***************************************************************************)
(* The rules of shogi, written from the rules and not from the code: how   *)
(* the pieces go, what a legal move is, what it does, and when a game      *)
(* repeats itself.  The abstract specification that the modules of the     *)
(* position are held against.  Only the squares, the names of the pieces   *)
(* and the form of a move are shared with them.                            *)
(***************************************************************************)
EXTENDS MoveGen, Sequences

\* How a piece goes, seen by its owner: <<sideways, forwards>>.
Steps ==
   LET forward == {<<0, 1>>}
       diagonal == {<<1, 1>>, <<-1, 1>>, <<1, -1>>, <<-1, -1>>}
       straight == {<<0, 1>>, <<0, -1>>, <<1, 0>>, <<-1, 0>>}
       gold == straight \cup {<<1, 1>>, <<-1, 1>>}
   IN  [pt \in PieceTypes |->
          CASE pt = "Pawn" -> forward
            [] pt = "Knight" -> {<<1, 2>>, <<-1, 2>>}
            [] pt = "Silver" -> forward \cup diagonal
            [] pt \in Golds -> gold
            [] pt = "King" -> straight \cup diagonal
            [] pt = "Horse" -> straight
            [] pt = "Dragon" -> diagonal
            [] OTHER -> {}]
Goes(v, pt) ==
   \/ v \in Steps[pt]
   \/ pt = "Lance" /\ v[1] = 0 /\ v[2] > 0
   \/ pt \in {"Bishop", "Horse"} /\ v[1] # 0 /\ (v[1] = v[2] \/ v[1] = -v[2])
   \/ pt \in {"Rook", "Dragon"} /\ v # <<0, 0>> /\ (v[1] = 0 \/ v[2] = 0)
Vector(c, a, b) == LET n == IF c = "Black" THEN 1 ELSE -1
                   IN  <<n * (File(b) - File(a)), n * (Rank(a) - Rank(b))>>
Span(c, pt, a) == {b \in Sq : Goes(Vector(c, a, b), pt)}
Ranges == [c \in Colors |-> [pt \in PieceTypes |-> [a \in Sq |-> Span(c, pt, a)]]]

\* The piece on a can go to b: nothing stands between (nothing is between the
\* squares of a knight's move).
CanGo(brd, a, b) == /\ b \in Ranges[brd[a][1]][brd[a][2]][a]
                    /\ \A s \in Between[a][b] : s \notin DOMAIN brd
KingOf(brd, c) == CHOOSE s \in DOMAIN brd : brd[s] = <<c, "King">>
Checkers(brd, c) == LET king == KingOf(brd, c)
                    IN  {s \in DOMAIN brd : brd[s][1] # c /\ CanGo(brd, s, king)}

\* What a move does to the board, the hands and the turn.
Played(g, m) ==
   LET c == g.turn
       piece == <<c, IF m.promo THEN Promoted[m.pt] ELSE m.pt>>
       left == IF IsDrop(m) THEN DOMAIN g.board ELSE DOMAIN g.board \ {m.from}
       taken == IF m.to \in DOMAIN g.board THEN HandOf(g.board[m.to][2]) ELSE "None"
   IN  [board |-> [s \in left \cup {m.to} |-> IF s = m.to THEN piece ELSE g.board[s]],
        hand |-> [g.hand EXCEPT ![c] = [h \in HandTypes |->
                    @[h] + (IF h = taken THEN 1 ELSE 0)
                         - (IF IsDrop(m) /\ h = m.pt THEN 1 ELSE 0)]],
        turn |-> Opp(c)]

\* A piece must be able to go on from where it is put.
HasFuture(c, pt, to) == Ranges[c][pt][to] # {}

BoardMoves(g) ==
   LET own == {s \in DOMAIN g.board : g.board[s][1] = g.turn}
       goes(a) == {b \in Sq \ own : CanGo(g.board, a, b)}
       allows(a, b, promo) ==
          LET pt == g.board[a][2]
          IN  IF promo THEN pt \in DOMAIN Promoted /\ (Zone(g.turn, a) \/ Zone(g.turn, b))
                       ELSE HasFuture(g.turn, pt, b)
   IN  UNION {UNION {{BoardMove(g, a, b, promo) : promo \in {x \in BOOLEAN : allows(a, b, x)}} :
                       b \in goes(a)} : a \in own}

\* No second pawn on a file.
MayDrop(g, pt, to) ==
   /\ g.hand[g.turn][pt] > 0
   /\ HasFuture(g.turn, pt, to)
   /\ pt = "Pawn" => ~\E s \in DOMAIN g.board : g.board[s] = <<g.turn, "Pawn">> /\ File(s) = File(to)
Drops(g) == UNION {{DropMove(pt, to) : to \in {t \in Sq \ DOMAIN g.board : MayDrop(g, pt, t)}} :
                     pt \in HandTypes}

\* A move leaves the own king out of the other side's reach ...
Safe(g, m) == Checkers(Played(g, m).board, g.turn) = {}
IsCheck(g, m) == Checkers(Played(g, m).board, Opp(g.turn)) # {}
\* ... and a pawn dropped with check does not leave it without an answer.
HasAnswer(g) == (\E m \in BoardMoves(g) : Safe(g, m)) \/ (\E m \in Drops(g) : Safe(g, m))
LegalMoves(g) ==
   {m \in BoardMoves(g) \cup Drops(g) :
      /\ Safe(g, m)
      /\ IsDrop(m) /\ m.pt = "Pawn" /\ IsCheck(g, m) => HasAnswer(Played(g, m))}
IsMate(g) == Checkers(g.board, g.turn) # {} /\ ~HasAnswer(g)

(***************************************************************************)
(* Repetition, of the sequence of games gs, g the last, and of gives[i],   *)
(* that the move to gs[i] gave check.  The same position with the same     *)
(* side to move is a draw unless one side gave check all the way, which    *)
(* loses; the same board with a larger or smaller hand is a better or a    *)
(* worse one for the side to move.                                         *)
(***************************************************************************)
AtLeast(h1, h2) == \A t \in HandTypes : h1[t] >= h2[t]
Repeats(gs, back) ==
   LET g == gs[Len(gs)]
       e == gs[Len(gs) - back]
   IN  /\ e.turn = g.turn /\ e.board = g.board
       /\ AtLeast(e.hand[g.turn], g.hand[g.turn]) \/ AtLeast(g.hand[g.turn], e.hand[g.turn])
Perpetual(gs, gives, back, c) ==
   \A i \in Len(gs) - back + 1 .. Len(gs) : gs[i].turn # c => gives[i]
Verdict(gs, gives, back) ==
   LET g == gs[Len(gs)]
       e == gs[Len(gs) - back]
   IN  CASE e.hand = g.hand /\ Perpetual(gs, gives, back, g.turn) -> "Lose"
         [] /\ e.hand = g.hand /\ ~Perpetual(gs, gives, back, g.turn)
            /\ Perpetual(gs, gives, back, Opp(g.turn)) -> "Win"
         [] /\ e.hand = g.hand /\ ~Perpetual(gs, gives, back, g.turn)
            /\ ~Perpetual(gs, gives, back, Opp(g.turn)) -> "Draw"
         [] e.hand # g.hand /\ AtLeast(g.hand[g.turn], e.hand[g.turn]) -> "Superior"
         [] OTHER -> "Inferior"

\* The nearest repetition within max plies; four plies are the fewest it takes.
Repetition(gs, gives, max) ==
   LET backs == {n \in 4 .. Len(gs) - 1 : n <= max /\ Repeats(gs, n)}
   IN  IF backs = {} THEN "Not"
       ELSE Verdict(gs, gives, CHOOSE n \in backs : \A k \in backs : n <= k)
=============================================================================
