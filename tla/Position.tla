----------------------------- MODULE Position ------------------------------
(***************************************************************************)
(* A Position that moves are made and taken back on (position.cpp): the    *)
(* bitboards, hands and king squares it updates in place, and the stack of *)
(* StateInfo records that doMove pushes and undoMove pops.  The Zobrist    *)
(* keys are sums of one random number per piece on its square, per piece   *)
(* in a hand and for the turn; they are modelled as what they are sums of, *)
(* updated move by move as the code updates them: no two positions share a *)
(* key.                                                                    *)
(***************************************************************************)
EXTENDS Rules, CheckGen, Mate1Ply, Bitboard

CONSTANTS
  Starts,       \* positions a game is set up in: board, hand, turn, area, plies
  CheckMaxPly   \* how far back isDraw looks

\* area bounds the squares moves may go to and plies the length of the game: a
\* start is explored with these only; the properties are about all the moves.

VARIABLES
  board, hand, turn,  \* byTypeBB_, byColorBB_, piece_; hand_; turn_
  king,               \* kingSquare_
  st,                 \* the StateInfo records, the last one is *st_
  line,               \* the moves made and not taken back
  start               \* the position set() was given

vars == <<board, hand, turn, king, st, line, start>>

Last(p) == p.st[Len(p.st)]
Top == st[Len(st)]
\* The position as the generators see it, with its records.
Pos == [board |-> board, hand |-> hand, turn |-> turn, king |-> king,
        checkers |-> Top.checkersBB, st |-> st]

Key(s) == <<s.boardKey, s.handKey>>
BoardKeyOf(brd, c) == <<{<<s, brd[s]>> : s \in DOMAIN brd}, c>>

\* set: the keys and the checking pieces of a position given from outside.
SetUp(brd, h, c) ==
   LET kings == [k \in Colors |-> CHOOSE s \in DOMAIN brd : brd[s] = <<k, "King">>]
       checks == AttackersToExceptKing([board |-> brd], Opp(c), kings[c])
   IN  [board |-> brd, hand |-> h, turn |-> c, king |-> kings, checkers |-> checks,
        st |-> <<[pliesFromNull |-> 0, continuousCheck |-> [k \in Colors |-> 0],
                  boardKey |-> BoardKeyOf(brd, c), handKey |-> h,
                  checkersBB |-> checks, hand |-> h[c]]>>]

Becomes(p) ==
   /\ board' = p.board /\ hand' = p.hand /\ turn' = p.turn
   /\ king' = p.king /\ st' = p.st
Init ==
   /\ start \in Starts
   /\ line = <<>>
   /\ \E p \in {SetUp(start.board, start.hand, start.turn)} :
         /\ board = p.board /\ hand = p.hand /\ turn = p.turn
         /\ king = p.king /\ st = p.st

(***************************************************************************)
(* doMove and undoMove, of a position p.                                   *)
(***************************************************************************)
\* The bitboards after the side to move has moved a piece.
BoardAfter(p, m) ==
   LET others == (Occ(p) \ {m.from}) \ {m.to}
   IN  [s \in others \cup {m.to} |-> IF s = m.to THEN <<p.turn, PieceTypeTo(m)>> ELSE p.board[s]]
HandAfter(h, us, m) ==
   CASE IsDrop(m) -> [h EXCEPT ![us][m.pt] = @ - 1]
     [] ~IsDrop(m) /\ m.cap # "Empty" -> [h EXCEPT ![us][HandOf(m.cap)] = @ + 1]
     [] OTHER -> h

\* doMove's update of the keys, by what the move says of the pieces.
BoardKeyMade(p, m) ==
   LET pieces == Last(p).boardKey[1]
       left == IF IsDrop(m) THEN pieces
               ELSE (pieces \ {<<m.from, <<p.turn, m.pt>>>>})
                       \ {<<m.to, <<Opp(p.turn), m.cap>>>>}
   IN  <<left \cup {<<m.to, <<p.turn, PieceTypeTo(m)>>>>}, Opp(p.turn)>>
HandKeyMade(p, m) == HandAfter(Last(p).handKey, p.turn, m)

(* Fault: a lance is not thought of.                                        *)
UncoveredByRook(b, us, from) ==
   {s \in RookAttack(from, DOMAIN b) : File(s) = File(from) /\ s \in DOMAIN b /\ b[s] \in
                                        {<<us, "Rook">>, <<us, "Dragon">>}}

\* The pieces of us that check from behind a piece that left from, on board b.
UncoveredOnFile(b, us, from) ==
   {s \in RookAttack(from, DOMAIN b) : File(s) = File(from) /\ s \in DOMAIN b /\ b[s][1] = us}

Uncovered(b, us, from, ksq) ==
   LET own(types) == {s \in DOMAIN b : b[s][1] = us /\ b[s][2] \in types}
       occ == DOMAIN b
   IN  CASE Relation[from][ksq] = "File" -> UncoveredOnFile(b, us, from)
         [] Relation[from][ksq] = "Rank" ->
              {s \in RookAttack(ksq, occ) : Rank(s) = Rank(ksq)} \cap own({"Rook", "Dragon"})
         [] Relation[from][ksq] \in Diagonal ->
              BishopAttack(ksq, occ) \cap own({"Bishop", "Horse"})

CheckersAfter(p, m, gives, b) ==
   LET us == p.turn
       ksq == p.king[Opp(us)]
       direct == CheckBB(p, PieceTypeTo(m)) \cap {m.to}
   IN  CASE ~gives -> {}
         [] gives /\ IsDrop(m) -> {m.to}
         [] gives /\ ~IsDrop(m) ->
              direct \cup (IF IsDiscoveredCheck(m.from, m.to, ksq, DiscoveredCheckBB(p, us))
                             THEN Uncovered(b, us, m.from, ksq) ELSE {})

(* Fault: a quiet move leaves the count of checks as it is.                 *)
ContinuousCheckKept(counts, us, gives) ==
   [counts EXCEPT ![us] = IF gives THEN @ + 2 ELSE @]

ContinuousCheck(counts, us, gives) ==
   [counts EXCEPT ![us] = IF gives THEN @ + 2 ELSE 0]

Made(p, m) ==
   LET us == p.turn
       gives == MoveGivesCheck(p, m)
       after == BoardAfter(p, m)
       held == HandAfter(p.hand, us, m)
       checks == CheckersAfter(p, m, gives, after)
   IN  [board |-> after, hand |-> held, turn |-> Opp(us),
        king |-> IF m.pt = "King" THEN [p.king EXCEPT ![us] = m.to] ELSE p.king,
        checkers |-> checks,
        st |-> Append(p.st,
                 [pliesFromNull |-> Last(p).pliesFromNull + 1,
                  continuousCheck |-> ContinuousCheck(Last(p).continuousCheck, us, gives),
                  boardKey |-> BoardKeyMade(p, m), handKey |-> HandKeyMade(p, m),
                  checkersBB |-> checks, hand |-> held[Opp(us)]])]

DoMove(m) ==
   /\ \E p \in {Made(Pos, m)} : Becomes(p)
   /\ line' = Append(line, m)
   /\ UNCHANGED start

\* What the debug build asserts before and after every move.
IsOK(p) ==
   /\ \A c \in Colors : Cardinality(BB(p, c, {"King"})) = 1
   /\ AttackersTo(p, p.turn, p.king[Opp(p.turn)], Occ(p)) = {}
   /\ Cardinality(p.checkers) <= 2
   /\ Last(p).boardKey = BoardKeyOf(p.board, p.turn) /\ Last(p).handKey = p.hand
   /\ Last(p).hand = p.hand[p.turn]

\* The captured piece comes back from the move, not from the StateInfo.
BoardBefore(us, m) ==
   LET here == DOMAIN board \ {m.to}
   IN  [s \in here \cup (IF IsDrop(m) THEN {} ELSE {m.from})
                   \cup (IF m.cap = "Empty" THEN {} ELSE {m.to}) |->
          CASE s = m.from -> <<us, m.pt>>
            [] s = m.to -> <<Opp(us), m.cap>>
            [] OTHER -> board[s]]
HandBefore(us, m) ==
   CASE IsDrop(m) -> [hand EXCEPT ![us][m.pt] = @ + 1]
     [] ~IsDrop(m) /\ m.cap # "Empty" -> [hand EXCEPT ![us][HandOf(m.cap)] = @ - 1]
     [] OTHER -> hand

UndoMove ==
   LET us == Opp(turn)
       m == line[Len(line)]
   IN  /\ line # <<>>
       /\ board' = BoardBefore(us, m)
       /\ hand' = HandBefore(us, m)
       /\ king' = IF m.pt = "King" THEN [king EXCEPT ![us] = m.from] ELSE king
       /\ turn' = us
       /\ st' = SubSeq(st, 1, Len(st) - 1)
       /\ line' = SubSeq(line, 1, Len(line) - 1)
       /\ UNCHANGED start

(***************************************************************************)
(* The keys a position will have, told before the move is made from the    *)
(* pieces on the board.                                                    *)
(***************************************************************************)
\* The pieces that are no longer where they were.
Leaving(p, m) ==
   IF IsDrop(m) THEN {} ELSE {<<s, p.board[s]>> : s \in {m.from, m.to} \cap Occ(p)}
MovedAfter(p, m) ==
   CASE IsDrop(m) -> m.pt
     [] ~IsDrop(m) /\ m.promo -> Promoted[p.board[m.from][2]]
     [] OTHER -> p.board[m.from][2]

BoardKeyAfter(p, m) ==
   <<(Last(p).boardKey[1] \ Leaving(p, m)) \cup {<<m.to, <<p.turn, MovedAfter(p, m)>>>>}, Opp(p.turn)>>
HandKeyAfter(p, m) ==
   CASE IsDrop(m) -> [Last(p).handKey EXCEPT ![p.turn][m.pt] = @ - 1]
     [] ~IsDrop(m) /\ m.to \in Occ(p) ->
          [Last(p).handKey EXCEPT ![p.turn][HandOf(p.board[m.to][2])] = @ + 1]
     [] OTHER -> Last(p).handKey
KeyAfter(p, m) == <<BoardKeyAfter(p, m), HandKeyAfter(p, m)>>

\* The keys of the opening book: the hand of the side to move only, and everything
\* by exclusive or, which takes out what is in and puts in what is not.
Xor(A, B) == (A \cup B) \ (A \cap B)
HandKeys(h) == {<<t, h[t]>> : t \in HandTypes}
BookKey(p) == [pieces |-> {<<s, p.board[s]>> : s \in Occ(p)}, hand |-> HandKeys(p.hand[p.turn]),
               white |-> p.turn = "White"]
BookKeyAfter(p, key, m) ==
   LET left == IF IsDrop(m) THEN {} ELSE {<<m.from, p.board[m.from]>>}
       taken == IF m.cap = "Empty" THEN {} ELSE {<<m.to, p.board[m.to]>>}
       placed == {<<m.to, <<p.turn, PieceTypeTo(m)>>>>}
   IN  [pieces |-> Xor(Xor(Xor(key.pieces, left), placed), taken),
        hand |-> Xor(Xor(key.hand, HandKeys(p.hand[p.turn])), HandKeys(p.hand[Opp(p.turn)])),
        white |-> ~key.white]

(***************************************************************************)
(* isDraw, and moveIsDraw, which tells before the move is made.            *)
(***************************************************************************)
\* A hand is one number; each count has its bits and above them one that is left
\* free to borrow from, so that one subtraction compares all the counts.
HandShift == [Pawn |-> 0, Lance |-> 6, Knight |-> 10, Silver |-> 14, Gold |-> 18, Bishop |-> 22, Rook |-> 25]
BorrowBit == [Pawn |-> 5, Lance |-> 9, Knight |-> 13, Silver |-> 17, Gold |-> 21, Bishop |-> 24, Rook |-> 27]
HandValue(h) ==
   h["Pawn"] + h["Lance"] * 2^HandShift["Lance"] + h["Knight"] * 2^HandShift["Knight"]
     + h["Silver"] * 2^HandShift["Silver"] + h["Gold"] * 2^HandShift["Gold"]
     + h["Bishop"] * 2^HandShift["Bishop"] + h["Rook"] * 2^HandShift["Rook"]
IsEqualOrSuperior(h, ref) ==
   \A t \in HandTypes : ((HandValue(h) - HandValue(ref)) \div 2^BorrowBit[t]) % 2 = 0
Superiority(h, earlier) ==
   CASE IsEqualOrSuperior(h, earlier) -> "Superior"
     [] ~IsEqualOrSuperior(h, earlier) /\ IsEqualOrSuperior(earlier, h) -> "Inferior"
     [] OTHER -> "Not"

\* The records ss an even number of plies back, from the fourth on, of the
\* position with this board key and key and hand that is n plies after the start.
Found(ss, i, n, boardKey, handKey, h) ==
   LET s == ss[n + 1 - i]
   IN  IF s.boardKey # boardKey THEN "Not"
       ELSE IF s.handKey = handKey THEN "Same" ELSE Superiority(h, s.hand)
Nearest(ss, n, boardKey, handKey, h) ==
   LET hits == {i \in 4 .. n : /\ i % 2 = 0 /\ i <= CheckMaxPly
                               /\ Found(ss, i, n, boardKey, handKey, h) # "Not"}
   IN  IF hits = {} THEN 0 ELSE CHOOSE i \in hits : \A j \in hits : i <= j

IsDraw(p) ==
   LET s == Last(p)
       n == s.pliesFromNull
       i == Nearest(p.st, n, s.boardKey, s.handKey, s.hand)
       found == Found(p.st, i, n, s.boardKey, s.handKey, s.hand)
   IN  CASE i = 0 -> "Not"
         [] i # 0 /\ found # "Same" -> found
         [] i # 0 /\ found = "Same" /\ i <= s.continuousCheck[p.turn] -> "Lose"
         [] i # 0 /\ found = "Same" /\ i > s.continuousCheck[p.turn]
            /\ i <= s.continuousCheck[Opp(p.turn)] -> "Win"
         [] OTHER -> "Draw"

MoveIsDraw(p, m) ==
   LET s == Last(p)
       n == s.pliesFromNull + 1
       bk == BoardKeyAfter(p, m)
       hk == HandKeyAfter(p, m)
       h == p.hand[Opp(p.turn)]
       i == Nearest(p.st, n, bk, hk, h)
       found == Found(p.st, i, n, bk, hk, h)
   IN  CASE i = 0 -> "Not"
         [] i # 0 /\ found # "Same" -> found
         [] i # 0 /\ found = "Same" /\ i <= s.continuousCheck[p.turn] -> "Win"
         [] i # 0 /\ found = "Same" /\ i > s.continuousCheck[p.turn]
            /\ i <= s.continuousCheck[Opp(p.turn)] -> "Lose"
         [] OTHER -> "Draw"

Next == \/ \E m \in Legal(Pos, TRUE) :
              m.to \in start.area /\ Len(line) < start.plies /\ DoMove(m)
        \/ UndoMove

Spec == Init /\ [][Next]_vars

(***************************************************************************)
(* Properties.                                                             *)
(***************************************************************************)
\* The game of the rules: the position after each move of the line.
Game ==
   LET first == [board |-> start.board, hand |-> start.hand, turn |-> start.turn]
       gs[i \in 0 .. Len(line)] == IF i = 0 THEN first ELSE Played(gs[i - 1], line[i])
   IN  [i \in 1 .. Len(line) + 1 |-> gs[i - 1]]
Current == Game[Len(line) + 1]

\* Moves made and taken back in any order leave the position that the rules give
\* for the line: board, hands, turn, king squares, keys, the pieces that give
\* check (also a check uncovered by the move) and the hand of the side to move;
\* and the side that has moved is not in check (isOK).
PositionIsGame ==
   LET g == Current
   IN  /\ [board |-> board, hand |-> hand, turn |-> turn] = g
       /\ \A c \in Colors : king[c] = KingOf(board, c)
       /\ Len(st) = Len(line) + 1 /\ Top.pliesFromNull = Len(line)
       /\ IsOK(Pos)
       /\ Top.checkersBB = Checkers(board, turn)
       /\ Checkers(board, Opp(turn)) = {}

\* Promotions that are never worse than the move without them.
Worse(m) ==
   LET us == turn
   IN  /\ ~m.promo /\ ~IsDrop(m) /\ m.pt \in DOMAIN Promoted
       /\ Zone(us, m.from) \/ Zone(us, m.to)
       /\ m.pt \in {"Pawn", "Bishop", "Rook"} \/ (m.pt = "Lance" /\ Row(us, m.to) = 1)

\* The bitboards of the position a game is set up in.
BitboardsAreSets ==
   Len(line) = 0 =>
      /\ WordsAreSets(Of(Pos, "Black"), Occ(Pos)) /\ WordsAreSets(Of(Pos, "White"), Of(Pos, "Black"))
      /\ SlidersSee(Occ(Pos)) /\ KingStepsAreSlides
      /\ \A c \in Colors : PawnsShift(c, BB(Pos, c, {"Pawn"}))

\* generateMoves<Legal> gives every legal move of the rules and no other, but for
\* the declined promotions that are never better; LegalAll also gives these when
\* the side to move is in check.  generateMoves<CheckAll> gives every legal move
\* that gives check and no other, and Check all but the declined promotions; in
\* check the mate searches filter them by moveIsPseudoLegal.  moveGivesCheck tells
\* the checks from the others.  The words of the bitboards, looked at where a game is
\* set up, give the same squares and the same attacks as the sets that all this is
\* said of.
MovesByRules ==
   /\ BitboardsAreSets
   /\ \E g \in {Current} : \E rules \in {LegalMoves(g)} :
      \E notWorse \in {{m \in rules : ~Worse(m)}}, checks \in {{m \in rules : IsCheck(g, m)}} :
         /\ \A all \in BOOLEAN :
               /\ Legal(Pos, all) = IF all /\ Top.checkersBB # {} THEN rules ELSE notWorse
               /\ {m \in Check(Pos, all) : Top.checkersBB # {} => MoveIsPseudoLegal(Pos, m)}
                     = IF all THEN checks ELSE checks \cap notWorse
         /\ \A m \in rules : MoveGivesCheck(Pos, m) <=> m \in checks

\* The keys told before a move, those of the book too, are those it leads to.  isDraw
\* finds the nearest repetition of the game and judges it by who gave check all the
\* way.  moveIsDraw foretells the same, from the count of checks before the move,
\* unless the position to come is the one the game was set up in: the check that
\* stood there was not counted.
RepetitionByRules ==
   LET gs == Game
       gives == [i \in 1 .. Len(gs) |-> IF i = 1 THEN FALSE ELSE IsCheck(gs[i - 1], line[i - 1])]
       g == gs[Len(gs)]
       after(m) == Append(gs, Played(g, m))
   IN  /\ \A m \in Legal(Pos, TRUE) : \E next \in {Made(Pos, m)} :
             /\ KeyAfter(Pos, m) = Key(Last(next))
             /\ BookKeyAfter(Pos, BookKey(Pos), m) = BookKey(next)
       /\ IsDraw(Pos) = Repetition(gs, gives, CheckMaxPly)
       /\ \A m \in IF Len(line) < 3 THEN {} ELSE Legal(Pos, TRUE) :
             Played(g, m) # gs[1] =>
                MoveIsDraw(Pos, m) = Repetition(after(m), Append(gives, IsCheck(g, m)), CheckMaxPly)
=============================================================================
