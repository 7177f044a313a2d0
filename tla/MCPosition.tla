---------------------------- MODULE MCPosition -----------------------------
EXTENDS MateSearch, Notation

At(f, r) == (f - 1) * 9 + (r - 1)
Area(fs, rs) == {At(f, r) : f \in fs, r \in rs}
All == Area(1 .. 9, 1 .. 9)
\* Pieces are given as <<type, file, rank>>, the black ones and the white ones.
Setup(black, white) ==
   [s \in {At(x[2], x[3]) : x \in black \cup white} |->
      IF \E x \in black : At(x[2], x[3]) = s
        THEN <<"Black", (CHOOSE x \in black : At(x[2], x[3]) = s)[1]>>
        ELSE <<"White", (CHOOSE x \in white : At(x[2], x[3]) = s)[1]>>]
Hold(types) == [t \in HandTypes |-> IF t \in types THEN 1 ELSE 0]
Given(black, white, inBlack, inWhite, to, area, plies) ==
   [board |-> Setup(black, white), hand |-> [Black |-> Hold(inBlack), White |-> Hold(inWhite)],
    turn |-> to, area |-> area, plies |-> plies]

\* Pins, uncovered and double checks, captures that uncover.
Uncovering ==
   Given({<<"King", 9, 9>>, <<"Gold", 9, 5>>, <<"Rook", 5, 9>>, <<"Silver", 5, 5>>,
          <<"Bishop", 1, 5>>, <<"Knight", 3, 3>>, <<"Lance", 8, 9>>},
         {<<"King", 5, 1>>, <<"Rook", 9, 1>>, <<"Pawn", 8, 3>>, <<"Pawn", 4, 4>>, <<"Gold", 4, 1>>},
         {"Pawn"}, {"Pawn"}, "Black", All, 1)
\* Pieces that stand on a line with the king before a lance, a rook and a bishop.
Lined ==
   Given({<<"King", 9, 9>>, <<"Lance", 5, 9>>, <<"Gold", 5, 6>>, <<"Dragon", 9, 3>>,
          <<"Pawn", 7, 3>>, <<"Horse", 3, 5>>, <<"Knight", 4, 4>>},
         {<<"King", 5, 3>>, <<"Silver", 5, 2>>, <<"Pawn", 4, 2>>, <<"Rook", 9, 1>>},
         {"Lance", "Knight"}, {}, "Black", All, 1)
\* Every kind of promotion, taken and declined, with and without check.
PromotingAll ==
   Given({<<"King", 8, 8>>, <<"Pawn", 3, 4>>, <<"Pawn", 6, 2>>, <<"Lance", 2, 5>>, <<"Lance", 5, 4>>,
          <<"Knight", 7, 4>>, <<"Knight", 1, 5>>, <<"Silver", 8, 3>>, <<"Bishop", 9, 1>>,
          <<"Rook", 4, 6>>},
         {<<"King", 4, 1>>, <<"Pawn", 5, 2>>, <<"Pawn", 2, 3>>, <<"Silver", 4, 3>>},
         {}, {}, "Black", All, 1)
\* Sliding pieces that check by going to a line, from inside and outside the zone.
Sliding ==
   Given({<<"King", 9, 9>>, <<"Bishop", 7, 2>>, <<"Rook", 1, 3>>, <<"Horse", 8, 6>>,
          <<"Dragon", 6, 9>>, <<"Silver", 3, 6>>},
         {<<"King", 4, 4>>, <<"Pawn", 4, 5>>, <<"Gold", 6, 6>>, <<"Knight", 5, 3>>},
         {"Bishop", "Rook", "Gold", "Silver"}, {"Pawn"}, "Black", All, 1)
\* A pawn drop that mates, one that a piece that is pinned cannot take, and mates
\* by the other drops.
PawnDropMate(pinned) ==
   Given({<<"King", 9, 9>>, <<"Gold", 2, 3>>, <<"Knight", 3, 3>>}
           \cup (IF pinned THEN {<<"Rook", 9, 1>>} ELSE {}),
         {<<"King", 1, 1>>, <<"Silver", 2, 1>>, <<"Pawn", 3, 2>>},
         {"Pawn", "Lance", "Silver", "Knight"}, {}, "Black", All, 1)
\* A dragon that gives up a pin by the move that checks.
PinGivenUp ==
   Given({<<"King", 9, 9>>, <<"Dragon", 1, 3>>, <<"Pawn", 2, 3>>, <<"Rook", 8, 8>>},
         {<<"King", 1, 1>>, <<"Gold", 1, 2>>, <<"Pawn", 8, 4>>}, {}, {}, "Black", All, 1)
\* Mates by the moves of the smaller pieces, one of them pinned.
SmallMates ==
   Given({<<"King", 5, 9>>, <<"Gold", 7, 3>>, <<"Silver", 4, 4>>, <<"Knight", 7, 4>>,
          <<"Lance", 3, 8>>, <<"Pawn", 5, 4>>, <<"ProPawn", 3, 3>>},
         {<<"King", 5, 2>>, <<"Gold", 4, 1>>, <<"Lance", 6, 1>>, <<"Bishop", 1, 7>>},
         {"Gold"}, {"Pawn"}, "Black", Area(3 .. 7, 1 .. 5), 2)
\* Mates by a knight, a lance and a pawn without promotion, of kings shut in.
KnightMate ==
   Given({<<"King", 9, 9>>, <<"Gold", 3, 3>>, <<"Knight", 1, 5>>},
         {<<"King", 1, 1>>, <<"Pawn", 1, 2>>, <<"Silver", 2, 1>>}, {"Knight"}, {}, "Black", All, 1)
LanceMate ==
   Given({<<"King", 9, 9>>, <<"Lance", 5, 6>>, <<"Gold", 4, 4>>, <<"Gold", 6, 4>>},
         {<<"King", 5, 2>>, <<"Pawn", 5, 3>>, <<"Knight", 4, 2>>, <<"Knight", 6, 2>>,
          <<"Silver", 5, 1>>, <<"Lance", 4, 1>>, <<"Lance", 6, 1>>}, {}, {}, "Black", All, 1)
PawnMate ==
   Given({<<"King", 9, 9>>, <<"Pawn", 1, 7>>, <<"Gold", 2, 7>>},
         {<<"King", 1, 5>>, <<"Knight", 1, 4>>, <<"Lance", 2, 4>>, <<"Pawn", 2, 5>>},
         {}, {}, "Black", All, 1)
\* In check: by a dragon from a diagonal, by a lance, by two pieces at once.
DragonCheck ==
   Given({<<"King", 5, 5>>, <<"Pawn", 4, 5>>, <<"Silver", 5, 4>>, <<"Gold", 6, 6>>},
         {<<"King", 1, 1>>, <<"Dragon", 4, 4>>, <<"Bishop", 2, 2>>, <<"Pawn", 6, 4>>},
         {"Gold"}, {"Knight"}, "Black", Area(3 .. 7, 3 .. 7), 2)
FarCheck ==
   Given({<<"King", 5, 9>>, <<"Gold", 4, 8>>, <<"Silver", 6, 7>>, <<"Rook", 1, 6>>, <<"Pawn", 7, 7>>},
         {<<"King", 5, 1>>, <<"Lance", 5, 3>>, <<"Bishop", 2, 6>>, <<"Horse", 9, 5>>},
         {"Pawn", "Knight", "Lance"}, {"Gold"}, "Black", All, 1)
DoubleCheck ==
   Given({<<"King", 5, 9>>, <<"Gold", 6, 9>>, <<"Bishop", 2, 2>>},
         {<<"King", 9, 1>>, <<"Rook", 5, 1>>, <<"Knight", 4, 7>>, <<"ProSilver", 7, 7>>},
         {"Gold"}, {"Silver"}, "Black", All, 1)

\* Repetition: quiet moves, checks and both (the white king and the black rook on the
\* files 1 and 2, and gold generals with two squares each).
Repeating ==
   Given({<<"King", 9, 9>>, <<"Rook", 2, 9>>, <<"Gold", 7, 7>>}, {<<"King", 1, 1>>, <<"Gold", 7, 1>>},
         {}, {}, "Black",
         {At(1, 9), At(2, 9), At(1, 1), At(2, 1), At(7, 7), At(7, 6), At(7, 1), At(7, 2)}, 8)
\* The same, set up in check.
PerpetualSetUp ==
   Given({<<"King", 9, 9>>, <<"Rook", 1, 9>>}, {<<"King", 1, 1>>}, {}, {}, "White",
         {At(1, 9), At(2, 9), At(1, 1), At(2, 1)}, 8)
\* The board repeats itself with other hands.
Giving ==
   Given({<<"King", 9, 9>>}, {<<"King", 9, 1>>, <<"Gold", 4, 1>>}, {"Pawn", "Lance"}, {}, "Black",
         {At(4, 1), At(4, 2)}, 4)
Taking ==
   Given({<<"King", 9, 9>>, <<"Gold", 4, 1>>}, {<<"King", 9, 1>>, <<"Lance", 4, 2>>},
         {}, {"Pawn", "Lance"}, "Black", {At(4, 1), At(4, 2)}, 5)

\* The same start with the sides exchanged.
Turned(s) ==
   [board |-> [q \in {80 - x : x \in DOMAIN s.board} |->
                 <<Opp(s.board[80 - q][1]), s.board[80 - q][2]>>],
    hand |-> [c \in Colors |-> s.hand[Opp(c)]],
    turn |-> Opp(s.turn), area |-> {80 - x : x \in s.area}, plies |-> s.plies]
BlackStarts ==
   {Uncovering, Lined, PromotingAll, Sliding, PawnDropMate(TRUE), PawnDropMate(FALSE), PinGivenUp,
    SmallMates, KnightMate, LanceMate, PawnMate, DragonCheck, FarCheck, DoubleCheck,
    Repeating, PerpetualSetUp, Giving, Taking}
\* All forty pieces: the position games start from, and one late in a game with
\* promoted pieces on both sides and hands of every kind, more pawns than eight.
HomeRank == <<"Lance", "Knight", "Silver", "Gold", "King", "Gold", "Silver", "Knight", "Lance">>
Home(r1, r3) == {<<HomeRank[f], f, r1>> : f \in 1 .. 9} \cup {<<"Pawn", f, r3>> : f \in 1 .. 9}
StartPosition ==
   Given(Home(9, 7) \cup {<<"Bishop", 8, 8>>, <<"Rook", 2, 8>>},
         Home(1, 3) \cup {<<"Bishop", 2, 2>>, <<"Rook", 8, 2>>},
         {}, {}, "Black", Area(2 .. 3, 3 .. 7) \cup Area(7 .. 8, 2 .. 8), 2)
LatePosition ==
   [Given({<<"King", 8, 8>>, <<"Gold", 7, 8>>, <<"Dragon", 2, 2>>, <<"ProKnight", 5, 2>>, <<"Lance", 9, 9>>,
           <<"ProLance", 1, 3>>, <<"Pawn", 9, 7>>, <<"ProPawn", 6, 1>>, <<"Silver", 6, 5>>, <<"Knight", 3, 6>>},
          {<<"King", 3, 4>>, <<"Gold", 4, 3>>, <<"ProSilver", 7, 6>>, <<"Horse", 1, 9>>, <<"Pawn", 2, 4>>,
           <<"ProPawn", 4, 8>>, <<"Silver", 3, 1>>, <<"Lance", 9, 1>>}, {}, {}, "Black", Area(2 .. 5, 2 .. 4), 2)
      EXCEPT !.hand = [Black |-> [Hold({"Gold", "Silver", "Rook", "Knight"}) EXCEPT !["Pawn"] = 11],
                       White |-> [Hold({"Gold", "Bishop", "Knight", "Lance"}) EXCEPT !["Pawn"] = 3]]]
\* Longer lines of the same, around the kings.
Around(s, area, plies) == [s EXCEPT !.area = area, !.plies = plies]
LongerStarts ==
   {Around(Uncovering, Area(4 .. 6, 1 .. 3), 3), Turned(Around(Lined, Area(4 .. 6, 2 .. 4), 3)),
    Around(PromotingAll, Area(2 .. 5, 1 .. 3), 2), Turned(Around(Sliding, Area(3 .. 6, 2 .. 5), 2)),
    Around(FarCheck, Area(4 .. 6, 1 .. 3) \cup Area(4 .. 6, 7 .. 9), 2),
    Turned(Around(PinGivenUp, Area(1 .. 2, 1 .. 4), 4)),
    Around(DoubleCheck, Area(4 .. 6, 7 .. 9), 3)}
\* Mates in three and five plies, one of them by an answer to a check, and perpetual
\* checks, on the way: looked at before and after each move.
MateIn5 ==
   Given({<<"King", 9, 9>>, <<"Lance", 2, 8>>}, {<<"King", 1, 2>>, <<"Gold", 2, 1>>, <<"Pawn", 1, 3>>},
         {"Gold", "Silver"}, {}, "Black", Area(1 .. 2, 1 .. 3), 2)
MateIn3 ==
   Given({<<"King", 9, 9>>, <<"Gold", 3, 3>>}, {<<"King", 1, 1>>, <<"Silver", 2, 1>>, <<"Pawn", 1, 3>>},
         {"Gold", "Pawn"}, {"Pawn"}, "White", Area(1 .. 3, 1 .. 4), 2)
MateByAnswer ==
   Given({<<"King", 3, 5>>, <<"Dragon", 5, 3>>}, {<<"King", 1, 1>>, <<"Silver", 2, 1>>, <<"Lance", 3, 2>>},
         {"Gold"}, {"Knight"}, "Black", Area(1 .. 5, 1 .. 5), 1)
MCSearched == {MateIn5, Turned(MateIn5), Turned(MateIn3), MateByAnswer, Repeating, PerpetualSetUp}
FullStarts == {StartPosition, LatePosition, Turned(LatePosition)}
MCStarts == FullStarts \cup BlackStarts \cup {Turned(s) : s \in BlackStarts} \cup LongerStarts \cup MCSearched
=============================================================================
