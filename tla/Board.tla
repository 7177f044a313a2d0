------------------------------- MODULE Board -------------------------------
(***************************************************************************)
(* Squares, attack tables and the questions a Position answers about its   *)
(* board: init.cpp, square.hpp, bitboard.hpp and the attack part of        *)
(* position.cpp.  A bitboard is the set of its squares; byTypeBB_,         *)
(* byColorBB_, goldsBB_ and piece_ are one function from the occupied      *)
(* squares to <<color, piece type>>.                                       *)
(***************************************************************************)
EXTENDS Integers, FiniteSets

Colors == {"Black", "White"}
Opp(c) == IF c = "Black" THEN "White" ELSE "Black"

HandTypes == {"Pawn", "Lance", "Knight", "Silver", "Gold", "Bishop", "Rook"}
Golds == {"Gold", "ProPawn", "ProLance", "ProKnight", "ProSilver"}
Promoted == [Pawn |-> "ProPawn", Lance |-> "ProLance", Knight |-> "ProKnight",
             Silver |-> "ProSilver", Bishop |-> "Horse", Rook |-> "Dragon"]
PieceTypes == HandTypes \cup {Promoted[t] : t \in DOMAIN Promoted} \cup {"King"}

\* What a captured piece is in the hand: pieceTypeToHandPiece.
HandOf(pt) == IF \E t \in DOMAIN Promoted : Promoted[t] = pt
                THEN CHOOSE t \in DOMAIN Promoted : Promoted[t] = pt ELSE pt

(***************************************************************************)
(* Squares are numbered file by file; a black piece advances to lower      *)
(* ranks.  Row(c, s) is the rank as c sees it, 0 the farthest: the code's  *)
(* TRank variables.                                                        *)
(***************************************************************************)
Sq == 0 .. 80
File(s) == s \div 9
Rank(s) == s % 9
Row(c, s) == IF c = "Black" THEN Rank(s) ELSE 8 - Rank(s)
Zone(c, s) == Row(c, s) < 3
Dist(a, b) == IF a < b THEN b - a ELSE a - b

Relation == [a \in Sq |-> [b \in Sq |->
   CASE a = b -> "Misc"
     [] a # b /\ File(a) = File(b) -> "File"
     [] a # b /\ Rank(a) = Rank(b) -> "Rank"
     [] a # b /\ Rank(a) - Rank(b) = File(a) - File(b) -> "NESW"
     [] a # b /\ Rank(a) - Rank(b) = File(b) - File(a) -> "NWSE"
     [] OTHER -> "Misc"]]
Cross == {"File", "Rank"}
Diagonal == {"NESW", "NWSE"}

Between == [a \in Sq |-> [b \in Sq |->
   IF Relation[a][b] = "Misc" THEN {}
   ELSE LET n == IF File(a) = File(b) THEN Dist(Rank(a), Rank(b))
                                      ELSE Dist(File(a), File(b))
        IN  {a + k * ((b - a) \div n) : k \in 1 .. n - 1}]]

IsAligned(from, to, ksq) == /\ Relation[from][ksq] # "Misc"
                            /\ Relation[from][ksq] = Relation[from][to]

RookToEdge == [s \in Sq |-> {t \in Sq : Relation[s][t] \in Cross}]
BishopToEdge == [s \in Sq |-> {t \in Sq : Relation[s][t] \in Diagonal}]
LanceToEdge == [c \in Colors |-> [s \in Sq |->
   {t \in RookToEdge[s] : File(t) = File(s) /\ Row(c, t) < Row(c, s)}]]

\* The squares of an attack to the edge that no piece of occ hides.
Visible(edge, s, occ) == {t \in edge : \A b \in Between[s][t] : b \notin occ}
RookAttack(s, occ) == Visible(RookToEdge[s], s, occ)
BishopAttack(s, occ) == Visible(BishopToEdge[s], s, occ)
LanceAttack(c, s, occ) == Visible(LanceToEdge[c][s], s, occ)

\* The step tables, in the order init.cpp builds them from one another, from the
\* attacks on a board all of whose squares are occupied.
RookStep == [s \in Sq |-> {t \in Sq : Dist(File(s), File(t)) + Dist(Rank(s), Rank(t)) = 1}]
BishopStep == [s \in Sq |-> {t \in Sq : Dist(File(s), File(t)) = 1 /\ Dist(Rank(s), Rank(t)) = 1}]
KingAttack == [s \in Sq |-> RookStep[s] \cup BishopStep[s]]
Ahead(c, s) == {t \in KingAttack[s] : Row(c, t) < Row(c, s)}
GoldAttack == [c \in Colors |-> [s \in Sq |-> Ahead(c, s) \cup RookStep[s]]]
SilverAttack == [c \in Colors |-> [s \in Sq |-> Ahead(c, s) \cup BishopStep[s]]]
PawnAttack == [c \in Colors |-> [s \in Sq |-> SilverAttack[c][s] \ BishopStep[s]]]
KnightAttack == [c \in Colors |-> [s \in Sq |->
   UNION {{t \in BishopStep[u] : Row(c, t) < Row(c, s)} : u \in PawnAttack[c][s]}]]

DragonAttack(s, occ) == RookAttack(s, occ) \cup KingAttack[s]
HorseAttack(s, occ) == BishopAttack(s, occ) \cup KingAttack[s]

AttacksFrom(pt, c, s, occ) ==
   CASE pt = "Pawn" -> PawnAttack[c][s]
     [] pt = "Lance" -> LanceAttack(c, s, occ)
     [] pt = "Knight" -> KnightAttack[c][s]
     [] pt = "Silver" -> SilverAttack[c][s]
     [] pt = "Bishop" -> BishopAttack(s, occ)
     [] pt = "Rook" -> RookAttack(s, occ)
     [] pt \in Golds -> GoldAttack[c][s]
     [] pt = "King" -> KingAttack[s]
     [] pt = "Horse" -> HorseAttack(s, occ)
     [] pt = "Dragon" -> DragonAttack(s, occ)

(***************************************************************************)
(* The check tables: from where a piece of c may give a direct check to a  *)
(* king on s with one move.                                                *)
(***************************************************************************)
Back(attack, c, targets) == UNION {attack[Opp(c)][t] : t \in targets}
InZone(c, S) == {t \in S : Zone(c, t)}

GoldCheckTable == [c \in Colors |-> [s \in Sq |->
   Back(GoldAttack, c, GoldAttack[Opp(c)][s]) \ ({s} \cup GoldAttack[Opp(c)][s])]]
SilverCheckTable == [c \in Colors |-> [s \in Sq |->
   LET gold == GoldAttack[Opp(c)][s]
   IN  (Back(SilverAttack, c, SilverAttack[Opp(c)][s])
          \cup InZone(c, Back(SilverAttack, c, gold))
          \cup {t \in Back(SilverAttack, c, InZone(c, gold)) : Row(c, t) = 3})
         \ ({s} \cup SilverAttack[Opp(c)][s])]]
KnightCheckTable == [c \in Colors |-> [s \in Sq |->
   Back(KnightAttack, c, KnightAttack[Opp(c)][s])
     \cup Back(KnightAttack, c, InZone(c, GoldAttack[Opp(c)][s]))]]
LanceCheckTable == [c \in Colors |-> [s \in Sq |->
   (LanceToEdge[Opp(c)][s] \cup Back(LanceToEdge, c, InZone(c, GoldAttack[Opp(c)][s])))
     \ ({s} \cup PawnAttack[Opp(c)][s])]]
PawnCheckTable == [c \in Colors |-> [s \in Sq |->
   (Back(PawnAttack, c, PawnAttack[Opp(c)][s])
      \cup Back(PawnAttack, c, InZone(c, GoldAttack[Opp(c)][s]))) \ {s}]]
BishopCheckTable == [c \in Colors |-> [s \in Sq |->
   (UNION {BishopToEdge[t] : t \in BishopToEdge[s] \cup InZone(c, KingAttack[s])}
      \cup InZone(c, UNION {BishopToEdge[t] : t \in KingAttack[s]})) \ {s}]]
HorseCheckTable == [s \in Sq |->
   UNION {HorseAttack(t, {}) : t \in HorseAttack(s, {})} \ {s}]

(***************************************************************************)
(* A position p is a record of board, hand, turn, king (kingSquare_) and   *)
(* checkers (checkersBB of the last StateInfo).                            *)
(***************************************************************************)
Occ(p) == DOMAIN p.board
Of(p, c) == {s \in Occ(p) : p.board[s][1] = c}
BB(p, c, types) == {s \in Occ(p) : p.board[s][1] = c /\ p.board[s][2] \in types}
TypeAt(p, s) == IF s \in Occ(p) THEN p.board[s][2] ELSE "Empty"
Without(p, s) == [p EXCEPT !.board = [t \in Occ(p) \ {s} |-> p.board[t]]]

\* What attackersTo asks of a piece of type pt on s: the attacks are taken
\* backwards, from sq, as a piece of the other color.
ReachesBackwards(pt, c, s, sq, occ) ==
   \/ pt = "Pawn" /\ s \in PawnAttack[Opp(c)][sq]
   \/ pt = "Lance" /\ s \in LanceAttack(Opp(c), sq, occ)
   \/ pt = "Knight" /\ s \in KnightAttack[Opp(c)][sq]
   \/ pt \in {"Silver", "King", "Dragon"} /\ s \in SilverAttack[Opp(c)][sq]
   \/ pt \in {"King", "Horse"} \cup Golds /\ s \in GoldAttack[Opp(c)][sq]
   \/ pt \in {"Bishop", "Horse"} /\ s \in BishopAttack(sq, occ)
   \/ pt \in {"Rook", "Dragon"} /\ s \in RookAttack(sq, occ)

AttackersTo(p, c, sq, occ) ==
   {s \in Occ(p) : /\ p.board[s][1] = c
                   /\ ReachesBackwards(p.board[s][2], c, s, sq, occ)}
AttackersToExceptKing(p, c, sq) ==
   {s \in AttackersTo(p, c, sq, Occ(p)) : p.board[s][2] # "King"}
IsAttacked(p, c, sq, occ) ==
   \E s \in Occ(p) : /\ p.board[s][1] = c
                     /\ ReachesBackwards(p.board[s][2], c, s, sq, occ)

\* hiddenCheckers: the pieces of color betweenIs that alone stand between the
\* king of kc and a sliding piece of the other color.
HiddenCheckers(p, kc, betweenIs) ==
   LET ksq == p.king[kc]
       pinners == (BB(p, Opp(kc), {"Lance"}) \cap LanceToEdge[kc][ksq])
                    \cup (BB(p, Opp(kc), {"Rook", "Dragon"}) \cap RookToEdge[ksq])
                    \cup (BB(p, Opp(kc), {"Bishop", "Horse"}) \cap BishopToEdge[ksq])
       hides(s) == Between[s][ksq] \cap Occ(p)
   IN  UNION {hides(s) : s \in {t \in pinners : /\ Cardinality(hides(t)) = 1
                                                /\ hides(t) \subseteq Of(p, betweenIs)}}
PinnedBB(p) == HiddenCheckers(p, p.turn, p.turn)
DiscoveredCheckBB(p, betweenIs) == HiddenCheckers(p, Opp(p.turn), betweenIs)

IsPinnedIllegal(from, to, ksq, pinned) == from \in pinned /\ ~IsAligned(from, to, ksq)
IsDiscoveredCheck(from, to, ksq, dcBB) == from \in dcBB /\ ~IsAligned(from, to, ksq)
=============================================================================
