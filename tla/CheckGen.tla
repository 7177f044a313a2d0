----------------------------- MODULE CheckGen ------------------------------
(***************************************************************************)
(* The moves that give check: CheckInfo and moveGivesCheck of position.cpp *)
(* and the generators Check and CheckAll of generateMoves.cpp.             *)
(***************************************************************************)
EXTENDS MoveGen

\* CheckInfo::checkBB: from where a piece of type pt would check the other king.
CheckBB(p, pt) ==
   IF pt = "King" THEN {}
   ELSE AttacksFrom(pt, Opp(p.turn), p.king[Opp(p.turn)], Occ(p))

MoveGivesCheck(p, m) ==
   \/ m.to \in CheckBB(p, PieceTypeTo(m))
   \/ /\ ~IsDrop(m)
      /\ IsDiscoveredCheck(m.from, m.to, p.king[Opp(p.turn)], DiscoveredCheckBB(p, p.turn))

(***************************************************************************)
(* The pieces that may check directly, by the check tables.                *)
(***************************************************************************)
DirectCandidates(p, us) ==
   LET ksq == p.king[Opp(us)]
   IN  (BB(p, us, {"Pawn"}) \cap PawnCheckTable[us][ksq])
         \cup (BB(p, us, {"Lance"}) \cap LanceCheckTable[us][ksq])
         \cup (BB(p, us, {"Knight"}) \cap KnightCheckTable[us][ksq])
         \cup (BB(p, us, {"Silver"}) \cap SilverCheckTable[us][ksq])
         \cup (BB(p, us, Golds) \cap GoldCheckTable[us][ksq])
         \cup (BB(p, us, {"Bishop"}) \cap BishopCheckTable[us][ksq])
         \cup BB(p, us, {"Rook", "Dragon"})
         \cup (BB(p, us, {"Horse"}) \cap HorseCheckTable[ksq])

\* Where the piece on from can go, with and without promotion, among targets.
Reach(p, us, from) == AttacksFrom(p.board[from][2], us, from, Occ(p)) \ Of(p, us)
Promoting(p, us, from, targets) ==
   {BoardMove(p, from, t, TRUE) : t \in {u \in targets : Zone(us, from) \/ Zone(us, u)}}
Staying(p, from, targets) == {BoardMove(p, from, t, FALSE) : t \in targets}
Outside(us, from, targets) == {t \in targets : ~Zone(us, from) /\ ~Zone(us, t)}
(* Fault: a piece of the own side counts too.                               *)
LastOfEither(p, us, from) ==
   LET hides == Between[from][p.king[Opp(us)]] \cap Occ(p)
   IN  IF Cardinality(hides) = 1 THEN hides ELSE {}

\* The piece to capture when it alone, of the other side, hides the king from from.
LastObstacle(p, us, from) ==
   LET hides == Between[from][p.king[Opp(us)]] \cap Occ(p)
   IN  IF Cardinality(hides) = 1 THEN hides \cap Of(p, Opp(us)) ELSE {}

PawnChecks(p, us, from, ksq, reach, all) ==
   Promoting(p, us, from, reach)
     \cup Staying(p, from, {t \in reach : Zone(us, t) => all /\ t \in PawnAttack[Opp(us)][ksq]})

LanceChecks(p, us, from, ksq, reach, all) ==
   LET near == {t \in PawnAttack[Opp(us)][ksq] : Zone(us, t)}
       lined(last) == Promoting(p, us, from, last \cap near)
                        \cup Staying(p, from, {t \in last : t \in near => all \/ Row(us, t) > 1})
   IN  IF File(ksq) # File(from)
         THEN Promoting(p, us, from, GoldAttack[Opp(us)][ksq] \cap reach)
         ELSE lined(LastObstacle(p, us, from))

KnightChecks(p, us, from, ksq, reach) ==
   Staying(p, from, KnightAttack[Opp(us)][ksq] \cap reach)
     \cup Promoting(p, us, from, GoldAttack[Opp(us)][ksq] \cap reach)

SilverChecks(p, us, from, ksq, reach) ==
   Staying(p, from, SilverAttack[Opp(us)][ksq] \cap reach)
     \cup Promoting(p, us, from, GoldAttack[Opp(us)][ksq] \cap reach)

GoldChecks(p, us, from, ksq, reach) == Staying(p, from, GoldAttack[Opp(us)][ksq] \cap reach)

\* A slider may go to any of to; promoting it also checks from near.  One that stands
\* on a line with the king has to take what hides it.
SliderChecks(p, us, from, to, direct, all) ==
   Promoting(p, us, from, to)
     \cup Staying(p, from, (to \cap direct) \cap (IF all THEN Sq ELSE Outside(us, from, to)))

BishopChecks(p, us, from, ksq, reach, all) ==
   IF Relation[from][ksq] \notin Diagonal
     THEN SliderChecks(p, us, from, HorseAttack(ksq, Occ(p)) \cap reach,
                       BishopAttack(ksq, Occ(p)), all)
     ELSE SliderChecks(p, us, from, LastObstacle(p, us, from), Sq, all)

RookChecks(p, us, from, ksq, reach, all) ==
   IF Relation[from][ksq] \notin Cross
     THEN SliderChecks(p, us, from, DragonAttack(ksq, Occ(p)) \cap reach,
                       RookAttack(ksq, Occ(p)), all)
     ELSE SliderChecks(p, us, from, LastObstacle(p, us, from), Sq, all)

HorseChecks(p, us, from, ksq, reach) ==
   Staying(p, from, IF Relation[from][ksq] \notin Diagonal
                      THEN HorseAttack(ksq, Occ(p)) \cap reach
                      ELSE LastObstacle(p, us, from))

DragonChecks(p, us, from, ksq, reach) ==
   Staying(p, from, IF Relation[from][ksq] \notin Cross
                      THEN DragonAttack(ksq, Occ(p)) \cap reach
                      ELSE LastObstacle(p, us, from)
                             \cup ((KingAttack[ksq] \cap KingAttack[from]) \ Of(p, us)))

ChecksOf(pt, p, us, from, ksq, reach, all) ==
   CASE pt = "Pawn" -> PawnChecks(p, us, from, ksq, reach, all)
     [] pt = "Lance" -> LanceChecks(p, us, from, ksq, reach, all)
     [] pt = "Knight" -> KnightChecks(p, us, from, ksq, reach)
     [] pt = "Silver" -> SilverChecks(p, us, from, ksq, reach)
     [] pt \in Golds -> GoldChecks(p, us, from, ksq, reach)
     [] pt = "Bishop" -> BishopChecks(p, us, from, ksq, reach, all)
     [] pt = "Rook" -> RookChecks(p, us, from, ksq, reach, all)
     [] pt = "Horse" -> HorseChecks(p, us, from, ksq, reach)
     [] pt = "Dragon" -> DragonChecks(p, us, from, ksq, reach)

DirectChecks(p, us, from, all) ==
   UNION {ChecksOf(p.board[from][2], p, us, from, p.king[Opp(us)], reach, all) :
            reach \in {Reach(p, us, from)}}

\* A piece that uncovers a check keeps it covered on its line with the king: it
\* goes there only to check directly.
StayingOnLine(p, us, from, to, all) ==
   LET pt == p.board[from][2]
       ksq == p.king[Opp(us)]
   IN  CASE pt = "Pawn" -> {BoardMove(p, from, to, promo) : promo \in
                              {b \in BOOLEAN : IF b THEN Zone(us, to) ELSE all \/ ~Zone(us, to)}}
         [] pt = "Silver" -> Staying(p, from, {to} \cap SilverAttack[Opp(us)][ksq])
                               \cup Promoting(p, us, from, {to} \cap GoldAttack[Opp(us)][ksq])
         [] pt \in Golds -> Staying(p, from, {to} \cap GoldAttack[Opp(us)][ksq])
         [] pt = "Horse" -> Staying(p, from, {to} \cap HorseAttack(ksq, Occ(p)))
         [] pt = "Dragon" -> Staying(p, from, {to} \cap DragonAttack(ksq, Occ(p)))

UncoveringChecks(p, us, from, direct, all) ==
   UNION {IF ~IsAligned(from, to, p.king[Opp(us)]) THEN MovesTo(p, us, from, to, all)
          ELSE IF from \in direct THEN StayingOnLine(p, us, from, to, all) ELSE {} :
            to \in Reach(p, us, from)}

DropChecks(p, us) ==
   LET target(pt) == CheckBB(p, pt) \ Occ(p)
   IN  (IF p.hand[us]["Pawn"] > 0
          THEN {DropMove("Pawn", t) : t \in {u \in NoPawnFiles(p, us, target("Pawn")) :
                                               ~IsPawnDropCheckMate(p, us, u)}}
          ELSE {})
         \cup UNION {{DropMove(pt, t) : t \in target(pt)} :
                       pt \in {x \in HandTypes \ {"Pawn"} : p.hand[us][x] > 0}}

\* generateMoves<CheckAll> with all, generateMoves<Check> without.
Check(p, all) ==
   LET us == p.turn
       x == DirectCandidates(p, us)
       y == DiscoveredCheckBB(p, us)
       pinned == PinnedBB(p)
       moves == UNION {UncoveringChecks(p, us, s, x, all) : s \in y}
                  \cup UNION {DirectChecks(p, us, s, all) : s \in x \ y}
   IN  {m \in moves : PseudoLegalMoveIsLegal(p, m, pinned)} \cup DropChecks(p, us)

(***************************************************************************)
(* moveIsPseudoLegal<false>, by which the mate searches keep the checks    *)
(* that also answer the check they stand in.                               *)
(***************************************************************************)
AnswersCheck(p, to, capturing) ==
   /\ Cardinality(p.checkers) <= 1
   /\ \A s \in p.checkers : to \in Between[s][p.king[p.turn]] \cup (IF capturing THEN {s} ELSE {})

DropIsPseudoLegal(p, m) ==
   /\ p.hand[p.turn][m.pt] > 0 /\ m.to \notin Occ(p)
   /\ AnswersCheck(p, m.to, FALSE)
   /\ m.pt = "Pawn" =>
        /\ NoPawnFiles(p, p.turn, {m.to}) # {}
        /\ ~(/\ Front(p.turn, m.to) = p.king[Opp(p.turn)]
             /\ IsPawnDropCheckMate(p, p.turn, m.to))

MoveIsPseudoLegal(p, m) ==
   IF IsDrop(m) THEN DropIsPseudoLegal(p, m)
   ELSE /\ m.from \in Occ(p) /\ p.board[m.from] = <<p.turn, m.pt>>
        /\ m.to \in Reach(p, p.turn, m.from)
        /\ p.checkers # {} =>
             IF m.pt = "King" THEN ~IsAttacked(p, Opp(p.turn), m.to, Occ(p) \ {m.from})
                              ELSE AnswersCheck(p, m.to, TRUE)
=============================================================================
