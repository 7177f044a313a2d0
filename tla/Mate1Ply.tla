----------------------------- MODULE Mate1Ply ------------------------------
(***************************************************************************)
(* Position::mateMoveIn1Ply: a move of the side to move, which is not in   *)
(* check, that mates by a check from near (or by a knight), decided from   *)
(* the attacks alone, without making the move.  The code tries the pieces  *)
(* one after the other and returns the first move that passes;             *)
(* MateMoveIn1Ply is the set of all that pass, of which it returns one.    *)
(***************************************************************************)
EXTENDS MoveGen

\* The king of them can leave, when us has a checking piece on sq that the king
\* cannot take and that bears on bb.
CanKingEscape(p, us, sq, bb) ==
   LET ksq == p.king[Opp(us)]
       occ == (Occ(p) \cup {sq}) \ {ksq}
   IN  \E to \in ((KingAttack[ksq] \ Of(p, Opp(us))) \ bb) \ {sq} : ~IsAttacked(p, us, to, occ)

\* What a piece that needs no escape to be cut off bears on.
NoSquares == [s \in Sq |-> {}]

IsSupported(p, us, sq) == IsAttacked(p, us, sq, Occ(p))

(***************************************************************************)
(* Drops.                                                                  *)
(***************************************************************************)
DropTries(pt, targets, bears) == {[pt |-> pt, to |-> t, bears |-> bears[t]] : t \in targets}

DropMates(p, us, x) ==
   /\ p.hand[us][x.pt] > 0 /\ x.to \notin Occ(p)
   /\ x.pt = "Knight" \/ IsSupported(p, us, x.to)
   /\ ~CanKingEscape(p, us, x.to, x.bears)
   /\ ~CanPieceCapture(p, Opp(us), x.to, DiscoveredCheckBB(p, Opp(us)))

\* A lance is tried without a rook only, on the square in front of the king.
RookLanceDrops(p, us, ksq) ==
   IF p.hand[us]["Rook"] > 0 THEN DropTries("Rook", RookStep[ksq], RookToEdge)
   ELSE IF Row(us, ksq) = 8 THEN {}
   ELSE DropTries("Lance", {Behind(us, ksq)}, LanceToEdge[us])
BishopDrops(ksq) == DropTries("Bishop", BishopStep[ksq], BishopToEdge)

\* What a rook would have found is not tried again.
GoldDrops(p, us, ksq) ==
   LET tail == IF p.hand[us]["Rook"] > 0 THEN PawnAttack[us][ksq] ELSE {}
   IN  DropTries("Gold", GoldAttack[Opp(us)][ksq] \ tail, GoldAttack[us])

\* Nor is what a gold or a bishop would have found.
SilverDrops(p, us, ksq) ==
   LET silver == SilverAttack[Opp(us)][ksq]
       gold == p.hand[us]["Gold"] > 0
       bishop == p.hand[us]["Bishop"] > 0
       targets == CASE gold /\ bishop -> {}
                    [] gold /\ ~bishop -> {t \in silver : Row(us, t) < Row(us, ksq)}
                    [] ~gold /\ bishop -> silver \cap GoldAttack[Opp(us)][ksq]
                    [] ~gold /\ ~bishop -> silver
   IN  DropTries("Silver", targets, SilverAttack[us])

KnightDrops(us, ksq) == DropTries("Knight", KnightAttack[Opp(us)][ksq], NoSquares)

(***************************************************************************)
(* Moves.  The piece is taken off its square (xorBBs) before the attacks   *)
(* are asked for; a check it also uncovers makes a double check, which no  *)
(* capture answers.                                                        *)
(***************************************************************************)
NotCaptured(p, q, us, from, to) ==
   \/ IsDiscoveredCheck(from, to, p.king[Opp(us)], DiscoveredCheckBB(p, us))
   \/ ~CanPieceCapture(q, Opp(us), to, DiscoveredCheckBB(q, Opp(us)))

\* What a piece is tried for: to go to one of targets, promoting or not, where it
\* bears on bears[to], supported there by another piece or not needing it.
Tries(targets, promo, bears, supported) ==
   {[to |-> t, promo |-> promo, bears |-> bears[t], supported |-> supported] : t \in targets}

Mates(p, us, from, x) ==
   \E q \in {Without(p, from)} :
      /\ x.supported => IsSupported(q, us, x.to)
      /\ ~CanKingEscape(q, us, x.to, x.bears)
      /\ NotCaptured(p, q, us, from, x.to)
      /\ ~IsPinnedIllegal(from, x.to, p.king[us], PinnedBB(p))

Near(p, us, from) ==
   (KingAttack[p.king[Opp(us)]] \ Of(p, us)) \cap AttacksFrom(p.board[from][2], us, from, Occ(p))
\* The lines of a dragon through the square the king leaves.
DragonBears(p, us, from) ==
   [to \in Sq |-> DragonAttack(to, Occ(p) \ {from, p.king[Opp(us)]})]
HorseBears == [to \in Sq |-> HorseAttack(to, {})]

DragonTries(p, us, from, near) == Tries(near, FALSE, DragonBears(p, us, from), TRUE)

RookTries(p, us, from, near, ksq) ==
   LET promoting == IF Zone(us, from) THEN near ELSE InZone(us, near)
   IN  Tries(promoting, TRUE, DragonBears(p, us, from), TRUE)
         \cup Tries((near \ promoting) \cap RookStep[ksq], FALSE, RookToEdge, TRUE)

HorseTries(near) == Tries(near, FALSE, HorseBears, TRUE)

BishopTries(us, from, near, ksq) ==
   LET promoting == IF Zone(us, from) THEN near ELSE InZone(us, near)
   IN  Tries(promoting, TRUE, HorseBears, TRUE)
         \cup Tries((near \ promoting) \cap BishopStep[ksq], FALSE, BishopToEdge, TRUE)

GoldTries(us, from, near, ksq) ==
   IF from \in GoldCheckTable[us][ksq]
     THEN Tries(near \cap GoldAttack[Opp(us)][ksq], FALSE, GoldAttack[us], TRUE) ELSE {}

\* From the promotion zone a move to in front of the king is tried promoted only.
SilverTries(us, from, near, ksq) ==
   LET promoting == CASE Zone(us, from) -> near
                      [] Row(us, from) = 3 -> InZone(us, near)
                      [] OTHER -> {}
       staying == IF Zone(us, from) THEN {t \in near : Row(us, t) <= Row(us, ksq)} ELSE near
   IN  IF from \notin SilverCheckTable[us][ksq] THEN {}
       ELSE Tries(promoting \cap GoldAttack[Opp(us)][ksq], TRUE, GoldAttack[us], TRUE)
              \cup Tries(staying \cap SilverAttack[Opp(us)][ksq], FALSE, SilverAttack[us], TRUE)

KnightTries(p, us, from, ksq) ==
   LET reach == IF from \in KnightCheckTable[us][ksq]
                  THEN KnightAttack[us][from] \ Of(p, us) ELSE {}
   IN  Tries(InZone(us, reach \cap GoldAttack[Opp(us)][ksq]), TRUE, GoldAttack[us], TRUE)
         \cup Tries(reach \cap KnightAttack[Opp(us)][ksq], FALSE, NoSquares, FALSE)

LanceTries(us, from, near, ksq) ==
   LET staying == {t \in near \cap PawnAttack[Opp(us)][ksq] : Row(us, t) > 1}
   IN  IF from \notin LanceCheckTable[us][ksq] THEN {}
       ELSE Tries(InZone(us, near \cap GoldAttack[Opp(us)][ksq]), TRUE, GoldAttack[us], TRUE)
              \cup Tries(staying, FALSE, LanceToEdge[us], TRUE)

\* A pawn checks a king on the first seven rows, promotes whenever it can when the
\* king is in the zone, and is not tried unpromoted against a king on the first two.
PawnTries(us, near, ksq) ==
   (IF Row(us, ksq) < 3
      THEN Tries(InZone(us, near \cap GoldAttack[Opp(us)][ksq]), TRUE, GoldAttack[us], TRUE)
      ELSE {})
     \cup (IF Row(us, ksq) \in 2 .. 6
             THEN Tries(near \cap PawnAttack[Opp(us)][ksq], FALSE, NoSquares, TRUE) ELSE {})

PieceTries(p, us, from, pt, near, ksq) ==
   CASE pt = "Dragon" -> DragonTries(p, us, from, near)
     [] pt = "Rook" -> RookTries(p, us, from, near, ksq)
     [] pt = "Horse" -> HorseTries(near)
     [] pt = "Bishop" -> BishopTries(us, from, near, ksq)
     [] pt \in Golds -> GoldTries(us, from, near, ksq)
     [] pt = "Silver" -> SilverTries(us, from, near, ksq)
     [] pt = "Knight" -> KnightTries(p, us, from, ksq)
     [] pt = "Lance" -> LanceTries(us, from, near, ksq)
     [] pt = "Pawn" -> PawnTries(us, near, ksq)

MateMoveIn1Ply(p) ==
   LET us == p.turn
       ksq == p.king[Opp(us)]
       drops == RookLanceDrops(p, us, ksq) \cup BishopDrops(ksq) \cup GoldDrops(p, us, ksq)
                  \cup SilverDrops(p, us, ksq) \cup KnightDrops(us, ksq)
       tries(s) == PieceTries(p, us, s, p.board[s][2], Near(p, us, s), ksq)
   IN  {DropMove(x.pt, x.to) : x \in {y \in drops : DropMates(p, us, y)}}
         \cup UNION {{BoardMove(p, s, x.to, x.promo) : x \in {y \in tries(s) : Mates(p, us, s, y)}} :
                       s \in Of(p, us) \ {p.king[us]}}
=============================================================================
