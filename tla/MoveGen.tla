------------------------------ MODULE MoveGen ------------------------------
(***************************************************************************)
(* Move generation: generateMoves.cpp and the tests of position.cpp that   *)
(* it and the mate searches filter moves with.  The order in which moves   *)
(* are generated is left out: a list of moves is the set of its moves.     *)
(* Where the code has one template instance per color, us is a parameter.  *)
(***************************************************************************)
EXTENDS Board

\* A move is from a square of the board or from the hand.
InHand == 81
DropMove(pt, to) == [pt |-> pt, from |-> InHand, to |-> to, promo |-> FALSE, cap |-> "Empty"]
IsDrop(m) == m.from = InHand
BoardMove(p, from, to, promo) ==
   [pt |-> p.board[from][2], from |-> from, to |-> to, promo |-> promo, cap |-> TypeAt(p, to)]
PieceTypeTo(m) == IF m.promo THEN Promoted[m.pt] ELSE m.pt
CaptureMoves(p, from, targets) == {BoardMove(p, from, t, FALSE) : t \in targets}

\* The square a pawn of c on s attacks, and the square behind it.
Front(c, s) == IF c = "Black" THEN s - 1 ELSE s + 1
Behind(c, s) == IF c = "Black" THEN s + 1 ELSE s - 1

(***************************************************************************)
(* Can a king or another piece of the side to be mated answer?             *)
(***************************************************************************)
\* A piece of them other than the king can take on sq: it is not pinned by dcBB.
CanPieceCapture(p, them, sq, dcBB) ==
   \E from \in AttackersToExceptKing(p, them, sq) :
      ~IsDiscoveredCheck(from, sq, p.king[them], dcBB)

IsPawnDropCheckMate(p, us, sq) ==
   LET them == Opp(us)
       occ == Occ(p) \cup {sq}
   IN  /\ ~CanPieceCapture(p, them, sq, DiscoveredCheckBB(p, them))
       /\ \A to \in KingAttack[p.king[them]] \ Of(p, them) : IsAttacked(p, us, to, occ)

(***************************************************************************)
(* Which moves from - to the generators of the pieces emit: the promotion, *)
(* and the move without it unless it is worse for certain.  all is the     *)
(* template parameter ALL, which asks for more of the latter.              *)
(***************************************************************************)
SliderDeclines(us, from, to, all) == all \/ ~(Zone(us, from) \/ Zone(us, to))
PawnDeclines(us, to, all) == ~Zone(us, to) \/ (all /\ Row(us, to) > 0)
LanceDeclines(us, to, all) == ~Zone(us, to) \/ Row(us, to) > (IF all THEN 0 ELSE 1)
KnightDeclines(us, to) == Row(us, to) > 1

Promotes(us, pt, from, to) == pt \in DOMAIN Promoted /\ (Zone(us, from) \/ Zone(us, to))
Declines(us, pt, from, to, all) ==
   CASE pt \in {"Bishop", "Rook"} -> SliderDeclines(us, from, to, all)
     [] pt = "Pawn" -> PawnDeclines(us, to, all)
     [] pt = "Lance" -> LanceDeclines(us, to, all)
     [] pt = "Knight" -> KnightDeclines(us, to)
     [] OTHER -> TRUE

MovesTo(p, us, from, to, all) ==
   {BoardMove(p, from, to, promo) : promo \in
      {b \in BOOLEAN : IF b THEN Promotes(us, p.board[from][2], from, to)
                            ELSE Declines(us, p.board[from][2], from, to, all)}}

\* GeneratePieceMoves of all the types: the moves of these pieces into target.
GeneratePieceMoves(p, us, pieces, target, all) ==
   UNION {UNION {MovesTo(p, us, from, to, all) :
                   to \in AttacksFrom(p.board[from][2], us, from, Occ(p)) \cap target} :
            from \in pieces}

(***************************************************************************)
(* Drops into target.                                                      *)
(***************************************************************************)
NoPawnFiles(p, us, target) ==
   {t \in target : ~\E s \in BB(p, us, {"Pawn"}) : File(s) = File(t)}
PawnDropCheck(p, us) ==
   LET ksq == p.king[Opp(us)]
   IN  IF Row(us, ksq) = 8 THEN {} ELSE {Behind(us, ksq)}

PawnDrops(p, us, target) ==
   {DropMove("Pawn", to) : to \in
      {t \in NoPawnFiles(p, us, target) : /\ Row(us, t) > 0
                                          /\ t \in PawnDropCheck(p, us) /\ t \notin Occ(p)
                                                => ~IsPawnDropCheckMate(p, us, t)}}

\* The first row takes no lance and the first two take no knight.
DropRow(pt) == CASE pt = "Knight" -> 2 [] pt = "Lance" -> 1 [] OTHER -> 0

GenerateDropMoves(p, us, target) ==
   (IF p.hand[us]["Pawn"] > 0 THEN PawnDrops(p, us, target) ELSE {})
     \cup UNION {{DropMove(pt, to) : to \in {t \in target : Row(us, t) >= DropRow(pt)}} :
                   pt \in {x \in HandTypes \ {"Pawn"} : p.hand[us][x] > 0}}

(***************************************************************************)
(* Evasions.  The king may not go where a checking piece still bears when  *)
(* the king has left its square: BannedKingTo, for one checking piece.     *)
(***************************************************************************)
\* A dragon that checks from a diagonal has lines that other pieces may cut.
DragonBans(p, checkSq, ksq) ==
   IF Relation[checkSq][ksq] \in Diagonal THEN DragonAttack(checkSq, Occ(p))
   ELSE RookToEdge[checkSq] \cup KingAttack[checkSq]

BannedKingTo(p, checkSq, ksq) ==
   LET them == p.board[checkSq][1]
       pt == p.board[checkSq][2]
   IN  CASE pt \in {"Pawn", "Knight"} -> {}
         [] pt = "Lance" -> LanceToEdge[them][checkSq]
         [] pt = "Silver" -> SilverAttack[them][checkSq]
         [] pt \in Golds -> GoldAttack[them][checkSq]
         [] pt = "Bishop" -> BishopToEdge[checkSq]
         [] pt = "Horse" -> BishopToEdge[checkSq] \cup KingAttack[checkSq]
         [] pt = "Rook" -> RookToEdge[checkSq]
         [] pt = "Dragon" -> DragonBans(p, checkSq, ksq)

Evasion(p, us, all) ==
   LET ksq == p.king[us]
       banned == UNION {BannedKingTo(p, s, ksq) : s \in p.checkers}
       between(s) == Between[s][ksq]
   IN  CaptureMoves(p, ksq, (KingAttack[ksq] \ Of(p, us)) \ banned)
         \cup IF Cardinality(p.checkers) > 1 THEN {}
              ELSE UNION {GeneratePieceMoves(p, us, Of(p, us) \ {ksq}, between(s) \cup {s}, all)
                            \cup GenerateDropMoves(p, us, between(s)) : s \in p.checkers}

NonEvasion(p, us) ==
   GenerateDropMoves(p, us, Sq \ Occ(p))
     \cup GeneratePieceMoves(p, us, Of(p, us), Sq \ Of(p, us), FALSE)

PseudoLegalMoveIsLegal(p, m, pinned) ==
   \/ IsDrop(m)
   \/ /\ ~IsDrop(m) /\ TypeAt(p, m.from) = "King"
      /\ ~IsAttacked(p, Opp(p.turn), m.to, Occ(p))
   \/ /\ ~IsDrop(m) /\ TypeAt(p, m.from) # "King"
      /\ ~IsPinnedIllegal(m.from, m.to, p.king[p.turn], pinned)

\* generateMoves<Legal>; with all, generateMoves<LegalAll>, which asks for the
\* declined promotions in an evasion only.
Legal(p, all) ==
   LET pinned == PinnedBB(p)
   IN  {m \in IF p.checkers # {} THEN Evasion(p, p.turn, all) ELSE NonEvasion(p, p.turn) :
          PseudoLegalMoveIsLegal(p, m, pinned)}
=============================================================================
