------------------------------ MODULE Bitboard ------------------------------
(***************************************************************************)
(* The two 64-bit words behind a set of squares: bitboard.hpp,             *)
(* bitboard.cpp and the tables of init.cpp that the sliding attacks are    *)
(* computed from.  Board.tla takes a bitboard for the set of its squares;  *)
(* this module says what the words do, how the attacks of the rook, bishop *)
(* and lance are computed from them (Qugiy's subtraction and the table of  *)
(* a file), and that they are the sets of Board.tla.                       *)
(*                                                                         *)
(* A word is the set of its one bits; b[0] and b[1] are p(0), with the     *)
(* squares SQ11 to SQ79 of files 1 to 7, and p(1), with those of files 8   *)
(* and 9 in its low 18 bits.                                               *)
(***************************************************************************)
EXTENDS Board

BitNums == 0 .. 63
Word == SUBSET BitNums
Bitboards == [0 .. 1 -> Word]
MkBB(v0, v1) == [i \in 0 .. 1 |-> IF i = 0 THEN v0 ELSE v1]

allOneBB == MkBB(0 .. 62, 0 .. 17)

\* The part of a square, its bit there, and the other way round.
part(s) == IF 62 < s THEN 1 ELSE 0
BitOf(s) == s - 63 * part(s)
SetMaskBB(s) == [i \in 0 .. 1 |-> IF i = part(s) THEN {BitOf(s)} ELSE {}]

AndBB(a, b) == [i \in 0 .. 1 |-> a[i] \cap b[i]]
OrBB(a, b) == [i \in 0 .. 1 |-> a[i] \cup b[i]]
XorBB(a, b) == [i \in 0 .. 1 |-> (a[i] \ b[i]) \cup (b[i] \ a[i])]
AndNotBB(a, b) == [i \in 0 .. 1 |-> a[i] \ b[i]]
\* The complement also sets the bits that are no square.
NotBB(a) == [i \in 0 .. 1 |-> BitNums \ a[i]]
\* Each word is shifted alone: what leaves one does not enter the other.
ShiftLeft(a, n) == [i \in 0 .. 1 |-> {k \in BitNums : k - n \in a[i]}]
ShiftRight(a, n) == [i \in 0 .. 1 |-> {k \in BitNums : k + n \in a[i]}]
isAny(a) == \E i \in 0 .. 1 : a[i] # {}
isSet(a, s) == isAny(AndBB(a, SetMaskBB(s)))
\* The squares without a piece: emptyBB, and nOccupiedBB with the unused bits set.
emptyBB(occ) == XorBB(occ, allOneBB)
nOccupiedBB(occ) == NotBB(occ)

\* A set of squares as a bitboard, and the squares of a bitboard.
BBOf(S) == [i \in 0 .. 1 |-> {BitOf(s) : s \in {t \in S : part(t) = i}}]
Squares(a) == {s \in Sq : BitOf(s) \in a[part(s)]}

\* firstOneFromLSB and the subtraction of one, which clears the lowest one and
\* sets the bits below it; from zero it borrows and sets them all.
firstOneFromLSB(w) == CHOOSE k \in w : \A j \in w : k <= j
Minus1(w) == IF w = {} THEN BitNums
             ELSE LET k == firstOneFromLSB(w) IN (w \ {k}) \cup 0 .. (k - 1)
constFirstOneFromSQ11(a) == IF a[0] # {} THEN firstOneFromLSB(a[0])
                                         ELSE firstOneFromLSB(a[1]) + 63
\* firstOneFromSQ11 also takes the bit away: p & (p - 1).
WithoutFirst(a) == LET i == IF a[0] # {} THEN 0 ELSE 1
                   IN  [a EXCEPT ![i] = @ \cap Minus1(@)]
popCount(a) == Cardinality(a[0]) + Cardinality(a[1])
isOneBit(a) == /\ isAny(a)
               /\ IF a[0] # {} THEN a[0] \cap Minus1(a[0]) = {} /\ a[1] = {}
                               ELSE a[1] \cap Minus1(a[1]) = {}

\* The squares that foreachBB visits, in its order.
foreachBB(a) ==
   LET left[n \in 0 .. popCount(a)] == IF n = 0 THEN a ELSE WithoutFirst(left[n - 1])
   IN  [n \in 1 .. popCount(a) |-> constFirstOneFromSQ11(left[n - 1])]

(***************************************************************************)
(* Masks.  lance and file attacks are looked up with the seven bits of the *)
(* file between its ends as the index; an index, too, is the set of its    *)
(* ones.                                                                   *)
(***************************************************************************)
FileMask(f) == IF f < 7 THEN MkBB(9 * f .. 9 * f + 8, {})
                        ELSE MkBB({}, 9 * (f - 7) .. 9 * (f - 7) + 8)
RankMask(r) == MkBB({9 * f + r : f \in 0 .. 6}, {9 * f + r : f \in 0 .. 1})
InFrontMask(c, r) ==
   [i \in 0 .. 1 |-> UNION {RankMask(q)[i] : q \in {q \in 0 .. 8 : IF c = "Black" THEN q < r ELSE r < q}}]
Slide(s) == 9 * (File(s) % 7) + 1

Index(s, occ) == {i \in 0 .. 6 : i + Slide(s) \in occ[part(s)]}
lanceBlockMask(s) == AndNotBB(FileMask(File(s)), OrBB(RankMask(8), RankMask(0)))
\* The i-th square of the mask is occupied if bit i of the index is set.
indexToOccupied(index, mask) ==
   LET S == Squares(mask)
   IN  BBOf({s \in S : Cardinality({t \in S : t < s}) \in index})
\* Both walks from the square stop at the first occupied one.
lanceAttackCalc(c, s, occ) ==
   LET up == {t \in Sq : /\ File(t) = File(s) /\ t < s
                         /\ \A u \in t + 1 .. s - 1 : ~isSet(occ, u)}
       down == {t \in Sq : /\ File(t) = File(s) /\ s < t
                           /\ \A u \in s + 1 .. t - 1 : ~isSet(occ, u)}
   IN  AndBB(BBOf(up \cup down), InFrontMask(c, Rank(s)))
LanceTable(c, s, index) == lanceAttackCalc(c, s, indexToOccupied(index, lanceBlockMask(s)))

lanceAttack(c, s, occ) == LanceTable(c, s, Index(s, occ))
rookAttackFile(s, occ) == OrBB(LanceTable("Black", s, Index(s, occ)),
                             LanceTable("White", s, Index(s, occ)))

(***************************************************************************)
(* Qugiy's sliders.  A ray that climbs the bits (to the left) is cut off   *)
(* by subtracting one from the occupied squares on it: the bits that       *)
(* change are those up to the first occupied one.  A ray to the right is   *)
(* turned round first by reversing the bytes.  Both are done at once:      *)
(* unpack puts the two high words into one register and the two low words  *)
(* into another.  A Bitboard256, for the four rays of the bishop, is two   *)
(* Bitboards whose operations are those of its lanes; a build without AVX2 *)
(* also exchanges the lanes in byteReverse, which merge does not tell.     *)
(***************************************************************************)
bswap64(w) == {k \in BitNums : (7 - (k \div 8)) * 8 + (k % 8) \in w}
byteReverse(a) == [i \in 0 .. 1 |-> bswap64(a[1 - i])]
unpack(hiIn, loIn) == [hi |-> MkBB(loIn[1], hiIn[1]), lo |-> MkBB(loIn[0], hiIn[0])]
decrement(hi, lo) ==
   [hi |-> [i \in 0 .. 1 |-> IF lo[i] = {} THEN Minus1(hi[i]) ELSE hi[i]],
    lo |-> [i \in 0 .. 1 |-> Minus1(lo[i])]]

\* The squares along a step in files and ranks, up to the edge.
Ray(s, df, dr) ==
   {t \in Sq : \E n \in 1 .. 8 : File(t) = File(s) + n * df /\ Rank(t) = Rank(s) + n * dr}

\* The masks of a ray to the left and one to the right, stored unpacked.
ToMask(left, right) == unpack(byteReverse(BBOf(right)), BBOf(left))
RookAttackRankToMask == [s \in Sq |-> ToMask(Ray(s, 1, 0), Ray(s, -1, 0))]
BishopAttackToMask == [s \in Sq |->
   LET up == ToMask(Ray(s, 1, -1), Ray(s, -1, -1))
       down == ToMask(Ray(s, 1, 1), Ray(s, -1, 1))
   IN  [hi |-> [j \in 0 .. 1 |-> IF j = 0 THEN up.hi ELSE down.hi],
        lo |-> [j \in 0 .. 1 |-> IF j = 0 THEN up.lo ELSE down.lo]]]

rookAttackRank(s, occ) ==
   LET mask == RookAttackRankToMask[s]
       both == unpack(byteReverse(occ), occ)
       hi == AndBB(both.hi, mask.hi)
       lo == AndBB(both.lo, mask.lo)
       less == decrement(hi, lo)
       back == unpack(AndBB(XorBB(less.hi, hi), mask.hi), AndBB(XorBB(less.lo, lo), mask.lo))
   IN  OrBB(byteReverse(back.hi), back.lo)
rookAttack(s, occ) == OrBB(rookAttackRank(s, occ), rookAttackFile(s, occ))

Twice(a) == [j \in 0 .. 1 |-> a]
And256(a, b) == [j \in 0 .. 1 |-> AndBB(a[j], b[j])]
Or256(a, b) == [j \in 0 .. 1 |-> OrBB(a[j], b[j])]
Xor256(a, b) == [j \in 0 .. 1 |-> XorBB(a[j], b[j])]
byteReverse256(a) == [j \in 0 .. 1 |-> byteReverse(a[j])]
merge256(a) == OrBB(a[0], a[1])
unpack256(hiIn, loIn) == [hi |-> [j \in 0 .. 1 |-> unpack(hiIn[j], loIn[j]).hi],
                          lo |-> [j \in 0 .. 1 |-> unpack(hiIn[j], loIn[j]).lo]]
decrement256(hi, lo) == [hi |-> [j \in 0 .. 1 |-> decrement(hi[j], lo[j]).hi],
                         lo |-> [j \in 0 .. 1 |-> decrement(hi[j], lo[j]).lo]]

bishopAttack(s, occ) ==
   LET mask == BishopAttackToMask[s]
       both == unpack256(Twice(byteReverse(occ)), Twice(occ))
       hi == And256(both.hi, mask.hi)
       lo == And256(both.lo, mask.lo)
       less == decrement256(hi, lo)
       back == unpack256(And256(Xor256(less.hi, hi), mask.hi), And256(Xor256(less.lo, lo), mask.lo))
   IN  merge256(Or256(byteReverse256(back.hi), back.lo))

\* pawnAttack of all the pawns of a color at once.
pawnAttack(c, pawns) == IF c = "Black" THEN ShiftRight(pawns, 1) ELSE ShiftLeft(pawns, 1)

(***************************************************************************)
(* The reference: what Board.tla says of sets of squares.                  *)
(***************************************************************************)
\* The operations on bitboards are those on the sets S and T.
WordsAreSets(S, T) ==
   LET a == BBOf(S)
       b == BBOf(T)
   IN  /\ Squares(a) = S
       /\ AndBB(a, b) = BBOf(S \cap T)
       /\ OrBB(a, b) = BBOf(S \cup T)
       /\ XorBB(a, b) = BBOf((S \cup T) \ (S \cap T))
       /\ AndNotBB(a, b) = BBOf(S \ T)
       /\ emptyBB(a) = BBOf(Sq \ S)
       /\ AndBB(nOccupiedBB(a), b) = BBOf(T \ S)
       /\ \A s \in Sq : isSet(a, s) = (s \in S)
       /\ isAny(AndBB(a, b)) = (S \cap T # {})
       /\ popCount(a) = Cardinality(S)
       /\ isOneBit(a) = (Cardinality(S) = 1)
       /\ LET seq == foreachBB(a)
          IN  /\ {seq[n] : n \in DOMAIN seq} = S
              /\ \A m, n \in DOMAIN seq : m < n => seq[m] < seq[n]

\* The sliding attacks are the visible squares of the attacks to the edge.
SlidersSee(occ) ==
   LET o == BBOf(occ)
   IN  \A s \in Sq : /\ rookAttack(s, o) = BBOf(RookAttack(s, occ))
                     /\ bishopAttack(s, o) = BBOf(BishopAttack(s, occ))
                     /\ \A c \in Colors : lanceAttack(c, s, o) = BBOf(LanceAttack(c, s, occ))

\* The king's steps, from which the other steps are made, are what the sliders reach
\* on a full board.
KingStepsAreSlides ==
   \A s \in Sq : BBOf(KingAttack[s]) = OrBB(rookAttack(s, allOneBB), bishopAttack(s, allOneBB))

\* The shift of all pawns is the union of their attacks, for pawns that may move.
PawnsShift(c, S) == pawnAttack(c, BBOf(S)) = BBOf(UNION {PawnAttack[c][s] : s \in S})
=============================================================================
