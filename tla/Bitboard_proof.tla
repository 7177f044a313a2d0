--------------------------- MODULE Bitboard_proof ---------------------------
(***************************************************************************)
(* Theorems about the bitboards, for every set of occupied squares: the    *)
(* Boolean operations on the words are those on the sets, and the sliding  *)
(* attacks computed from the words are the visible squares of the rays.    *)
(*                                                                         *)
(* The argument for the sliders: the subtraction of one changes the bits   *)
(* up to the lowest one (MinusOne); a word turned round by bytes keeps the *)
(* order of bits that are eight or more apart, as those of a ray to the    *)
(* right are (Reversal, RaySpread); so one decrement cuts a ray to the     *)
(* left and one to the right at their first occupied squares (SweptRays).  *)
(* The numbers of the squares of a ray are in the order of the steps       *)
(* (Climb), which makes the cut what Between says (SeenOnRay).  For the    *)
(* tables of a file, occupied squares go through the index and back        *)
(* without loss but for the ends (ThroughIndex), which hide nothing        *)
(* (Walks).                                                                *)
(***************************************************************************)
EXTENDS Bitboard, FiniteSetTheorems, WellFoundedInduction, TLAPS

-----------------------------------------------------------------------------
(* The lowest one of a word, and the subtraction of one.                    *)
LEMMA Least == ASSUME NEW S \in SUBSET Nat, S # {} PROVE \E n \in S : \A m \in S : n <= m
<1> DEFINE R == OpToRel(<, Nat)
<1>1. IsWellFoundedOn(R, Nat)
  BY NatLessThanWellFounded
<1>2. \A x, y \in Nat : <<x, y>> \in R <=> x < y
  BY DEF OpToRel
<1> HIDE DEF R
<1>3. PICK n \in S : \A m \in S : ~ (<<m, n>> \in R)
  BY <1>1, WFMin
<1>4. ASSUME NEW m \in S PROVE n <= m
  <2>1. n \in Nat /\ m \in Nat
    OBVIOUS
  <2>2. ~ (m < n)
    BY <1>2, <1>3, <2>1, Zenon
  <2> QED BY <2>1, <2>2
<1> QED BY <1>4

(* The lowest one exists and is below the others.                           *)
LEMMA FirstOne == ASSUME NEW w \in Word, w # {}
                  PROVE  firstOneFromLSB(w) \in w /\ \A j \in w : firstOneFromLSB(w) <= j
<1>1. w \in SUBSET Nat
  BY DEF Word, BitNums
<1>2. \E k \in w : \A j \in w : k <= j
  BY <1>1, Least
<1> QED BY <1>2, Zenon DEF firstOneFromLSB

(* What changes by the subtraction, on a mask: the bits up to the lowest    *)
(* one.                                                                     *)
Upto(m, w) == {k \in m : \A j \in w : k <= j}

(* On a mask, the subtraction changes the bits up to the lowest one.        *)
LEMMA MinusOne == ASSUME NEW m \in Word, NEW w \in SUBSET m
                  PROVE  ((Minus1(w) \ w) \cup (w \ Minus1(w))) \cap m = Upto(m, w)
<1>1. CASE w = {}
  BY <1>1 DEF Minus1, Upto, Word
<1>2. CASE w # {}
  <2> DEFINE f == firstOneFromLSB(w)
  <2>1. w \in Word
    BY DEF Word
  <2>2. f \in w /\ \A j \in w : f <= j
    BY <1>2, <2>1, FirstOne
  <2>3. Minus1(w) = (w \ {f}) \cup 0 .. (f - 1)
    BY <1>2 DEF Minus1
  <2> HIDE DEF f
  <2>4. f \in Nat /\ \A k \in m : k \in Nat
    BY <2>1, <2>2 DEF Word, BitNums
  <2>5. ASSUME NEW k \in m
        PROVE  k \in (Minus1(w) \ w) \cup (w \ Minus1(w)) <=> \A j \in w : k <= j
    <3>1. k < f \/ k = f \/ f < k
      BY <2>4
    <3>2. CASE k < f
      <4>1. k \notin w /\ k \in 0 .. (f - 1)
        BY <2>2, <2>4, <3>2
      <4>2. \A j \in w : k <= j
        BY <2>2, <2>4, <3>2
      <4> QED BY <2>3, <4>1, <4>2
    <3>3. CASE k = f
      <4>1. k \in w /\ k \notin Minus1(w)
        BY <2>2, <2>3, <2>4, <3>3
      <4> QED BY <2>2, <3>3, <4>1
    <3>4. CASE f < k
      <4>1. k \notin 0 .. (f - 1) /\ k # f
        BY <2>4, <3>4
      <4>2. ~ (k <= f)
        BY <2>4, <3>4
      <4> QED BY <2>2, <2>3, <4>1, <4>2
    <3> QED BY <3>1, <3>2, <3>3, <3>4
  <2> QED BY <2>5 DEF Upto
<1> QED BY <1>1, <1>2

(* The two words as one number of 128 bits: a one in the low word leaves    *)
(* the high word as it is.                                                  *)
LEMMA BorrowedOne ==
  ASSUME NEW mh \in Word, NEW ml \in Word, NEW h \in SUBSET mh, NEW l \in SUBSET ml
  PROVE  LET b == IF l = {} THEN Minus1(h) ELSE h
         IN  ((b \ h) \cup (h \ b)) \cap mh = {k \in Upto(mh, h) : l = {}}
<1>1. CASE l = {}
  BY <1>1, MinusOne
<1>2. CASE l # {}
  BY <1>2
<1> QED BY <1>1, <1>2

-----------------------------------------------------------------------------
(* Bits and squares.                                                        *)
LEMMA PartBit == ASSUME NEW s \in Sq
                 PROVE  /\ part(s) \in 0 .. 1 /\ BitOf(s) \in BitNums /\ s = 63 * part(s) + BitOf(s)
                        /\ part(s) = 0 <=> s < 63
BY DEF Sq, part, BitOf, BitNums

(* The bit k of word i stands for a square.                                 *)
At(i, k) == 63 * i + k
IsSq(i, k) == At(i, k) \in Sq /\ part(At(i, k)) = i

(* The word of a set of squares, bit by bit.                                *)
LEMMA OnBoard == ASSUME NEW S \in SUBSET Sq, NEW i \in 0 .. 1
                 PROVE  BBOf(S)[i] = {k \in BitNums : IsSq(i, k) /\ At(i, k) \in S}
<1>1. BBOf(S)[i] = {BitOf(s) : s \in {t \in S : part(t) = i}}
  BY DEF BBOf
<1>2. ASSUME NEW s \in S, part(s) = i
      PROVE  BitOf(s) \in BitNums /\ At(i, BitOf(s)) = s /\ IsSq(i, BitOf(s))
  BY <1>2, PartBit DEF At, IsSq
<1>3. ASSUME NEW k \in BitNums, IsSq(i, k), At(i, k) \in S
      PROVE  BitOf(At(i, k)) = k /\ part(At(i, k)) = i
  BY <1>3 DEF At, IsSq, BitOf, BitNums
<1> QED BY <1>1, <1>2, <1>3

(* A set of squares is two words.                                           *)
LEMMA BBOfIsWords == ASSUME NEW S \in SUBSET Sq
                     PROVE  BBOf(S) \in Bitboards /\ BBOf(S) = [i \in 0 .. 1 |-> BBOf(S)[i]]
<1>1. \A i \in 0 .. 1 : BBOf(S)[i] \in Word
  BY OnBoard DEF Word
<1>2. BBOf(S) = [i \in 0 .. 1 |-> BBOf(S)[i]]
  BY DEF BBOf
<1> QED BY <1>1, <1>2 DEF Bitboards

(* The union is taken word by word.                                         *)
LEMMA OrIsUnion == ASSUME NEW S \in SUBSET Sq, NEW T \in SUBSET Sq
                   PROVE  OrBB(BBOf(S), BBOf(T)) = BBOf(S \cup T)
<1>1. \A i \in 0 .. 1 : BBOf(S)[i] \cup BBOf(T)[i] = BBOf(S \cup T)[i]
  BY OnBoard
<1>2. BBOf(S \cup T) = [i \in 0 .. 1 |-> BBOf(S \cup T)[i]]
  BY BBOfIsWords
<1> QED BY <1>1, <1>2 DEF OrBB

(* The operations of bitboard.hpp:67-125 on two words are those on the sets *)
(* of squares, for every two sets; the complement of emptyBB, an exclusive  *)
(* or with the squares, sets no unused bit.                                 *)
THEOREM OperationsAreOnSets ==
  ASSUME NEW S \in SUBSET Sq, NEW T \in SUBSET Sq
  PROVE  /\ AndBB(BBOf(S), BBOf(T)) = BBOf(S \cap T)
         /\ OrBB(BBOf(S), BBOf(T)) = BBOf(S \cup T)
         /\ XorBB(BBOf(S), BBOf(T)) = BBOf((S \cup T) \ (S \cap T))
         /\ AndNotBB(BBOf(S), BBOf(T)) = BBOf(S \ T)
         /\ emptyBB(BBOf(S)) = BBOf(Sq \ S)
<1>1. \A X \in SUBSET Sq : BBOf(X) = [i \in 0 .. 1 |-> BBOf(X)[i]]
  BY BBOfIsWords
<1>2. ASSUME NEW X \in SUBSET Sq, NEW Y \in SUBSET Sq
      PROVE  XorBB(BBOf(X), BBOf(Y)) = BBOf((X \cup Y) \ (X \cap Y))
  <2>1. (X \cup Y) \ (X \cap Y) \in SUBSET Sq
    OBVIOUS
  <2>2. BBOf((X \cup Y) \ (X \cap Y)) = [i \in 0 .. 1 |-> BBOf((X \cup Y) \ (X \cap Y))[i]]
    BY <1>1, <2>1, Zenon
  <2>3. \A i \in 0 .. 1 : (BBOf(X)[i] \ BBOf(Y)[i]) \cup (BBOf(Y)[i] \ BBOf(X)[i])
                            = BBOf((X \cup Y) \ (X \cap Y))[i]
    BY <2>1, OnBoard
  <2> QED BY <2>2, <2>3 DEF XorBB
<1>3. AndBB(BBOf(S), BBOf(T)) = BBOf(S \cap T)
  <2>1. S \cap T \in SUBSET Sq
    OBVIOUS
  <2>2. BBOf(S \cap T) = [i \in 0 .. 1 |-> BBOf(S \cap T)[i]]
    BY <1>1, <2>1, Zenon
  <2>3. \A i \in 0 .. 1 : BBOf(S)[i] \cap BBOf(T)[i] = BBOf(S \cap T)[i]
    BY <2>1, OnBoard
  <2> QED BY <2>2, <2>3 DEF AndBB
<1>4. AndNotBB(BBOf(S), BBOf(T)) = BBOf(S \ T)
  <2>1. S \ T \in SUBSET Sq
    OBVIOUS
  <2>2. BBOf(S \ T) = [i \in 0 .. 1 |-> BBOf(S \ T)[i]]
    BY <1>1, <2>1, Zenon
  <2>3. \A i \in 0 .. 1 : BBOf(S)[i] \ BBOf(T)[i] = BBOf(S \ T)[i]
    BY <2>1, OnBoard
  <2> QED BY <2>2, <2>3 DEF AndNotBB
<1>5. emptyBB(BBOf(S)) = BBOf(Sq \ S)
  <2>1. allOneBB = BBOf(Sq)
    <3>1. \A i \in 0 .. 1 : allOneBB[i] = BBOf(Sq)[i]
      <4>1. \A i \in 0 .. 1 : BBOf(Sq)[i] = {k \in BitNums : IsSq(i, k) /\ At(i, k) \in Sq}
        BY OnBoard
      <4>2. \A k \in BitNums : IsSq(0, k) <=> k \in 0 .. 62
        BY DEF IsSq, At, part, Sq, BitNums
      <4>3. \A k \in BitNums : IsSq(1, k) <=> k \in 0 .. 17
        BY DEF IsSq, At, part, Sq, BitNums
      <4>4. 0 .. 62 \subseteq BitNums /\ 0 .. 17 \subseteq BitNums
        BY DEF BitNums
      <4>5. allOneBB[0] = 0 .. 62 /\ allOneBB[1] = 0 .. 17
        BY DEF allOneBB, MkBB
      <4>6. BBOf(Sq)[0] = 0 .. 62
        BY <4>1, <4>2, <4>4 DEF IsSq
      <4>7. BBOf(Sq)[1] = 0 .. 17
        BY <4>1, <4>3, <4>4 DEF IsSq
      <4> QED BY <4>5, <4>6, <4>7
    <3>2. allOneBB = [i \in 0 .. 1 |-> allOneBB[i]]
      BY DEF allOneBB, MkBB
    <3>3. BBOf(Sq) = [i \in 0 .. 1 |-> BBOf(Sq)[i]]
      BY <1>1
    <3> QED BY <3>1, <3>2, <3>3
  <2>2. (S \cup Sq) \ (S \cap Sq) = Sq \ S
    OBVIOUS
  <2>3. XorBB(BBOf(S), BBOf(Sq)) = BBOf((S \cup Sq) \ (S \cap Sq))
    BY <1>2
  <2> QED BY <2>1, <2>2, <2>3 DEF emptyBB
<1> QED BY <1>2, <1>3, <1>4, <1>5, OrIsUnion

-----------------------------------------------------------------------------
(* The reversal of the bytes of a word.                                     *)
Rev(k) == (7 - (k \div 8)) * 8 + (k % 8)

(* It is its own inverse, and turns the order of bits eight or more apart.  *)
LEMMA Reversal == ASSUME NEW k \in BitNums
                  PROVE  /\ Rev(k) \in BitNums /\ Rev(Rev(k)) = k
                         /\ \A j \in BitNums : k + 8 <= j => Rev(j) < Rev(k)
<1>1. PICK b \in 0 .. 7, c \in 0 .. 7 : k = 8 * b + c
  BY DEF BitNums
<1>2. k \div 8 = b /\ k % 8 = c
  BY <1>1
<1>3. Rev(k) = 8 * (7 - b) + c
  BY <1>2 DEF Rev
<1>4. Rev(k) \div 8 = 7 - b /\ Rev(k) % 8 = c
  BY <1>3
<1>5. Rev(k) \in BitNums /\ Rev(Rev(k)) = k
  BY <1>1, <1>3, <1>4 DEF Rev, BitNums
<1>6. ASSUME NEW j \in BitNums, k + 8 <= j PROVE Rev(j) < Rev(k)
  <2>1. PICK d \in 0 .. 7, e \in 0 .. 7 : j = 8 * d + e
    BY DEF BitNums
  <2>2. j \div 8 = d /\ j % 8 = e
    BY <2>1
  <2>3. Rev(j) = 8 * (7 - d) + e
    BY <2>2 DEF Rev
  <2> QED BY <1>1, <1>3, <1>6, <2>1, <2>3
<1> QED BY <1>5, <1>6

(* The word with its bits moved.                                            *)
LEMMA BSwap == ASSUME NEW w \in Word
               PROVE  /\ bswap64(w) \in Word /\ bswap64(bswap64(w)) = w
                      /\ \A k \in BitNums : k \in bswap64(w) <=> Rev(k) \in w
<1>1. bswap64(w) = {k \in BitNums : Rev(k) \in w}
  BY DEF bswap64, Rev
<1>2. bswap64(bswap64(w)) = {k \in BitNums : Rev(k) \in bswap64(w)}
  BY DEF bswap64, Rev
<1> QED BY <1>1, <1>2, Reversal DEF Word

(* The bits of a ray to the right are at least a file, 8 or more bits, apart. *)
Spread(S) == \A t, u \in S : u < t => u + 8 <= t

(* A word turned round, cut off there, and turned back.                     *)
LEMMA TurnedUpto == ASSUME NEW m \in Word, Spread(m), NEW w \in SUBSET m
                    PROVE  bswap64(Upto(bswap64(m), bswap64(w))) = {k \in m : \A j \in w : j <= k}
<1>1. w \in Word /\ m \subseteq BitNums /\ w \subseteq BitNums
  BY DEF Word
<1>2. Upto(bswap64(m), bswap64(w)) \in Word
  BY BSwap DEF Upto, Word
<1>3. ASSUME NEW k \in BitNums
      PROVE  k \in bswap64(Upto(bswap64(m), bswap64(w))) <=> k \in m /\ \A j \in w : j <= k
  <2>1. k \in bswap64(Upto(bswap64(m), bswap64(w))) <=> Rev(k) \in Upto(bswap64(m), bswap64(w))
    BY <1>2, BSwap
  <2>2. Rev(k) \in bswap64(m) <=> k \in m
    BY BSwap, Reversal
  <2>3. ASSUME k \in m PROVE (\A i \in bswap64(w) : Rev(k) <= i) <=> (\A j \in w : j <= k)
    <3>1. ASSUME NEW j \in w PROVE Rev(k) <= Rev(j) <=> j <= k
      <4>1. j \in BitNums /\ j \in m /\ Rev(j) \in BitNums /\ Rev(k) \in BitNums
        BY <1>1, Reversal
      <4>2. j < k \/ j = k \/ k < j
        BY <4>1 DEF BitNums
      <4>3. CASE j < k
        <5>1. Rev(k) < Rev(j)
          BY <2>3, <4>1, <4>3, Reversal DEF Spread
        <5> QED BY <4>1, <4>3, <5>1 DEF BitNums
      <4>4. CASE j = k
        BY <4>1, <4>4 DEF BitNums
      <4>5. CASE k < j
        <5>1. Rev(j) < Rev(k)
          BY <2>3, <4>1, <4>5, Reversal DEF Spread
        <5> QED BY <4>1, <4>5, <5>1 DEF BitNums
      <4> QED BY <4>2, <4>3, <4>4, <4>5
    <3>2. \A i \in bswap64(w) : i \in BitNums /\ Rev(i) \in w /\ Rev(Rev(i)) = i
      BY <1>1, BSwap, Reversal DEF Word
    <3>3. \A j \in w : Rev(j) \in bswap64(w)
      BY <1>1, BSwap, Reversal
    <3> QED BY <3>1, <3>2, <3>3
  <2> QED BY <2>1, <2>2, <2>3 DEF Upto
<1>4. bswap64(Upto(bswap64(m), bswap64(w))) \subseteq BitNums
  BY <1>2, BSwap DEF Word
<1> QED BY <1>1, <1>3, <1>4

-----------------------------------------------------------------------------
(* One call of decrement on a ray to the left and one to the right.         *)
Swept(mask, o) ==
   LET both == unpack(byteReverse(o), o)
       hi == AndBB(both.hi, mask.hi)
       lo == AndBB(both.lo, mask.lo)
       less == decrement(hi, lo)
       back == unpack(AndBB(XorBB(less.hi, hi), mask.hi), AndBB(XorBB(less.lo, lo), mask.lo))
   IN  OrBB(byteReverse(back.hi), back.lo)

(* What changes in the two words of a register.                             *)
LowChange(ml, l) == ((Minus1(l) \ l) \cup (l \ Minus1(l))) \cap ml
HighChange(mh, h, l) ==
   LET b == IF l = {} THEN Minus1(h) ELSE h
   IN  ((b \ h) \cup (h \ b)) \cap mh

TwoWords(A, B, o) ==
   [i \in 0 .. 1 |->
      IF i = 0 THEN bswap64(HighChange(bswap64(B[0]), bswap64(o[0]) \cap bswap64(B[0]),
                                       bswap64(o[1]) \cap bswap64(B[1])))
                      \cup LowChange(A[0], o[0] \cap A[0])
               ELSE bswap64(LowChange(bswap64(B[1]), bswap64(o[1]) \cap bswap64(B[1])))
                      \cup HighChange(A[1], o[1] \cap A[1], o[0] \cap A[0])]

(* What the registers hold in the end.                                      *)
LEMMA SweptWords ==
  ASSUME NEW A \in Bitboards, NEW B \in Bitboards, NEW o \in Bitboards
  PROVE  Swept(unpack(byteReverse(B), A), o) = TwoWords(A, B, o)
<1> DEFINE mask == unpack(byteReverse(B), A)
<1> DEFINE both == unpack(byteReverse(o), o)
<1> DEFINE hi == AndBB(both.hi, mask.hi)
<1> DEFINE lo == AndBB(both.lo, mask.lo)
<1> DEFINE less == decrement(hi, lo)
<1> DEFINE xh == AndBB(XorBB(less.hi, hi), mask.hi)
<1> DEFINE xl == AndBB(XorBB(less.lo, lo), mask.lo)
<1> DEFINE back == unpack(xh, xl)
<1>1. Swept(mask, o) = OrBB(byteReverse(back.hi), back.lo)
  BY DEF Swept
<1>2. /\ mask.hi[0] = A[1] /\ mask.hi[1] = bswap64(B[0])
      /\ mask.lo[0] = A[0] /\ mask.lo[1] = bswap64(B[1])
  BY DEF unpack, byteReverse, MkBB
<1>3. /\ both.hi[0] = o[1] /\ both.hi[1] = bswap64(o[0])
      /\ both.lo[0] = o[0] /\ both.lo[1] = bswap64(o[1])
  BY DEF unpack, byteReverse, MkBB
<1> HIDE DEF mask, both
<1>4. /\ hi[0] = o[1] \cap A[1] /\ hi[1] = bswap64(o[0]) \cap bswap64(B[0])
      /\ lo[0] = o[0] \cap A[0] /\ lo[1] = bswap64(o[1]) \cap bswap64(B[1])
  BY <1>2, <1>3 DEF AndBB
<1> HIDE DEF hi, lo
<1>5. \A i \in 0 .. 1 : /\ less.lo[i] = Minus1(lo[i])
                         /\ less.hi[i] = IF lo[i] = {} THEN Minus1(hi[i]) ELSE hi[i]
  BY DEF decrement
<1> HIDE DEF less
<1>6. \A i \in 0 .. 1 : /\ xl[i] = LowChange(mask.lo[i], lo[i])
                         /\ xh[i] = HighChange(mask.hi[i], hi[i], lo[i])
  BY <1>5 DEF AndBB, XorBB, LowChange, HighChange
<1> HIDE DEF xh, xl
<1>7. /\ back.hi[0] = xl[1] /\ back.hi[1] = xh[1]
      /\ back.lo[0] = xl[0] /\ back.lo[1] = xh[0]
  BY DEF unpack, MkBB
<1> HIDE DEF back
<1>8. OrBB(byteReverse(back.hi), back.lo) =
        [i \in 0 .. 1 |-> IF i = 0 THEN bswap64(back.hi[1]) \cup back.lo[0]
                                   ELSE bswap64(back.hi[0]) \cup back.lo[1]]
  <2>1. byteReverse(back.hi) = [i \in 0 .. 1 |-> bswap64(back.hi[1 - i])]
    BY DEF byteReverse
  <2>2. ASSUME NEW i \in 0 .. 1
        PROVE  byteReverse(back.hi)[i] \cup back.lo[i] =
                 IF i = 0 THEN bswap64(back.hi[1]) \cup back.lo[0]
                          ELSE bswap64(back.hi[0]) \cup back.lo[1]
    <3>1. i = 0 \/ i = 1
      OBVIOUS
    <3> QED BY <2>1, <3>1
  <2> QED BY <2>2 DEF OrBB
<1>9. /\ xh[1] = HighChange(bswap64(B[0]), bswap64(o[0]) \cap bswap64(B[0]),
                           bswap64(o[1]) \cap bswap64(B[1]))
      /\ xl[0] = LowChange(A[0], o[0] \cap A[0])
      /\ xl[1] = LowChange(bswap64(B[1]), bswap64(o[1]) \cap bswap64(B[1]))
      /\ xh[0] = HighChange(A[1], o[1] \cap A[1], o[0] \cap A[0])
  <2>1. /\ xl[0] = LowChange(mask.lo[0], lo[0]) /\ xl[1] = LowChange(mask.lo[1], lo[1])
        /\ xh[0] = HighChange(mask.hi[0], hi[0], lo[0]) /\ xh[1] = HighChange(mask.hi[1], hi[1], lo[1])
    <3>1. 0 \in 0 .. 1 /\ 1 \in 0 .. 1
      OBVIOUS
    <3> QED BY <1>6, <3>1, Zenon
  <2> QED BY <1>2, <1>4, <2>1, Zenon
<1>10. Swept(mask, o) =
        [i \in 0 .. 1 |-> IF i = 0 THEN bswap64(xh[1]) \cup xl[0]
                                   ELSE bswap64(xl[1]) \cup xh[0]]
  BY <1>1, <1>7, <1>8, Zenon
<1> QED BY <1>9, <1>10 DEF mask, TwoWords

(* The squares of a ray up to the first one in S, on the two words.         *)
UptoFirst(A, S) == {t \in A : \A u \in S : t <= u}
FromLast(B, S) == {t \in B : \A u \in S : u <= t}

(* From the bits to the squares and back.                                   *)
LEMMA Ones == ASSUME NEW S \in SUBSET Sq, NEW i \in 0 .. 1
              PROVE  /\ \A k \in BBOf(S)[i] : k \in BitNums /\ At(i, k) \in S /\ part(At(i, k)) = i
                     /\ \A s \in S : part(s) = i => BitOf(s) \in BBOf(S)[i] /\ At(i, BitOf(s)) = s
<1>1. BBOf(S)[i] = {k \in BitNums : IsSq(i, k) /\ At(i, k) \in S}
  BY OnBoard
<1>2. ASSUME NEW s \in S, part(s) = i
      PROVE  BitOf(s) \in BitNums /\ At(i, BitOf(s)) = s /\ IsSq(i, BitOf(s))
  BY <1>2, PartBit DEF At, IsSq
<1> QED BY <1>1, <1>2 DEF IsSq

(* A ray to the left cut off, word by word.                                 *)
LEMMA LeftWords ==
  ASSUME NEW A \in SUBSET Sq, NEW S \in SUBSET A
  PROVE  /\ BBOf(UptoFirst(A, S))[0] = Upto(BBOf(A)[0], BBOf(S)[0])
         /\ BBOf(UptoFirst(A, S))[1] = {k \in Upto(BBOf(A)[1], BBOf(S)[1]) : BBOf(S)[0] = {}}
<1>1. S \in SUBSET Sq /\ UptoFirst(A, S) \in SUBSET Sq
  BY DEF UptoFirst
<1>2. \A i \in 0 .. 1 : /\ BBOf(UptoFirst(A, S))[i] = {k \in BitNums : IsSq(i, k) /\ At(i, k) \in UptoFirst(A, S)}
                         /\ BBOf(A)[i] = {k \in BitNums : IsSq(i, k) /\ At(i, k) \in A}
  BY <1>1, OnBoard
<1>3. ASSUME NEW i \in 0 .. 1, NEW k \in BitNums, IsSq(i, k)
      PROVE  (\A u \in S : At(i, k) <= u) <=>
               /\ \A j \in BBOf(S)[i] : k <= j
               /\ i = 1 => BBOf(S)[0] = {}
  <2>1. ASSUME NEW u \in S
        PROVE  At(i, k) <= u <=> (part(u) = i => k <= BitOf(u)) /\ (i = 1 => part(u) # 0)
    <3>1. u = 63 * part(u) + BitOf(u) /\ part(u) \in 0 .. 1 /\ BitOf(u) \in BitNums
          /\ (part(u) = 0 => BitOf(u) < 63)
      <4>1. u \in Sq
        BY <1>1
      <4> QED BY <4>1 DEF Sq, part, BitOf, BitNums
    <3>2. At(i, k) = 63 * i + k /\ (i = 0 => k < 63)
      BY <1>3 DEF At, IsSq, Sq, part, BitNums
    <3> QED BY <3>1, <3>2 DEF BitNums
  <2>2. ASSUME NEW j \in BBOf(S)[i] PROVE \E u \in S : part(u) = i /\ BitOf(u) = j
    <3>1. j \in BitNums /\ At(i, j) \in S /\ part(At(i, j)) = i
      BY <1>1, Ones
    <3>2. BitOf(At(i, j)) = j
      BY <3>1 DEF BitOf, At, BitNums
    <3> QED BY <3>1, <3>2
  <2>3. \A u \in S : part(u) = i => BitOf(u) \in BBOf(S)[i]
    BY <1>1, Ones
  <2>4. BBOf(S)[0] = {} <=> \A u \in S : part(u) # 0
    <3>1. 0 \in 0 .. 1
      OBVIOUS
    <3> QED BY <1>1, <3>1, Ones
  <2> QED BY <2>1, <2>2, <2>3, <2>4
<1>4. ASSUME NEW i \in 0 .. 1, NEW k \in BitNums
      PROVE  k \in BBOf(UptoFirst(A, S))[i] <=>
               /\ k \in BBOf(A)[i]
               /\ \A j \in BBOf(S)[i] : k <= j
               /\ i = 1 => BBOf(S)[0] = {}
  BY <1>2, <1>3 DEF UptoFirst
<1>5. \A i \in 0 .. 1 : BBOf(UptoFirst(A, S))[i] \subseteq BitNums /\ BBOf(A)[i] \subseteq BitNums
  BY <1>2
<1>6. BBOf(UptoFirst(A, S))[0] = Upto(BBOf(A)[0], BBOf(S)[0])
  <2>1. 0 \in 0 .. 1 /\ 0 # 1
    OBVIOUS
  <2> QED BY <2>1, <1>4, <1>5 DEF Upto
<1>7. BBOf(UptoFirst(A, S))[1] = {k \in Upto(BBOf(A)[1], BBOf(S)[1]) : BBOf(S)[0] = {}}
  <2>1. 1 \in 0 .. 1
    OBVIOUS
  <2> QED BY <2>1, <1>4, <1>5 DEF Upto
<1> QED BY <1>6, <1>7

(* A ray to the right cut off, word by word.                                *)
LEMMA RightWords ==
  ASSUME NEW B \in SUBSET Sq, NEW S \in SUBSET B
  PROVE  /\ BBOf(FromLast(B, S))[0] = {k \in BBOf(B)[0] : (\A j \in BBOf(S)[0] : j <= k) /\ BBOf(S)[1] = {}}
         /\ BBOf(FromLast(B, S))[1] = {k \in BBOf(B)[1] : \A j \in BBOf(S)[1] : j <= k}
<1>1. S \in SUBSET Sq /\ FromLast(B, S) \in SUBSET Sq
  BY DEF FromLast
<1>2. \A i \in 0 .. 1 : /\ BBOf(FromLast(B, S))[i] = {k \in BitNums : IsSq(i, k) /\ At(i, k) \in FromLast(B, S)}
                         /\ BBOf(B)[i] = {k \in BitNums : IsSq(i, k) /\ At(i, k) \in B}
  BY <1>1, OnBoard
<1>3. ASSUME NEW i \in 0 .. 1, NEW k \in BitNums, IsSq(i, k)
      PROVE  (\A u \in S : u <= At(i, k)) <=>
               /\ \A j \in BBOf(S)[i] : j <= k
               /\ i = 0 => BBOf(S)[1] = {}
  <2>1. ASSUME NEW u \in S
        PROVE  u <= At(i, k) <=> (part(u) = i => BitOf(u) <= k) /\ (i = 0 => part(u) # 1)
    <3>1. u = 63 * part(u) + BitOf(u) /\ part(u) \in 0 .. 1 /\ BitOf(u) \in BitNums
          /\ (part(u) = 0 => BitOf(u) < 63)
      <4>1. u \in Sq
        BY <1>1
      <4> QED BY <4>1 DEF Sq, part, BitOf, BitNums
    <3>2. At(i, k) = 63 * i + k /\ (i = 0 => k < 63)
      BY <1>3 DEF At, IsSq, Sq, part, BitNums
    <3> QED BY <3>1, <3>2 DEF BitNums
  <2>2. ASSUME NEW j \in BBOf(S)[i] PROVE \E u \in S : part(u) = i /\ BitOf(u) = j
    <3>1. j \in BitNums /\ At(i, j) \in S /\ part(At(i, j)) = i
      BY <1>1, Ones
    <3>2. BitOf(At(i, j)) = j
      BY <3>1 DEF BitOf, At, BitNums
    <3> QED BY <3>1, <3>2
  <2>3. \A u \in S : part(u) = i => BitOf(u) \in BBOf(S)[i]
    BY <1>1, Ones
  <2>4. BBOf(S)[1] = {} <=> \A u \in S : part(u) # 1
    <3>1. 1 \in 0 .. 1
      OBVIOUS
    <3> QED BY <1>1, <3>1, Ones
  <2> QED BY <2>1, <2>2, <2>3, <2>4
<1>4. ASSUME NEW i \in 0 .. 1, NEW k \in BitNums
      PROVE  k \in BBOf(FromLast(B, S))[i] <=>
               /\ k \in BBOf(B)[i]
               /\ \A j \in BBOf(S)[i] : j <= k
               /\ i = 0 => BBOf(S)[1] = {}
  BY <1>2, <1>3 DEF FromLast
<1>5. \A i \in 0 .. 1 : BBOf(FromLast(B, S))[i] \subseteq BitNums /\ BBOf(B)[i] \subseteq BitNums
  BY <1>2
<1>6. BBOf(FromLast(B, S))[0] = {k \in BBOf(B)[0] : (\A j \in BBOf(S)[0] : j <= k) /\ BBOf(S)[1] = {}}
  <2>1. 0 \in 0 .. 1
    OBVIOUS
  <2> QED BY <2>1, <1>4, <1>5
<1>7. BBOf(FromLast(B, S))[1] = {k \in BBOf(B)[1] : \A j \in BBOf(S)[1] : j <= k}
  <2>1. 1 \in 0 .. 1 /\ 0 # 1
    OBVIOUS
  <2> QED BY <2>1, <1>4, <1>5
<1> QED BY <1>6, <1>7

(* What changes, in terms of the lowest ones.                               *)
LEMMA Changes ==
  ASSUME NEW mh \in Word, NEW ml \in Word, NEW h \in SUBSET mh, NEW l \in SUBSET ml
  PROVE  /\ LowChange(ml, l) = Upto(ml, l)
         /\ l = {} => HighChange(mh, h, l) = Upto(mh, h)
         /\ l # {} => HighChange(mh, h, l) = {}
<1>1. LowChange(ml, l) = Upto(ml, l)
  BY MinusOne DEF LowChange
<1>2. HighChange(mh, h, l) = {k \in Upto(mh, h) : l = {}}
  BY BorrowedOne DEF HighChange
<1> QED BY <1>1, <1>2

(* A mask may be applied before or after the bytes are reversed.            *)
LEMMA SwapMask ==
  ASSUME NEW b \in Word, NEW o \in Word
  PROVE  /\ bswap64(b) \in Word
         /\ bswap64(o) \cap bswap64(b) = bswap64(o \cap b)
         /\ (bswap64(b) = {}) <=> (b = {})
<1>1. /\ bswap64(b) \in Word /\ bswap64(o) \in Word
      /\ \A k \in BitNums : k \in bswap64(b) <=> Rev(k) \in b
  BY BSwap
<1>2. bswap64(o) \cap bswap64(b) = bswap64(o \cap b)
  BY DEF bswap64
<1>3. ASSUME NEW k \in b PROVE Rev(k) \in bswap64(b)
  BY <1>1, Reversal DEF Word
<1> QED BY <1>1, <1>2, <1>3 DEF Word

(* The two words of a ray to the right.                                     *)
Downto(m, w) == {k \in m : \A j \in w : j <= k}
DowntoIf(m, w, v) == {k \in m : (\A j \in w : j <= k) /\ v = {}}

(* A ray to the right, turned round, cut off and turned back.               *)
LEMMA RightChanges ==
  ASSUME NEW b0 \in Word, NEW b1 \in Word, Spread(b0), Spread(b1),
         NEW q0 \in SUBSET b0, NEW q1 \in SUBSET b1
  PROVE  /\ bswap64(LowChange(bswap64(b1), bswap64(q1))) = Downto(b1, q1)
         /\ bswap64(HighChange(bswap64(b0), bswap64(q0), bswap64(q1))) = DowntoIf(b0, q0, q1)
<1>1. q0 \in Word /\ q1 \in Word /\ q0 \cap b0 = q0 /\ q1 \cap b1 = q1
  BY DEF Word
<1>2. PICK x0 \in Word : x0 = bswap64(b0)
  BY SwapMask
<1>3. PICK x1 \in Word : x1 = bswap64(b1)
  BY SwapMask
<1>4. PICK y0 \in SUBSET x0 : y0 = bswap64(q0)
  BY <1>1, <1>2, SwapMask
<1>5. PICK y1 \in SUBSET x1 : y1 = bswap64(q1)
  BY <1>1, <1>3, SwapMask
<1>6. (y1 = {}) <=> (q1 = {})
  BY <1>1, <1>5, SwapMask
<1>7. LowChange(x1, y1) = Upto(x1, y1)
  BY Changes
<1>8. y1 = {} => HighChange(x0, y0, y1) = Upto(x0, y0)
  BY Changes
<1>9. y1 # {} => HighChange(x0, y0, y1) = {}
  BY Changes
<1>10. bswap64(Upto(x0, y0)) = {k \in b0 : \A j \in q0 : j <= k}
  BY <1>2, <1>4, TurnedUpto
<1>11. bswap64(Upto(x1, y1)) = {k \in b1 : \A j \in q1 : j <= k}
  BY <1>3, <1>5, TurnedUpto
<1>12. bswap64(LowChange(x1, y1)) = {k \in b1 : \A j \in q1 : j <= k}
  BY <1>7, <1>11, Zenon
<1>13. bswap64(HighChange(x0, y0, y1)) = {k \in b0 : (\A j \in q0 : j <= k) /\ q1 = {}}
  <2>1. CASE q1 = {}
    <3>1. {k \in b0 : (\A j \in q0 : j <= k) /\ q1 = {}} = {k \in b0 : \A j \in q0 : j <= k}
      BY <2>1
    <3>2. HighChange(x0, y0, y1) = Upto(x0, y0)
      BY <1>6, <1>8, <2>1
    <3> QED BY <1>10, <3>1, <3>2, Zenon
  <2>2. CASE q1 # {}
    <3>1. bswap64({}) = {}
      BY DEF bswap64
    <3>2. HighChange(x0, y0, y1) = {}
      BY <1>6, <1>9, <2>2
    <3>3. {k \in b0 : (\A j \in q0 : j <= k) /\ q1 = {}} = {}
      BY <2>2
    <3> QED BY <3>1, <3>2, <3>3, Zenon
  <2> QED BY <2>1, <2>2
<1>14. bswap64(LowChange(x1, y1)) = Downto(b1, q1)
  BY <1>12 DEF Downto
<1>15. bswap64(HighChange(x0, y0, y1)) = DowntoIf(b0, q0, q1)
  BY <1>13 DEF DowntoIf
<1> QED BY <1>2, <1>3, <1>4, <1>5, <1>14, <1>15, Zenon

(* Squares that are apart are bits that are apart.                          *)
LEMMA SpreadWords == ASSUME NEW B \in SUBSET Sq, Spread(B), NEW i \in 0 .. 1 PROVE Spread(BBOf(B)[i])
<1>1. SUFFICES ASSUME NEW t \in BBOf(B)[i], NEW u \in BBOf(B)[i], u < t PROVE u + 8 <= t
  BY DEF Spread
<1>2. t \in BitNums /\ u \in BitNums /\ At(i, t) \in B /\ At(i, u) \in B
  BY Ones
<1>3. At(i, u) < At(i, t)
  BY <1>1, <1>2 DEF At, BitNums
<1>4. At(i, u) + 8 <= At(i, t)
  BY <1>2, <1>3 DEF Spread
<1> QED BY <1>2, <1>4 DEF At, BitNums

(* One ray to the left and one to the right: Qugiy's subtraction finds the  *)
(* squares up to and with the first occupied one, whatever is occupied.     *)
LEMMA SweptRays ==
  ASSUME NEW A \in SUBSET Sq, NEW B \in SUBSET Sq, Spread(B), NEW occ \in SUBSET Sq
  PROVE  Swept(ToMask(A, B), BBOf(occ)) = BBOf(UptoFirst(A, occ \cap A) \cup FromLast(B, occ \cap B))
<1> DEFINE a == BBOf(A)
<1> DEFINE b == BBOf(B)
<1> DEFINE o == BBOf(occ)
<1> DEFINE p == BBOf(occ \cap A)
<1> DEFINE q == BBOf(occ \cap B)
<1> DEFINE L == UptoFirst(A, occ \cap A)
<1> DEFINE R == FromLast(B, occ \cap B)
<1>1. a \in Bitboards /\ b \in Bitboards /\ o \in Bitboards /\ p \in Bitboards /\ q \in Bitboards
  BY BBOfIsWords
<1>2. \A i \in 0 .. 1 : /\ a[i] \in Word /\ b[i] \in Word /\ o[i] \in Word
                         /\ p[i] \in SUBSET a[i] /\ q[i] \in SUBSET b[i]
                         /\ p[i] \in Word /\ q[i] \in Word
                         /\ o[i] \cap a[i] = p[i] /\ o[i] \cap b[i] = q[i]
  <2>1. \A i \in 0 .. 1 : /\ a[i] = {k \in BitNums : IsSq(i, k) /\ At(i, k) \in A}
                           /\ b[i] = {k \in BitNums : IsSq(i, k) /\ At(i, k) \in B}
                           /\ o[i] = {k \in BitNums : IsSq(i, k) /\ At(i, k) \in occ}
                           /\ p[i] = {k \in BitNums : IsSq(i, k) /\ At(i, k) \in occ \cap A}
                           /\ q[i] = {k \in BitNums : IsSq(i, k) /\ At(i, k) \in occ \cap B}
    BY OnBoard
  <2> HIDE DEF a, b, o, p, q
  <2> QED BY <2>1 DEF Word
<1>4. Swept(ToMask(A, B), o) = TwoWords(a, b, o)
  <2>1. ToMask(A, B) = unpack(byteReverse(b), a)
    BY DEF ToMask
  <2> HIDE DEF o, a, b
  <2>2. a \in Bitboards /\ b \in Bitboards /\ o \in Bitboards
    BY <1>1
  <2>3. Swept(unpack(byteReverse(b), a), o) = TwoWords(a, b, o)
    BY <2>2, SweptWords, Zenon
  <2> QED BY <2>1, <2>3, Zenon
<1>5. \A i \in 0 .. 1 : Spread(b[i])
  BY SpreadWords
<1>6. /\ BBOf(L)[0] = Upto(a[0], p[0])
      /\ BBOf(L)[1] = {k \in Upto(a[1], p[1]) : p[0] = {}}
  BY LeftWords
<1>7. /\ BBOf(R)[0] = {k \in b[0] : (\A j \in q[0] : j <= k) /\ q[1] = {}}
      /\ BBOf(R)[1] = {k \in b[1] : \A j \in q[1] : j <= k}
  BY RightWords
<1>8. /\ L \in SUBSET Sq /\ R \in SUBSET Sq
  BY DEF UptoFirst, FromLast
<1>9. BBOf(L \cup R) = [i \in 0 .. 1 |-> BBOf(L)[i] \cup BBOf(R)[i]]
  <2> HIDE DEF L, R
  <2> QED BY <1>8, OrIsUnion DEF OrBB
<1> HIDE DEF a, b, o, p, q, L, R
<1>10. /\ a[0] \in Word /\ b[0] \in Word /\ o[0] \in Word
       /\ p[0] \in SUBSET a[0] /\ q[0] \in SUBSET b[0]
       /\ o[0] \cap a[0] = p[0] /\ o[0] \cap b[0] = q[0] /\ Spread(b[0])
  <2>1. 0 \in 0 .. 1
    OBVIOUS
  <2>2. /\ a[0] \in Word /\ b[0] \in Word /\ o[0] \in Word
        /\ p[0] \in SUBSET a[0] /\ q[0] \in SUBSET b[0]
        /\ o[0] \cap a[0] = p[0] /\ o[0] \cap b[0] = q[0]
    BY <1>2, <2>1, Zenon
  <2>3. Spread(b[0])
    BY <1>5, <2>1, Zenon
  <2> QED BY <2>2, <2>3
<1>11. /\ a[1] \in Word /\ b[1] \in Word /\ o[1] \in Word
       /\ p[1] \in SUBSET a[1] /\ q[1] \in SUBSET b[1]
       /\ o[1] \cap a[1] = p[1] /\ o[1] \cap b[1] = q[1] /\ Spread(b[1])
  <2>1. 1 \in 0 .. 1
    OBVIOUS
  <2>2. /\ a[1] \in Word /\ b[1] \in Word /\ o[1] \in Word
        /\ p[1] \in SUBSET a[1] /\ q[1] \in SUBSET b[1]
        /\ o[1] \cap a[1] = p[1] /\ o[1] \cap b[1] = q[1]
    BY <1>2, <2>1, Zenon
  <2>3. Spread(b[1])
    BY <1>5, <2>1, Zenon
  <2> QED BY <2>2, <2>3
<1>12. LowChange(a[0], p[0]) = BBOf(L)[0] /\ HighChange(a[1], p[1], p[0]) = BBOf(L)[1]
  <2>1. /\ LowChange(a[0], p[0]) = Upto(a[0], p[0])
        /\ p[0] = {} => HighChange(a[1], p[1], p[0]) = Upto(a[1], p[1])
        /\ p[0] # {} => HighChange(a[1], p[1], p[0]) = {}
    <3>1. /\ a[0] \in Word /\ p[0] \in SUBSET a[0]
          /\ a[1] \in Word /\ p[1] \in SUBSET a[1]
      BY <1>10, <1>11
    <3> QED BY <3>1, Changes, Zenon
  <2> QED BY <1>6, <2>1
<1>13. /\ bswap64(LowChange(bswap64(b[1]), bswap64(q[1]))) = BBOf(R)[1]
       /\ bswap64(HighChange(bswap64(b[0]), bswap64(q[0]), bswap64(q[1]))) = BBOf(R)[0]
  <2>1. /\ bswap64(LowChange(bswap64(b[1]), bswap64(q[1]))) = Downto(b[1], q[1])
        /\ bswap64(HighChange(bswap64(b[0]), bswap64(q[0]), bswap64(q[1]))) = DowntoIf(b[0], q[0], q[1])
    <3>1. /\ b[0] \in Word /\ q[0] \in SUBSET b[0] /\ Spread(b[0])
          /\ b[1] \in Word /\ q[1] \in SUBSET b[1] /\ Spread(b[1])
      BY <1>10, <1>11
    <3> QED BY <3>1, RightChanges, Zenon
  <2>2. BBOf(R)[1] = Downto(b[1], q[1]) /\ BBOf(R)[0] = DowntoIf(b[0], q[0], q[1])
    BY <1>7 DEF Downto, DowntoIf
  <2> QED BY <2>1, <2>2, Zenon
<1>14. /\ bswap64(o[0]) \cap bswap64(b[0]) = bswap64(q[0])
       /\ bswap64(o[1]) \cap bswap64(b[1]) = bswap64(q[1])
  <2>1. /\ bswap64(o[0]) \cap bswap64(b[0]) = bswap64(o[0] \cap b[0])
        /\ bswap64(o[1]) \cap bswap64(b[1]) = bswap64(o[1] \cap b[1])
    BY <1>10, <1>11, SwapMask
  <2> QED BY <1>10, <1>11, <2>1
<1>15. Swept(ToMask(A, B), o) = [i \in 0 .. 1 |-> IF i = 0 THEN BBOf(R)[0] \cup BBOf(L)[0]
                                                         ELSE BBOf(R)[1] \cup BBOf(L)[1]]
  <2>1. TwoWords(a, b, o) = [i \in 0 .. 1 |->
      IF i = 0 THEN bswap64(HighChange(bswap64(b[0]), bswap64(q[0]), bswap64(q[1])))
                      \cup LowChange(a[0], p[0])
               ELSE bswap64(LowChange(bswap64(b[1]), bswap64(q[1])))
                      \cup HighChange(a[1], p[1], p[0])]
    BY <1>10, <1>11, <1>14 DEF TwoWords
  <2> QED BY <1>4, <1>12, <1>13, <2>1, Zenon
<1>16. ASSUME NEW i \in 0 .. 1
       PROVE  BBOf(L)[i] \cup BBOf(R)[i] = IF i = 0 THEN BBOf(R)[0] \cup BBOf(L)[0]
                                                   ELSE BBOf(R)[1] \cup BBOf(L)[1]
  <2>1. i = 0 \/ i = 1
    OBVIOUS
  <2> QED BY <2>1
<1>17. Swept(ToMask(A, B), o) = BBOf(L \cup R)
  BY <1>9, <1>15, <1>16
<1> QED BY <1>17 DEF o, L, R

-----------------------------------------------------------------------------
(* The file and the rank of a square, and the square of a file and a rank.  *)
LEMMA Coordinates == ASSUME NEW s \in Sq
                     PROVE  File(s) \in 0 .. 8 /\ Rank(s) \in 0 .. 8 /\ s = 9 * File(s) + Rank(s)
<1>1. PICK f \in 0 .. 8, r \in 0 .. 8 : s = 9 * f + r
  BY DEF Sq
<1>2. s \div 9 = f /\ s % 9 = r
  BY <1>1
<1> QED BY <1>1, <1>2 DEF File, Rank

(* The square of a file and a rank.                                         *)
LEMMA SquareOf == ASSUME NEW f \in 0 .. 8, NEW r \in 0 .. 8
                  PROVE  9 * f + r \in Sq /\ File(9 * f + r) = f /\ Rank(9 * f + r) = r
<1>1. (9 * f + r) \div 9 = f /\ (9 * f + r) % 9 = r
  OBVIOUS
<1> QED BY <1>1 DEF Sq, File, Rank

(* A square is known by its file and rank.                                  *)
LEMMA SameSquare == ASSUME NEW s \in Sq, NEW t \in Sq, File(s) = File(t), Rank(s) = Rank(t) PROVE s = t
BY Coordinates

(* A division without rest.                                                 *)
LEMMA DivExact == ASSUME NEW n \in 1 .. 8, NEW d \in Int PROVE (n * d) \div n = d
<1>1. CASE n = 1
  BY <1>1
<1>2. CASE n = 2
  BY <1>2
<1>3. CASE n = 3
  BY <1>3
<1>4. CASE n = 4
  BY <1>4
<1>5. CASE n = 5
  BY <1>5
<1>6. CASE n = 6
  BY <1>6
<1>7. CASE n = 7
  BY <1>7
<1>8. CASE n = 8
  BY <1>8
<1> QED BY <1>1, <1>2, <1>3, <1>4, <1>5, <1>6, <1>7, <1>8

Directions == {-1, 0, 1}

(* Multiplication by a direction.                                           *)
LEMMA Times == ASSUME NEW d \in Directions, NEW n \in Int
               PROVE  /\ n * d \in Int
                      /\ d = -1 => n * d = -n
                      /\ d = 0 => n * d = 0
                      /\ d = 1 => n * d = n
BY DEF Directions

(* The number a walk adds to a square is that of its files and ranks.       *)
LEMMA Distribute == ASSUME NEW df \in Directions, NEW dr \in Directions, NEW n \in Int
                    PROVE  n * (9 * df + dr) = 9 * (n * df) + n * dr
BY DEF Directions

(* What n steps in a direction add to a file or a rank.                     *)
Moved(n, d, x) == /\ x \in Int
                  /\ d = -1 => x = -n
                  /\ d = 0 => x = 0
                  /\ d = 1 => x = n

(* n steps, as a product.                                                   *)
LEMMA IsMoved == ASSUME NEW d \in Directions, NEW n \in Int PROVE n * d \in Int /\ Moved(n, d, n * d)
BY Times DEF Moved

(* A square n steps away, x files and y ranks off.                          *)
LEMMA OnLine ==
  ASSUME NEW s \in Sq, NEW t \in Sq, NEW df \in Directions, NEW dr \in Directions, df # 0 \/ dr # 0,
         NEW n \in 1 .. 8, NEW x \in Int, NEW y \in Int, Moved(n, df, x), Moved(n, dr, y),
         File(t) = File(s) + x, Rank(t) = Rank(s) + y
  PROVE  /\ Relation[s][t] # "Misc"
         /\ (IF File(s) = File(t) THEN Dist(Rank(s), Rank(t)) ELSE Dist(File(s), File(t))) = n
         /\ t - s = 9 * x + y
<1>1. /\ File(s) \in 0 .. 8 /\ Rank(s) \in 0 .. 8 /\ s = 9 * File(s) + Rank(s)
      /\ File(t) \in 0 .. 8 /\ Rank(t) \in 0 .. 8 /\ t = 9 * File(t) + Rank(t)
  BY Coordinates
<1>2. PICK f \in 0 .. 8, g \in 0 .. 8 : f = File(s) /\ g = File(t)
  BY <1>1
<1>3. PICK r \in 0 .. 8, q \in 0 .. 8 : r = Rank(s) /\ q = Rank(t)
  BY <1>1
<1>4. s \in Int /\ t \in Int /\ s = 9 * f + r /\ t = 9 * g + q
  BY <1>1, <1>2, <1>3 DEF Sq
<1>5. g = f + x /\ q = r + y
  BY <1>2, <1>3
<1>6. g = f - n \/ g = f \/ g = f + n
  BY <1>5 DEF Moved, Directions
<1>7. q = r - n \/ q = r \/ q = r + n
  BY <1>5 DEF Moved, Directions
<1>8. g # f \/ q # r
  BY <1>5 DEF Moved, Directions
<1>9. Relation[s][t] # "Misc"
  <2>1. s # t
    BY <1>4, <1>8
  <2>2. f = g \/ r = q \/ r - q = f - g \/ r - q = g - f
    BY <1>6, <1>7
  <2>3. Relation[s][t] =
          CASE s = t -> "Misc"
            [] s # t /\ File(s) = File(t) -> "File"
            [] s # t /\ Rank(s) = Rank(t) -> "Rank"
            [] s # t /\ Rank(s) - Rank(t) = File(s) - File(t) -> "NESW"
            [] s # t /\ Rank(s) - Rank(t) = File(t) - File(s) -> "NWSE"
            [] OTHER -> "Misc"
    BY DEF Relation
  <2> QED BY <1>2, <1>3, <2>1, <2>2, <2>3
<1>10. g # f => Dist(f, g) = n
  BY <1>6 DEF Dist
<1>11. g = f => Dist(r, q) = n
  BY <1>7, <1>8 DEF Dist
<1>12. t - s = 9 * x + y
  BY <1>4, <1>5
<1> QED BY <1>2, <1>3, <1>9, <1>10, <1>11, <1>12, Zenon

(* The squares in between are on the board.                                 *)
LEMMA InBetween ==
  ASSUME NEW f \in 0 .. 8, NEW d \in Directions, NEW n \in 1 .. 8, NEW k \in 1 .. n - 1,
         NEW x \in Int, NEW v \in Int, Moved(n, d, x), Moved(k, d, v), f + x \in 0 .. 8
  PROVE  f + v \in 0 .. 8
BY DEF Moved, Directions

(* Between walks from s to the square n steps away.                         *)
LEMMA BetweenRay ==
  ASSUME NEW s \in Sq, NEW t \in Sq, NEW df \in Directions, NEW dr \in Directions, df # 0 \/ dr # 0,
         NEW n \in 1 .. 8, File(t) = File(s) + n * df, Rank(t) = Rank(s) + n * dr
  PROVE  Between[s][t] = {u \in Sq : \E k \in 1 .. n - 1 : /\ File(u) = File(s) + k * df
                                                          /\ Rank(u) = Rank(s) + k * dr}
<1>1. /\ File(s) \in 0 .. 8 /\ Rank(s) \in 0 .. 8 /\ s = 9 * File(s) + Rank(s)
      /\ File(t) \in 0 .. 8 /\ Rank(t) \in 0 .. 8
  BY Coordinates
<1>2. n \in Int /\ n * df \in Int /\ n * dr \in Int /\ Moved(n, df, n * df) /\ Moved(n, dr, n * dr)
  <2>1. n \in Int
    OBVIOUS
  <2> QED BY <2>1, IsMoved, Zenon
<1>3. /\ Relation[s][t] # "Misc"
      /\ (IF File(s) = File(t) THEN Dist(Rank(s), Rank(t)) ELSE Dist(File(s), File(t))) = n
      /\ t - s = 9 * (n * df) + n * dr
  BY <1>1, <1>2, OnLine
<1>5. Between[s][t] = {s + k * ((t - s) \div n) : k \in 1 .. n - 1}
  BY <1>3 DEF Between
<1>6. t - s = n * (9 * df + dr)
  BY <1>2, <1>3, Distribute, Zenon
<1>7. (t - s) \div n = 9 * df + dr
  <2>1. 9 * df + dr \in Int
    BY DEF Directions
  <2> QED BY <1>6, <2>1, DivExact
<1>8. ASSUME NEW k \in 1 .. n - 1
      PROVE  /\ s + k * (9 * df + dr) \in Sq
             /\ File(s + k * (9 * df + dr)) = File(s) + k * df
             /\ Rank(s + k * (9 * df + dr)) = Rank(s) + k * dr
  <2>1. k \in Int
    OBVIOUS
  <2>2. k * df \in Int /\ k * dr \in Int /\ Moved(k, df, k * df) /\ Moved(k, dr, k * dr)
    BY <2>1, IsMoved, Zenon
  <2>3. File(s) + n * df \in 0 .. 8 /\ Rank(s) + n * dr \in 0 .. 8
    BY <1>1, Zenon
  <2>4. File(s) + k * df \in 0 .. 8 /\ Rank(s) + k * dr \in 0 .. 8
    BY <1>1, <1>2, <2>2, <2>3, InBetween, Zenon
  <2>5. k * (9 * df + dr) = 9 * (k * df) + k * dr
    BY <2>1, Distribute, Zenon
  <2>6. s + (9 * (k * df) + k * dr) = 9 * (File(s) + k * df) + (Rank(s) + k * dr)
    BY <1>1, <2>2
  <2>7. /\ 9 * (File(s) + k * df) + (Rank(s) + k * dr) \in Sq
        /\ File(9 * (File(s) + k * df) + (Rank(s) + k * dr)) = File(s) + k * df
        /\ Rank(9 * (File(s) + k * df) + (Rank(s) + k * dr)) = Rank(s) + k * dr
    BY <2>4, SquareOf, Zenon
  <2> QED BY <2>5, <2>6, <2>7, Zenon
<1>9. Between[s][t] = {s + k * (9 * df + dr) : k \in 1 .. n - 1}
  BY <1>5, <1>7, Zenon
<1>10. ASSUME NEW u \in Sq, NEW k \in 1 .. n - 1, File(u) = File(s) + k * df, Rank(u) = Rank(s) + k * dr
       PROVE  u = s + k * (9 * df + dr)
  BY <1>8, <1>10, SameSquare, Zenon
<1> QED BY <1>8, <1>9, <1>10, Zenon

(* The number that a step adds to a square: its sign tells whether the ray  *)
(* goes to the left.                                                        *)
LEMMA Climb == ASSUME NEW df \in Directions, NEW dr \in Directions, df # 0 \/ dr # 0,
                      NEW s \in Int, NEW k \in Int, NEW n \in Int
               PROVE  /\ 9 * df + dr # 0
                      /\ 0 < 9 * df + dr => (s + k * (9 * df + dr) < s + n * (9 * df + dr) <=> k < n)
                      /\ 9 * df + dr < 0 => (s + n * (9 * df + dr) < s + k * (9 * df + dr) <=> k < n)
<1>1. PICK D \in {-10, -9, -8, -1, 1, 8, 9, 10} : D = 9 * df + dr
  BY DEF Directions
<1>2. D # 0
  OBVIOUS
<1>3. 0 < D => (s + k * D < s + n * D <=> k < n)
  <2>1. CASE D = 1
    BY <2>1
  <2>2. CASE D = 8
    BY <2>2
  <2>3. CASE D = 9
    BY <2>3
  <2>4. CASE D = 10
    BY <2>4
  <2> QED BY <2>1, <2>2, <2>3, <2>4
<1>4. D < 0 => (s + n * D < s + k * D <=> k < n)
  <2>1. CASE D = -1
    BY <2>1
  <2>2. CASE D = -8
    BY <2>2
  <2>3. CASE D = -9
    BY <2>3
  <2>4. CASE D = -10
    BY <2>4
  <2> QED BY <2>1, <2>2, <2>3, <2>4
<1> QED BY <1>1, <1>2, <1>3, <1>4, Zenon

(* The number of the square n steps away.                                   *)
LEMMA RayPoint ==
  ASSUME NEW s \in Sq, NEW df \in Directions, NEW dr \in Directions,
         NEW t \in Sq, NEW n \in Int, File(t) = File(s) + n * df, Rank(t) = Rank(s) + n * dr
  PROVE  t = s + n * (9 * df + dr)
<1>1. /\ File(s) \in 0 .. 8 /\ Rank(s) \in 0 .. 8 /\ s = 9 * File(s) + Rank(s)
      /\ File(t) \in 0 .. 8 /\ Rank(t) \in 0 .. 8 /\ t = 9 * File(t) + Rank(t)
  BY Coordinates
<1>2. n * (9 * df + dr) = 9 * (n * df) + n * dr
  BY Distribute
<1>3. PICK x \in Int, y \in Int : x = n * df /\ y = n * dr
  BY IsMoved
<1>4. File(t) = File(s) + x /\ Rank(t) = Rank(s) + y
  BY <1>3, Zenon
<1>5. t = s + (9 * x + y)
  <2>1. PICK f \in 0 .. 8, g \in 0 .. 8 : f = File(s) /\ g = File(t)
    BY <1>1
  <2>2. PICK r \in 0 .. 8, q \in 0 .. 8 : r = Rank(s) /\ q = Rank(t)
    BY <1>1
  <2>3. g = f + x /\ q = r + y /\ s = 9 * f + r /\ t = 9 * g + q
    BY <1>1, <1>4, <2>1, <2>2, Zenon
  <2> QED BY <2>3
<1> QED BY <1>2, <1>3, <1>5, Zenon

(* The squares between s and a square of one of its rays.                   *)
LEMMA BetweenOrder ==
  ASSUME NEW s \in Sq, NEW df \in Directions, NEW dr \in Directions, df # 0 \/ dr # 0,
         NEW t \in Ray(s, df, dr)
  PROVE  /\ 0 < 9 * df + dr => Between[s][t] = {u \in Ray(s, df, dr) : u < t}
         /\ 9 * df + dr < 0 => Between[s][t] = {u \in Ray(s, df, dr) : t < u}
<1>1. PICK n \in 1 .. 8 : File(t) = File(s) + n * df /\ Rank(t) = Rank(s) + n * dr
  BY DEF Ray
<1>2. t \in Sq
  BY DEF Ray
<1>3. Between[s][t] = {u \in Sq : \E k \in 1 .. n - 1 : /\ File(u) = File(s) + k * df
                                                       /\ Rank(u) = Rank(s) + k * dr}
  BY <1>1, <1>2, BetweenRay
<1>4. n \in Int /\ s \in Int
  BY DEF Sq
<1>5. t = s + n * (9 * df + dr)
  BY <1>1, <1>2, <1>4, RayPoint
<1>6. ASSUME NEW u \in Sq
      PROVE  u \in Between[s][t] <=>
               /\ u \in Ray(s, df, dr)
               /\ 0 < 9 * df + dr => u < t
               /\ 9 * df + dr < 0 => t < u
  <2>1. ASSUME NEW k \in 1 .. 8, File(u) = File(s) + k * df, Rank(u) = Rank(s) + k * dr
        PROVE  k \in 1 .. n - 1 <=>
                 /\ 0 < 9 * df + dr => u < t
                 /\ 9 * df + dr < 0 => t < u
    <3>1. k \in Int
      OBVIOUS
    <3>2. u = s + k * (9 * df + dr)
      BY <2>1, <3>1, RayPoint
    <3>3. k \in 1 .. n - 1 <=> k < n
      BY <1>4
    <3>4. /\ 9 * df + dr # 0
          /\ 0 < 9 * df + dr => (u < t <=> k < n)
          /\ 9 * df + dr < 0 => (t < u <=> k < n)
      BY <1>4, <1>5, <3>1, <3>2, Climb
    <3>5. 0 < 9 * df + dr \/ 9 * df + dr < 0
      BY <3>4 DEF Directions
    <3>6. ~ (0 < 9 * df + dr /\ 9 * df + dr < 0)
      BY DEF Directions
    <3> QED BY <3>3, <3>4, <3>5, <3>6, Zenon
  <2>2. \A k \in 1 .. n - 1 : k \in 1 .. 8
    BY <1>1
  <2>3. u \in Ray(s, df, dr) <=> \E k \in 1 .. 8 : File(u) = File(s) + k * df /\ Rank(u) = Rank(s) + k * dr
    BY DEF Ray
  <2>4. u \in Between[s][t] <=> \E k \in 1 .. n - 1 : File(u) = File(s) + k * df /\ Rank(u) = Rank(s) + k * dr
    BY <1>3, Zenon
  <2> QED BY <2>1, <2>2, <2>3, <2>4, Zenon
<1>7. Between[s][t] \subseteq Sq /\ Ray(s, df, dr) \subseteq Sq
  BY <1>3 DEF Ray
<1>8. ~ (0 < 9 * df + dr /\ 9 * df + dr < 0)
  BY DEF Directions
<1> QED BY <1>6, <1>7, <1>8, Zenon

(* The squares of a ray that are seen from s.                               *)
Seen(s, S, occ) == {t \in S : \A b \in Between[s][t] : b \notin occ}

(* What is seen along a ray is the ray cut off at the first occupied square. *)
LEMMA SeenOnRay ==
  ASSUME NEW s \in Sq, NEW df \in Directions, NEW dr \in Directions, NEW occ \in SUBSET Sq
  PROVE  /\ 0 < 9 * df + dr =>
              Seen(s, Ray(s, df, dr), occ) = UptoFirst(Ray(s, df, dr), occ \cap Ray(s, df, dr))
         /\ 9 * df + dr < 0 =>
              Seen(s, Ray(s, df, dr), occ) = FromLast(Ray(s, df, dr), occ \cap Ray(s, df, dr))
<1> DEFINE R == Ray(s, df, dr)
<1>1. R \subseteq Sq
  BY DEF Ray
<1>2. ASSUME NEW t \in R, 0 < 9 * df + dr
      PROVE  (\A b \in Between[s][t] : b \notin occ) <=> \A u \in occ \cap R : t <= u
  <2>1. df # 0 \/ dr # 0
    BY <1>2
  <2>2. Between[s][t] = {u \in R : u < t}
    BY <1>2, <2>1, BetweenOrder
  <2>3. \A u \in R : t <= u <=> ~ (u < t)
    BY <1>1 DEF Sq
  <2> QED BY <2>2, <2>3, Zenon
<1>3. ASSUME NEW t \in R, 9 * df + dr < 0
      PROVE  (\A b \in Between[s][t] : b \notin occ) <=> \A u \in occ \cap R : u <= t
  <2>1. df # 0 \/ dr # 0
    BY <1>3
  <2>2. Between[s][t] = {u \in R : t < u}
    BY <1>3, <2>1, BetweenOrder
  <2>3. \A u \in R : u <= t <=> ~ (t < u)
    BY <1>1 DEF Sq
  <2> QED BY <2>2, <2>3, Zenon
<1> QED BY <1>2, <1>3, Zenon DEF Seen, UptoFirst, FromLast

-----------------------------------------------------------------------------
(* The rook along its rank and the bishop.                                  *)
LEMMA RaySpread ==
  ASSUME NEW s \in Sq, NEW dr \in Directions PROVE Ray(s, -1, dr) \in SUBSET Sq /\ Spread(Ray(s, -1, dr))
<1> DEFINE D == 9 * (-1) + dr
<1>1. SUFFICES ASSUME NEW t \in Ray(s, -1, dr), NEW u \in Ray(s, -1, dr), u < t PROVE u + 8 <= t
  BY DEF Spread, Ray
<1>2. -1 \in Directions /\ t \in Sq /\ u \in Sq /\ s \in Int
  BY DEF Directions, Ray, Sq
<1>3. PICK n \in 1 .. 8 : File(t) = File(s) + n * (-1) /\ Rank(t) = Rank(s) + n * dr
  BY DEF Ray
<1>4. PICK k \in 1 .. 8 : File(u) = File(s) + k * (-1) /\ Rank(u) = Rank(s) + k * dr
  BY DEF Ray
<1>5. n \in Int /\ k \in Int
  OBVIOUS
<1>6. t = s + n * D /\ u = s + k * D
  BY <1>2, <1>3, <1>4, <1>5, RayPoint
<1>7. D = -9 \/ D = -10 \/ D = -8
  BY DEF Directions
<1> HIDE DEF D
<1>8. CASE D = -9
  BY <1>1, <1>2, <1>5, <1>6, <1>8
<1>9. CASE D = -10
  BY <1>1, <1>2, <1>5, <1>6, <1>9
<1>10. CASE D = -8
  BY <1>1, <1>2, <1>5, <1>6, <1>10
<1> QED BY <1>7, <1>8, <1>9, <1>10

(* Two rays, one to each side, in one pass.                                 *)
LEMMA SweptSees ==
  ASSUME NEW s \in Sq, NEW a \in Directions, NEW b \in Directions, NEW occ \in SUBSET Sq
  PROVE  Swept(ToMask(Ray(s, 1, a), Ray(s, -1, b)), BBOf(occ))
           = BBOf(Seen(s, Ray(s, 1, a) \cup Ray(s, -1, b), occ))
<1> DEFINE A == Ray(s, 1, a)
<1> DEFINE B == Ray(s, -1, b)
<1>1. A \in SUBSET Sq /\ B \in SUBSET Sq /\ Spread(B)
  BY RaySpread DEF Ray
<1>2. Swept(ToMask(A, B), BBOf(occ)) = BBOf(UptoFirst(A, occ \cap A) \cup FromLast(B, occ \cap B))
  <2> HIDE DEF A, B
  <2> QED BY <1>1, SweptRays
<1>3. Seen(s, A, occ) = UptoFirst(A, occ \cap A)
  <2>1. 1 \in Directions /\ 0 < 9 * 1 + a
    BY DEF Directions
  <2> QED BY <2>1, SeenOnRay
<1>4. Seen(s, B, occ) = FromLast(B, occ \cap B)
  <2>1. -1 \in Directions /\ 9 * (-1) + b < 0
    BY DEF Directions
  <2> QED BY <2>1, SeenOnRay
<1>5. Seen(s, A \cup B, occ) = Seen(s, A, occ) \cup Seen(s, B, occ)
  BY DEF Seen
<1> QED BY <1>2, <1>3, <1>4, <1>5, Zenon

(* The rook along its rank.                                                 *)
LEMMA RookRank ==
  ASSUME NEW s \in Sq, NEW occ \in SUBSET Sq
  PROVE  rookAttackRank(s, BBOf(occ)) = BBOf(Seen(s, Ray(s, 1, 0) \cup Ray(s, -1, 0), occ))
<1>1. rookAttackRank(s, BBOf(occ)) = Swept(RookAttackRankToMask[s], BBOf(occ))
  BY DEF rookAttackRank, Swept
<1>2. RookAttackRankToMask[s] = ToMask(Ray(s, 1, 0), Ray(s, -1, 0))
  BY DEF RookAttackRankToMask
<1>3. 0 \in Directions
  BY DEF Directions
<1> QED BY <1>1, <1>2, <1>3, SweptSees

(* The two Bitboards of a Bitboard256 do not see each other.                *)
LEMMA TwoLanes ==
  ASSUME NEW s \in Sq, NEW o
  PROVE  bishopAttack(s, o) = OrBB(Swept(ToMask(Ray(s, 1, -1), Ray(s, -1, -1)), o),
                                   Swept(ToMask(Ray(s, 1, 1), Ray(s, -1, 1)), o))
<1> DEFINE up == ToMask(Ray(s, 1, -1), Ray(s, -1, -1))
<1> DEFINE down == ToMask(Ray(s, 1, 1), Ray(s, -1, 1))
<1> DEFINE m(j) == IF j = 0 THEN up ELSE down
<1> DEFINE mask == BishopAttackToMask[s]
<1> DEFINE both == unpack256(Twice(byteReverse(o)), Twice(o))
<1> DEFINE hi == And256(both.hi, mask.hi)
<1> DEFINE lo == And256(both.lo, mask.lo)
<1> DEFINE less == decrement256(hi, lo)
<1> DEFINE xh == And256(Xor256(less.hi, hi), mask.hi)
<1> DEFINE xl == And256(Xor256(less.lo, lo), mask.lo)
<1> DEFINE back == unpack256(xh, xl)
<1> DEFINE res == Or256(byteReverse256(back.hi), back.lo)
<1>1. bishopAttack(s, o) = OrBB(res[0], res[1])
  BY DEF bishopAttack, merge256
<1>2. ASSUME NEW j \in 0 .. 1 PROVE res[j] = Swept(m(j), o)
  <2> DEFINE both1 == unpack(byteReverse(o), o)
  <2> DEFINE hi1 == AndBB(both1.hi, m(j).hi)
  <2> DEFINE lo1 == AndBB(both1.lo, m(j).lo)
  <2> DEFINE less1 == decrement(hi1, lo1)
  <2> DEFINE xh1 == AndBB(XorBB(less1.hi, hi1), m(j).hi)
  <2> DEFINE xl1 == AndBB(XorBB(less1.lo, lo1), m(j).lo)
  <2> DEFINE back1 == unpack(xh1, xl1)
  <2>1. Swept(m(j), o) = OrBB(byteReverse(back1.hi), back1.lo)
    BY DEF Swept
  <2>2. mask.hi[j] = m(j).hi /\ mask.lo[j] = m(j).lo
    <3>1. mask = [hi |-> [i \in 0 .. 1 |-> IF i = 0 THEN up.hi ELSE down.hi],
                  lo |-> [i \in 0 .. 1 |-> IF i = 0 THEN up.lo ELSE down.lo]]
      BY DEF BishopAttackToMask
    <3> HIDE DEF mask, up, down
    <3> QED BY <3>1
  <2> HIDE DEF mask, m
  <2>3. both.hi[j] = both1.hi /\ both.lo[j] = both1.lo
    BY DEF unpack256, Twice
  <2> HIDE DEF both, both1
  <2>4. hi[j] = hi1 /\ lo[j] = lo1
    BY <2>2, <2>3 DEF And256
  <2> HIDE DEF hi, lo, hi1, lo1
  <2>5. less.hi[j] = less1.hi /\ less.lo[j] = less1.lo
    BY <2>4 DEF decrement256
  <2> HIDE DEF less, less1
  <2>6. xh[j] = xh1 /\ xl[j] = xl1
    BY <2>2, <2>4, <2>5 DEF And256, Xor256
  <2> HIDE DEF xh, xl, xh1, xl1
  <2>7. back.hi[j] = back1.hi /\ back.lo[j] = back1.lo
    BY <2>6 DEF unpack256
  <2> HIDE DEF back, back1
  <2>8. res[j] = OrBB(byteReverse(back1.hi), back1.lo)
    BY <2>7 DEF Or256, byteReverse256
  <2> QED BY <2>1, <2>8
<1> HIDE DEF res
<1>3. res[0] = Swept(up, o) /\ res[1] = Swept(down, o)
  <2>1. 0 \in 0 .. 1 /\ 1 \in 0 .. 1 /\ m(0) = up /\ m(1) = down
    OBVIOUS
  <2> HIDE DEF m, up, down
  <2> QED BY <1>2, <2>1, Zenon
<1> QED BY <1>1, <1>3

(* The bishop along its four rays.                                          *)
LEMMA BishopRays ==
  ASSUME NEW s \in Sq, NEW occ \in SUBSET Sq
  PROVE  bishopAttack(s, BBOf(occ))
           = BBOf(Seen(s, (Ray(s, 1, -1) \cup Ray(s, -1, -1)) \cup (Ray(s, 1, 1) \cup Ray(s, -1, 1)), occ))
<1>1. 1 \in Directions /\ -1 \in Directions
  BY DEF Directions
<1> DEFINE U == Ray(s, 1, -1) \cup Ray(s, -1, -1)
<1> DEFINE D == Ray(s, 1, 1) \cup Ray(s, -1, 1)
<1>2. bishopAttack(s, BBOf(occ)) = OrBB(BBOf(Seen(s, U, occ)), BBOf(Seen(s, D, occ)))
  BY <1>1, TwoLanes, SweptSees
<1>3. U \in SUBSET Sq /\ D \in SUBSET Sq
  BY DEF Ray
<1> HIDE DEF U, D
<1>4. Seen(s, U, occ) \in SUBSET Sq /\ Seen(s, D, occ) \in SUBSET Sq
      /\ Seen(s, U \cup D, occ) = Seen(s, U, occ) \cup Seen(s, D, occ)
  BY <1>3 DEF Seen
<1>5. OrBB(BBOf(Seen(s, U, occ)), BBOf(Seen(s, D, occ))) = BBOf(Seen(s, U, occ) \cup Seen(s, D, occ))
  BY <1>4, OrIsUnion
<1>6. bishopAttack(s, BBOf(occ)) = BBOf(Seen(s, U \cup D, occ))
  BY <1>2, <1>4, <1>5, Zenon
<1> QED BY <1>6 DEF U, D

-----------------------------------------------------------------------------
(* The attacks to the edge are the rays.                                    *)
LEMMA RayMember ==
  ASSUME NEW s \in Sq, NEW t \in Sq
  PROVE  /\ t \in Ray(s, 1, 0) <=> File(s) < File(t) /\ Rank(t) = Rank(s)
         /\ t \in Ray(s, -1, 0) <=> File(t) < File(s) /\ Rank(t) = Rank(s)
         /\ t \in Ray(s, 0, 1) <=> File(t) = File(s) /\ Rank(s) < Rank(t)
         /\ t \in Ray(s, 0, -1) <=> File(t) = File(s) /\ Rank(t) < Rank(s)
         /\ t \in Ray(s, 1, 1) <=> File(s) < File(t) /\ Rank(t) - Rank(s) = File(t) - File(s)
         /\ t \in Ray(s, -1, -1) <=> File(t) < File(s) /\ Rank(t) - Rank(s) = File(t) - File(s)
         /\ t \in Ray(s, 1, -1) <=> File(s) < File(t) /\ Rank(t) - Rank(s) = File(s) - File(t)
         /\ t \in Ray(s, -1, 1) <=> File(t) < File(s) /\ Rank(t) - Rank(s) = File(s) - File(t)
<1>1. PICK f \in 0 .. 8, r \in 0 .. 8 : f = File(s) /\ r = Rank(s)
  BY Coordinates
<1>2. PICK g \in 0 .. 8, q \in 0 .. 8 : g = File(t) /\ q = Rank(t)
  BY Coordinates
<1>3. \A df, dr \in Directions : t \in Ray(s, df, dr) <=> \E n \in 1 .. 8 : g = f + n * df /\ q = r + n * dr
  BY <1>1, <1>2 DEF Ray
<1>4. (\E n \in 1 .. 8 : g = f + n * 1 /\ q = r + n * 0) <=> f < g /\ q = r
  OBVIOUS
<1>5. (\E n \in 1 .. 8 : g = f + n * (-1) /\ q = r + n * 0) <=> g < f /\ q = r
  OBVIOUS
<1>6. (\E n \in 1 .. 8 : g = f + n * 0 /\ q = r + n * 1) <=> g = f /\ r < q
  OBVIOUS
<1>7. (\E n \in 1 .. 8 : g = f + n * 0 /\ q = r + n * (-1)) <=> g = f /\ q < r
  OBVIOUS
<1>8. (\E n \in 1 .. 8 : g = f + n * 1 /\ q = r + n * 1) <=> f < g /\ q - r = g - f
  OBVIOUS
<1>9. (\E n \in 1 .. 8 : g = f + n * (-1) /\ q = r + n * (-1)) <=> g < f /\ q - r = g - f
  OBVIOUS
<1>10. (\E n \in 1 .. 8 : g = f + n * 1 /\ q = r + n * (-1)) <=> f < g /\ q - r = f - g
  OBVIOUS
<1>11. (\E n \in 1 .. 8 : g = f + n * (-1) /\ q = r + n * 1) <=> g < f /\ q - r = f - g
  OBVIOUS
<1>12. 0 \in Directions /\ 1 \in Directions /\ -1 \in Directions
  BY DEF Directions
<1>13. /\ t \in Ray(s, 1, 0) <=> f < g /\ q = r
       /\ t \in Ray(s, -1, 0) <=> g < f /\ q = r
  BY <1>3, <1>4, <1>5, <1>12, Zenon
<1>14. /\ t \in Ray(s, 0, 1) <=> g = f /\ r < q
       /\ t \in Ray(s, 0, -1) <=> g = f /\ q < r
  BY <1>3, <1>6, <1>7, <1>12, Zenon
<1>15. /\ t \in Ray(s, 1, 1) <=> f < g /\ q - r = g - f
       /\ t \in Ray(s, -1, -1) <=> g < f /\ q - r = g - f
  BY <1>3, <1>8, <1>9, <1>12, Zenon
<1>16. /\ t \in Ray(s, 1, -1) <=> f < g /\ q - r = f - g
       /\ t \in Ray(s, -1, 1) <=> g < f /\ q - r = f - g
  BY <1>3, <1>10, <1>11, <1>12, Zenon
<1> QED BY <1>1, <1>2, <1>13, <1>14, <1>15, <1>16, Zenon

(* The tables of attacks to the edge, made from Relation, are unions of rays. *)
LEMMA ToEdge ==
  ASSUME NEW s \in Sq
  PROVE  /\ RookToEdge[s] = (Ray(s, 1, 0) \cup Ray(s, -1, 0)) \cup (Ray(s, 0, 1) \cup Ray(s, 0, -1))
         /\ BishopToEdge[s] = (Ray(s, 1, -1) \cup Ray(s, -1, -1)) \cup (Ray(s, 1, 1) \cup Ray(s, -1, 1))
         /\ LanceToEdge["Black"][s] = Ray(s, 0, -1)
         /\ LanceToEdge["White"][s] = Ray(s, 0, 1)
<1>1. ASSUME NEW t \in Sq
      PROVE  /\ Relation[s][t] \in Cross <=> s # t /\ (File(s) = File(t) \/ Rank(s) = Rank(t))
             /\ Relation[s][t] \in Diagonal <=>
                  /\ File(s) # File(t)
                  /\ Rank(t) - Rank(s) = File(t) - File(s) \/ Rank(t) - Rank(s) = File(s) - File(t)
  <2>1. PICK f \in 0 .. 8, r \in 0 .. 8 : f = File(s) /\ r = Rank(s) /\ s = 9 * f + r
    BY Coordinates
  <2>2. PICK g \in 0 .. 8, q \in 0 .. 8 : g = File(t) /\ q = Rank(t) /\ t = 9 * g + q
    BY Coordinates
  <2>3. Relation[s][t] =
          CASE s = t -> "Misc"
            [] s # t /\ f = g -> "File"
            [] s # t /\ r = q -> "Rank"
            [] s # t /\ r - q = f - g -> "NESW"
            [] s # t /\ r - q = g - f -> "NWSE"
            [] OTHER -> "Misc"
    BY <2>1, <2>2 DEF Relation
  <2>4. s = t <=> f = g /\ r = q
    BY <2>1, <2>2
  <2>5. /\ r - q = f - g <=> q - r = g - f
        /\ r - q = g - f <=> q - r = f - g
    OBVIOUS
  <2>6. CASE s = t
    <3>1. Relation[s][t] = "Misc"
      BY <2>3, <2>6
    <3> QED BY <2>1, <2>2, <2>4, <2>6, <3>1 DEF Cross, Diagonal
  <2>7. CASE s # t /\ f = g
    <3>1. \/ Relation[s][t] = "File"
          \/ (Relation[s][t] = "Rank" /\ r = q)
          \/ (Relation[s][t] = "NESW" /\ r - q = f - g)
          \/ (Relation[s][t] = "NWSE" /\ r - q = g - f)
      BY <2>3, <2>7
    <3>2. r # q /\ r - q # f - g /\ r - q # g - f
      BY <2>4, <2>7
    <3> QED BY <2>1, <2>2, <2>7, <3>1, <3>2 DEF Cross, Diagonal
  <2>8. CASE s # t /\ f # g /\ r = q
    <3>1. r - q # f - g /\ r - q # g - f
      BY <2>8
    <3>2. Relation[s][t] = "Rank"
      BY <2>3, <2>8, <3>1
    <3>3. q - r # g - f /\ q - r # f - g
      BY <2>8
    <3> QED BY <2>1, <2>2, <2>8, <3>2, <3>3 DEF Cross, Diagonal
  <2>9. CASE s # t /\ f # g /\ r # q /\ (r - q = f - g \/ r - q = g - f)
    <3>1. Relation[s][t] = "NESW" \/ Relation[s][t] = "NWSE"
      BY <2>3, <2>9
    <3> QED BY <2>1, <2>2, <2>5, <2>9, <3>1 DEF Cross, Diagonal
  <2>10. CASE s # t /\ f # g /\ r # q /\ r - q # f - g /\ r - q # g - f
    <3>1. Relation[s][t] = "Misc"
      BY <2>3, <2>10
    <3> QED BY <2>1, <2>2, <2>5, <2>10, <3>1 DEF Cross, Diagonal
  <2> QED BY <2>4, <2>6, <2>7, <2>8, <2>9, <2>10, Zenon
<1>2. ASSUME NEW t \in Sq
      PROVE  /\ File(s) < File(t) \/ File(t) < File(s) \/ File(s) = File(t)
             /\ Rank(s) < Rank(t) \/ Rank(t) < Rank(s) \/ Rank(s) = Rank(t)
             /\ ~ (File(s) < File(s)) /\ ~ (Rank(s) < Rank(s))
             /\ s = t <=> File(s) = File(t) /\ Rank(s) = Rank(t)
             /\ File(s) < File(t) => File(s) # File(t)
             /\ File(t) < File(s) => File(s) # File(t)
             /\ Rank(s) < Rank(t) => Rank(s) # Rank(t)
             /\ Rank(t) < Rank(s) => Rank(s) # Rank(t)
  BY Coordinates
<1>3. RookToEdge[s] = (Ray(s, 1, 0) \cup Ray(s, -1, 0)) \cup (Ray(s, 0, 1) \cup Ray(s, 0, -1))
  <2>1. ASSUME NEW t \in Sq
        PROVE  t \in RookToEdge[s] <=>
                 t \in (Ray(s, 1, 0) \cup Ray(s, -1, 0)) \cup (Ray(s, 0, 1) \cup Ray(s, 0, -1))
    <3>1. t \in RookToEdge[s] <=> s # t /\ (File(s) = File(t) \/ Rank(s) = Rank(t))
      BY <1>1 DEF RookToEdge
    <3> QED BY <1>2, <3>1, RayMember
  <2> QED BY <2>1 DEF RookToEdge, Ray
<1>4. BishopToEdge[s] = (Ray(s, 1, -1) \cup Ray(s, -1, -1)) \cup (Ray(s, 1, 1) \cup Ray(s, -1, 1))
  <2>1. ASSUME NEW t \in Sq
        PROVE  t \in BishopToEdge[s] <=>
                 t \in (Ray(s, 1, -1) \cup Ray(s, -1, -1)) \cup (Ray(s, 1, 1) \cup Ray(s, -1, 1))
    <3>1. t \in BishopToEdge[s] <=>
                  /\ File(s) # File(t)
                  /\ Rank(t) - Rank(s) = File(t) - File(s) \/ Rank(t) - Rank(s) = File(s) - File(t)
      BY <1>1 DEF BishopToEdge
    <3> QED BY <1>2, <3>1, RayMember
  <2> QED BY <2>1 DEF BishopToEdge, Ray
<1>5. LanceToEdge["Black"][s] = Ray(s, 0, -1)
  <2>1. LanceToEdge["Black"][s] = {t \in RookToEdge[s] : File(t) = File(s) /\ Rank(t) < Rank(s)}
    BY DEF LanceToEdge, Row, Colors
  <2>2. \A t \in Ray(s, 0, -1) : t \in Sq
    BY DEF Ray
  <2>3. \A t \in RookToEdge[s] : t \in Sq
    BY DEF RookToEdge
  <2> QED BY <1>3, <2>1, <2>2, <2>3, RayMember
<1>6. LanceToEdge["White"][s] = Ray(s, 0, 1)
  <2>1. LanceToEdge["White"][s] = {t \in RookToEdge[s] : File(t) = File(s) /\ 8 - Rank(t) < 8 - Rank(s)}
    BY DEF LanceToEdge, Row, Colors
  <2>2. \A t \in Ray(s, 0, 1) : t \in Sq
    BY DEF Ray
  <2>3. \A t \in RookToEdge[s] : t \in Sq
    BY DEF RookToEdge
  <2>4. \A t \in Sq : 8 - Rank(t) < 8 - Rank(s) <=> Rank(s) < Rank(t)
    BY Coordinates
  <2> QED BY <1>3, <2>1, <2>2, <2>3, <2>4, RayMember
<1> QED BY <1>3, <1>4, <1>5, <1>6

-----------------------------------------------------------------------------
(* The tables of a file.                                                    *)
LEMMA IsSetIs == ASSUME NEW S \in SUBSET Sq, NEW s \in Sq PROVE isSet(BBOf(S), s) <=> s \in S
<1>1. part(s) \in 0 .. 1 /\ BitOf(s) \in BitNums /\ IsSq(part(s), BitOf(s)) /\ At(part(s), BitOf(s)) = s
  BY PartBit DEF At, IsSq
<1>2. BitOf(s) \in BBOf(S)[part(s)] <=> s \in S
  BY <1>1, OnBoard
<1>3. isSet(BBOf(S), s) <=> \E i \in 0 .. 1 : BBOf(S)[i] \cap (IF i = part(s) THEN {BitOf(s)} ELSE {}) # {}
  BY DEF isSet, isAny, AndBB, SetMaskBB
<1>4. (\E i \in 0 .. 1 : BBOf(S)[i] \cap (IF i = part(s) THEN {BitOf(s)} ELSE {}) # {})
        <=> BitOf(s) \in BBOf(S)[part(s)]
  BY <1>1
<1> QED BY <1>2, <1>3, <1>4

(* The bits of the masks of a file and a rank.                              *)
LEMMA Masks ==
  ASSUME NEW s \in Sq, NEW f \in 0 .. 8, NEW r \in 0 .. 8
  PROVE  /\ BitOf(s) \in FileMask(f)[part(s)] <=> File(s) = f
         /\ BitOf(s) \in RankMask(r)[part(s)] <=> Rank(s) = r
<1>1. PICK g \in 0 .. 8, q \in 0 .. 8 : g = File(s) /\ q = Rank(s) /\ s = 9 * g + q
  BY Coordinates
<1>2. CASE g < 7
  <2>1. part(s) = 0 /\ BitOf(s) = 9 * g + q
    <3>1. ~ (62 < s) /\ s \in Int
      <4>1. 9 * g + q <= 62
        BY <1>2
      <4>2. PICK z \in Int : z = 9 * g + q /\ z <= 62
        BY <4>1
      <4>3. s = z
        BY <1>1, <4>2
      <4> QED BY <4>2, <4>3
    <3>2. part(s) = 0
      BY <3>1 DEF part
    <3> QED BY <1>1, <3>1, <3>2 DEF BitOf
  <2>2. FileMask(f)[0] = IF f < 7 THEN 9 * f .. 9 * f + 8 ELSE {}
    BY DEF FileMask, MkBB
  <2>3. RankMask(r)[0] = {9 * h + r : h \in 0 .. 6}
    BY DEF RankMask, MkBB
  <2>4. 9 * g + q \in (IF f < 7 THEN 9 * f .. 9 * f + 8 ELSE {}) <=> g = f
    BY <1>2
  <2>5. 9 * g + q \in {9 * h + r : h \in 0 .. 6} <=> q = r
    BY <1>2
  <2> QED BY <1>1, <2>1, <2>2, <2>3, <2>4, <2>5
<1>3. CASE 7 <= g
  <2>1. part(s) = 1 /\ BitOf(s) = 9 * (g - 7) + q
    BY <1>1, <1>3 DEF part, BitOf
  <2>2. FileMask(f)[1] = IF f < 7 THEN {} ELSE 9 * (f - 7) .. 9 * (f - 7) + 8
    BY DEF FileMask, MkBB
  <2>3. RankMask(r)[1] = {9 * h + r : h \in 0 .. 1}
    BY DEF RankMask, MkBB
  <2>4. 9 * (g - 7) + q \in (IF f < 7 THEN {} ELSE 9 * (f - 7) .. 9 * (f - 7) + 8) <=> g = f
    BY <1>3
  <2>5. 9 * (g - 7) + q \in {9 * h + r : h \in 0 .. 1} <=> q = r
    BY <1>3
  <2> QED BY <1>1, <2>1, <2>2, <2>3, <2>4, <2>5
<1> QED BY <1>2, <1>3

(* The squares of the mask: those of the file but its ends.                 *)
Middle(s) == 9 * File(s) + 1 .. 9 * File(s) + 7

(* The squares of lanceBlockMask.                                           *)
LEMMA BlockMask ==
  ASSUME NEW s \in Sq
  PROVE  /\ Squares(lanceBlockMask(s)) = Middle(s)
         /\ \A u \in Sq : u \in Middle(s) <=> File(u) = File(s) /\ Rank(u) \in 1 .. 7
<1>1. File(s) \in 0 .. 8
  BY Coordinates
<1>2. ASSUME NEW u \in Sq PROVE u \in Middle(s) <=> File(u) = File(s) /\ Rank(u) \in 1 .. 7
  <2>1. PICK f \in 0 .. 8 : f = File(s)
    BY <1>1
  <2>2. PICK g \in 0 .. 8, q \in 0 .. 8 : g = File(u) /\ q = Rank(u) /\ u = 9 * g + q
    BY Coordinates
  <2>3. 9 * g + q \in 9 * f + 1 .. 9 * f + 7 <=> g = f /\ q \in 1 .. 7
    OBVIOUS
  <2> QED BY <2>1, <2>2, <2>3 DEF Middle
<1>3. ASSUME NEW u \in Sq
      PROVE  BitOf(u) \in lanceBlockMask(s)[part(u)] <=> File(u) = File(s) /\ Rank(u) \in 1 .. 7
  <2>1. part(u) \in 0 .. 1
    BY PartBit
  <2>2. lanceBlockMask(s)[part(u)] = FileMask(File(s))[part(u)] \ (RankMask(8)[part(u)] \cup RankMask(0)[part(u)])
    BY <2>1 DEF lanceBlockMask, AndNotBB, OrBB
  <2>3. /\ BitOf(u) \in FileMask(File(s))[part(u)] <=> File(u) = File(s)
        /\ BitOf(u) \in RankMask(0)[part(u)] <=> Rank(u) = 0
        /\ BitOf(u) \in RankMask(8)[part(u)] <=> Rank(u) = 8
    BY <1>1, Masks
  <2>4. Rank(u) \in 0 .. 8 /\ (Rank(u) \in 1 .. 7 <=> Rank(u) # 0 /\ Rank(u) # 8)
    BY Coordinates
  <2> QED BY <2>2, <2>3, <2>4
<1>4. Middle(s) \subseteq Sq
  BY <1>1 DEF Middle, Sq
<1> QED BY <1>2, <1>3, <1>4 DEF Squares

(* A set of squares goes through the index and back: what is left of it is  *)
(* what is in the mask.                                                     *)
LEMMA ThroughIndex ==
  ASSUME NEW s \in Sq, NEW occ \in SUBSET Sq
  PROVE  indexToOccupied(Index(s, BBOf(occ)), lanceBlockMask(s)) = BBOf(occ \cap Middle(s))
<1>1. File(s) \in 0 .. 8 /\ Rank(s) \in 0 .. 8 /\ s = 9 * File(s) + Rank(s)
  BY Coordinates
<1>2. PICK f \in 0 .. 8 : f = File(s)
  BY <1>1
<1>3. Middle(s) = 9 * f + 1 .. 9 * f + 7
  BY <1>2 DEF Middle
<1>4. ASSUME NEW i \in 0 .. 6 PROVE i \in Index(s, BBOf(occ)) <=> 9 * f + 1 + i \in occ
  <2>1. /\ f < 7 => part(s) = 0 /\ f % 7 = f
        /\ 7 <= f => part(s) = 1 /\ f % 7 = f - 7
    <3>1. PICK r \in 0 .. 8 : s = 9 * f + r
      BY <1>1, <1>2
    <3>2. /\ f < 7 => ~ (62 < s) /\ f % 7 = f
          /\ 7 <= f => 62 < s /\ f % 7 = f - 7
      BY <3>1
    <3> QED BY <3>2 DEF part
  <2>2. part(s) \in 0 .. 1
    BY PartBit
  <2>3. i + Slide(s) \in BitNums /\ At(part(s), i + Slide(s)) = 9 * f + 1 + i
    <3>1. Slide(s) = 9 * (f % 7) + 1
      BY <1>2 DEF Slide
    <3>2. CASE f < 7
      BY <2>1, <3>1, <3>2 DEF At, BitNums
    <3>3. CASE 7 <= f
      BY <2>1, <3>1, <3>3 DEF At, BitNums
    <3> QED BY <3>2, <3>3
  <2>4. IsSq(part(s), i + Slide(s))
    <3>1. 9 * f + 1 + i \in Sq /\ part(9 * f + 1 + i) = part(s)
      BY <2>1 DEF Sq, part
    <3> QED BY <2>3, <3>1 DEF IsSq
  <2>5. i + Slide(s) \in BBOf(occ)[part(s)] <=> 9 * f + 1 + i \in occ
    BY <2>2, <2>3, <2>4, OnBoard
  <2> QED BY <2>5 DEF Index
<1>5. ASSUME NEW u \in Middle(s)
      PROVE  Cardinality({t \in Middle(s) : t < u}) \in Index(s, BBOf(occ)) <=> u \in occ
  <2>1. u \in Int /\ 9 * f + 1 <= u /\ u <= 9 * f + 7
    BY <1>3
  <2>2. {t \in Middle(s) : t < u} = 9 * f + 1 .. u - 1
    BY <1>3, <2>1
  <2>3. Cardinality(9 * f + 1 .. u - 1) = IF 9 * f + 1 > u - 1 THEN 0 ELSE (u - 1) - (9 * f + 1) + 1
    <3>1. 9 * f + 1 \in Int /\ u - 1 \in Int
      BY <2>1
    <3> QED BY <3>1, FS_Interval
  <2>4. PICK i \in 0 .. 6 : i = u - (9 * f + 1)
    BY <2>1
  <2>5. Cardinality({t \in Middle(s) : t < u}) = i
    <3>1. u = 9 * f + 1 + i
      BY <2>1, <2>4
    <3>2. (IF 9 * f + 1 > u - 1 THEN 0 ELSE (u - 1) - (9 * f + 1) + 1) = i
      BY <3>1
    <3> QED BY <2>2, <2>3, <3>2, Zenon
  <2>6. 9 * f + 1 + i = u
    BY <2>1, <2>4
  <2> QED BY <1>4, <2>5, <2>6
<1>6. indexToOccupied(Index(s, BBOf(occ)), lanceBlockMask(s))
        = BBOf({u \in Middle(s) : Cardinality({t \in Middle(s) : t < u}) \in Index(s, BBOf(occ))})
  BY BlockMask DEF indexToOccupied
<1>7. {u \in Middle(s) : Cardinality({t \in Middle(s) : t < u}) \in Index(s, BBOf(occ))} = occ \cap Middle(s)
  BY <1>5
<1> QED BY <1>6, <1>7

(* The walks of lanceAttackCalc over what is left see what the whole board  *)
(* shows.                                                                   *)
UpWalk(s, S) == {t \in Sq : File(t) = File(s) /\ t < s /\ \A u \in t + 1 .. s - 1 : u \notin S}
DownWalk(s, S) == {t \in Sq : File(t) = File(s) /\ s < t /\ \A u \in s + 1 .. t - 1 : u \notin S}

(* The walks over the middle of the file see what is seen on the board.     *)
LEMMA Walks ==
  ASSUME NEW s \in Sq, NEW occ \in SUBSET Sq
  PROVE  /\ UpWalk(s, occ \cap Middle(s)) = Seen(s, Ray(s, 0, -1), occ)
         /\ DownWalk(s, occ \cap Middle(s)) = Seen(s, Ray(s, 0, 1), occ)
<1>1. PICK f \in 0 .. 8, r \in 0 .. 8 : f = File(s) /\ r = Rank(s) /\ s = 9 * f + r
  BY Coordinates
<1>2. 0 \in Directions /\ 1 \in Directions /\ -1 \in Directions
  BY DEF Directions
<1>3. ASSUME NEW t \in Sq
      PROVE  /\ t \in Ray(s, 0, -1) <=> File(t) = File(s) /\ t < s
             /\ t \in Ray(s, 0, 1) <=> File(t) = File(s) /\ s < t
             /\ File(t) = File(s) => t \in 9 * f .. 9 * f + 8
             /\ t \in 9 * f .. 9 * f + 8 => File(t) = File(s)
  <2>1. PICK g \in 0 .. 8, q \in 0 .. 8 : g = File(t) /\ q = Rank(t) /\ t = 9 * g + q
    BY Coordinates
  <2>2. /\ g = f /\ q < r <=> g = f /\ 9 * g + q < 9 * f + r
        /\ g = f /\ r < q <=> g = f /\ 9 * f + r < 9 * g + q
        /\ g = f <=> 9 * g + q \in 9 * f .. 9 * f + 8
    OBVIOUS
  <2> QED BY <1>1, <2>1, <2>2, RayMember
<1>4. Middle(s) = 9 * f + 1 .. 9 * f + 7
  BY <1>1 DEF Middle
<1>5. ASSUME NEW t \in Sq, File(t) = File(s), t < s
      PROVE  (\A u \in t + 1 .. s - 1 : u \notin occ \cap Middle(s)) <=> \A b \in Between[s][t] : b \notin occ
  <2>1. Between[s][t] = {u \in Ray(s, 0, -1) : t < u}
    <3>1. t \in Ray(s, 0, -1) /\ 9 * 0 + (-1) < 0 /\ -1 # 0
      BY <1>3, <1>5
    <3> QED BY <1>2, <3>1, BetweenOrder
  <2>2. t \in 9 * f .. 9 * f + 8 /\ t \in Int /\ s \in Int
    BY <1>1, <1>3, <1>5
  <2>3. ASSUME NEW u \in t + 1 .. s - 1 PROVE u \in Middle(s) /\ u \in Between[s][t]
    <3>1. u \in 9 * f + 1 .. 9 * f + 7 /\ u \in Sq /\ u < s /\ t < u /\ u \in 9 * f .. 9 * f + 8
      BY <1>1, <2>2 DEF Sq
    <3> QED BY <1>3, <1>4, <2>1, <3>1
  <2>4. ASSUME NEW b \in Between[s][t] PROVE b \in t + 1 .. s - 1
    <3>1. b \in Sq /\ b \in Ray(s, 0, -1) /\ t < b
      BY <2>1 DEF Ray
    <3>2. b < s
      BY <1>3, <3>1
    <3> QED BY <2>2, <3>1, <3>2 DEF Sq
  <2> QED BY <2>3, <2>4
<1>6. ASSUME NEW t \in Sq, File(t) = File(s), s < t
      PROVE  (\A u \in s + 1 .. t - 1 : u \notin occ \cap Middle(s)) <=> \A b \in Between[s][t] : b \notin occ
  <2>1. Between[s][t] = {u \in Ray(s, 0, 1) : u < t}
    <3>1. t \in Ray(s, 0, 1) /\ 0 < 9 * 0 + 1 /\ 1 # 0
      BY <1>3, <1>6
    <3> QED BY <1>2, <3>1, BetweenOrder
  <2>2. t \in 9 * f .. 9 * f + 8 /\ t \in Int /\ s \in Int
    BY <1>1, <1>3, <1>6
  <2>3. ASSUME NEW u \in s + 1 .. t - 1 PROVE u \in Middle(s) /\ u \in Between[s][t]
    <3>1. s < u /\ u < t /\ u \in Int
      BY <2>2
    <3>3. 9 * f <= s /\ t <= 9 * f + 8
      <4>1. 9 * f <= 9 * f + r
        OBVIOUS
      <4> QED BY <1>1, <2>2, <4>1
    <3>2. u \in 9 * f + 1 .. 9 * f + 7 /\ u \in Sq /\ u \in 9 * f .. 9 * f + 8
      BY <2>2, <3>1, <3>3 DEF Sq
    <3> QED BY <1>3, <1>4, <2>1, <3>1, <3>2
  <2>4. ASSUME NEW b \in Between[s][t] PROVE b \in s + 1 .. t - 1
    <3>1. b \in Sq /\ b \in Ray(s, 0, 1) /\ b < t
      BY <2>1 DEF Ray
    <3>2. s < b
      BY <1>3, <3>1
    <3> QED BY <2>2, <3>1, <3>2 DEF Sq
  <2> QED BY <2>3, <2>4
<1>7. Ray(s, 0, -1) \subseteq Sq /\ Ray(s, 0, 1) \subseteq Sq
  BY DEF Ray
<1>8. UpWalk(s, occ \cap Middle(s)) = Seen(s, Ray(s, 0, -1), occ)
  BY <1>3, <1>5, <1>7, Zenon DEF UpWalk, Seen
<1>9. DownWalk(s, occ \cap Middle(s)) = Seen(s, Ray(s, 0, 1), occ)
  BY <1>3, <1>6, <1>7, Zenon DEF DownWalk, Seen
<1> QED BY <1>8, <1>9

(* The mask of what is in front keeps one of the two walks.                 *)
LEMMA InFront ==
  ASSUME NEW s \in Sq, NEW up \in SUBSET Sq, NEW down \in SUBSET Sq,
         \A t \in up : Rank(t) < Rank(s), \A t \in down : Rank(s) < Rank(t)
  PROVE  /\ AndBB(BBOf(up \cup down), InFrontMask("Black", Rank(s))) = BBOf(up)
         /\ AndBB(BBOf(up \cup down), InFrontMask("White", Rank(s))) = BBOf(down)
<1>1. Rank(s) \in 0 .. 8
  BY Coordinates
<1>2. ASSUME NEW t \in Sq
      PROVE  /\ BitOf(t) \in InFrontMask("Black", Rank(s))[part(t)] <=> Rank(t) < Rank(s)
             /\ BitOf(t) \in InFrontMask("White", Rank(s))[part(t)] <=> Rank(s) < Rank(t)
  <2>1. part(t) \in 0 .. 1 /\ Rank(t) \in 0 .. 8
    BY PartBit, Coordinates
  <2>2. InFrontMask("Black", Rank(s))[part(t)]
          = UNION {RankMask(q)[part(t)] : q \in {q \in 0 .. 8 : q < Rank(s)}}
    BY <2>1 DEF InFrontMask
  <2>3. InFrontMask("White", Rank(s))[part(t)]
          = UNION {RankMask(q)[part(t)] : q \in {q \in 0 .. 8 : Rank(s) < q}}
    BY <2>1 DEF InFrontMask
  <2>4. \A q \in 0 .. 8 : BitOf(t) \in RankMask(q)[part(t)] <=> Rank(t) = q
    BY <1>1, Masks
  <2> QED BY <2>1, <2>2, <2>3, <2>4, Zenon
<1>3. ASSUME NEW i \in 0 .. 1
      PROVE  /\ BBOf(up \cup down)[i] \cap InFrontMask("Black", Rank(s))[i] = BBOf(up)[i]
             /\ BBOf(up \cup down)[i] \cap InFrontMask("White", Rank(s))[i] = BBOf(down)[i]
  <2>1. /\ BBOf(up \cup down)[i] = {k \in BitNums : IsSq(i, k) /\ At(i, k) \in up \cup down}
        /\ BBOf(up)[i] = {k \in BitNums : IsSq(i, k) /\ At(i, k) \in up}
        /\ BBOf(down)[i] = {k \in BitNums : IsSq(i, k) /\ At(i, k) \in down}
    BY OnBoard
  <2>2. ASSUME NEW k \in BitNums, IsSq(i, k)
        PROVE  /\ k \in InFrontMask("Black", Rank(s))[i] <=> Rank(At(i, k)) < Rank(s)
               /\ k \in InFrontMask("White", Rank(s))[i] <=> Rank(s) < Rank(At(i, k))
    <3>1. At(i, k) \in Sq /\ part(At(i, k)) = i /\ BitOf(At(i, k)) = k
      BY <2>2 DEF IsSq, At, BitOf, BitNums
    <3> QED BY <1>2, <3>1
  <2>3. \A k \in BitNums : IsSq(i, k) =>
           /\ At(i, k) \in up => Rank(At(i, k)) < Rank(s)
           /\ At(i, k) \in down => Rank(s) < Rank(At(i, k))
           /\ ~ (Rank(At(i, k)) < Rank(s) /\ Rank(s) < Rank(At(i, k)))
    <3>1. \A t \in Sq : ~ (Rank(t) < Rank(s) /\ Rank(s) < Rank(t))
      BY <1>1, Coordinates
    <3> QED BY <3>1 DEF IsSq
  <2> QED BY <2>1, <2>2, <2>3, Zenon
<1>4. BBOf(up) = [i \in 0 .. 1 |-> BBOf(up)[i]] /\ BBOf(down) = [i \in 0 .. 1 |-> BBOf(down)[i]]
  BY BBOfIsWords
<1> QED BY <1>3, <1>4, Zenon DEF AndBB

(* The lance of either color.                                               *)
LEMMA LanceTables ==
  ASSUME NEW s \in Sq, NEW occ \in SUBSET Sq
  PROVE  /\ lanceAttack("Black", s, BBOf(occ)) = BBOf(Seen(s, Ray(s, 0, -1), occ))
         /\ lanceAttack("White", s, BBOf(occ)) = BBOf(Seen(s, Ray(s, 0, 1), occ))
<1> DEFINE S == occ \cap Middle(s)
<1> DEFINE up == UpWalk(s, S)
<1> DEFINE down == DownWalk(s, S)
<1>1. S \in SUBSET Sq
  OBVIOUS
<1>2. \A u \in Sq : isSet(BBOf(S), u) <=> u \in S
  <2> HIDE DEF S
  <2> QED BY <1>1, IsSetIs
<1>3. ASSUME NEW c \in Colors
      PROVE  lanceAttack(c, s, BBOf(occ)) = AndBB(BBOf(up \cup down), InFrontMask(c, Rank(s)))
  <2>1. lanceAttack(c, s, BBOf(occ)) = lanceAttackCalc(c, s, BBOf(S))
    BY ThroughIndex DEF lanceAttack, LanceTable
  <2>2. \A t \in Sq : \A u \in t + 1 .. s - 1 : u \in Sq
    BY DEF Sq
  <2>3. \A t \in Sq : \A u \in s + 1 .. t - 1 : u \in Sq
    BY DEF Sq
  <2>4. up = {t \in Sq : /\ File(t) = File(s) /\ t < s
                         /\ \A u \in t + 1 .. s - 1 : ~isSet(BBOf(S), u)}
    <3> HIDE DEF S
    <3> QED BY <1>2, <2>2, Zenon DEF UpWalk
  <2>5. down = {t \in Sq : /\ File(t) = File(s) /\ s < t
                           /\ \A u \in s + 1 .. t - 1 : ~isSet(BBOf(S), u)}
    <3> HIDE DEF S
    <3> QED BY <1>2, <2>3, Zenon DEF DownWalk
  <2>6. lanceAttackCalc(c, s, BBOf(S)) = AndBB(BBOf(up \cup down), InFrontMask(c, Rank(s)))
    <3> HIDE DEF S, up, down
    <3> QED BY <2>4, <2>5 DEF lanceAttackCalc
  <2> QED BY <2>1, <2>6
<1>4. up = Seen(s, Ray(s, 0, -1), occ) /\ down = Seen(s, Ray(s, 0, 1), occ)
  BY Walks
<1>5. /\ up \in SUBSET Sq /\ down \in SUBSET Sq
      /\ \A t \in up : Rank(t) < Rank(s)
      /\ \A t \in down : Rank(s) < Rank(t)
  <2>1. \A t \in Ray(s, 0, -1) : t \in Sq /\ Rank(t) < Rank(s)
    BY RayMember DEF Ray
  <2>2. \A t \in Ray(s, 0, 1) : t \in Sq /\ Rank(s) < Rank(t)
    BY RayMember DEF Ray
  <2> QED BY <1>4, <2>1, <2>2 DEF Seen
<1> HIDE DEF up, down, S
<1>6. /\ AndBB(BBOf(up \cup down), InFrontMask("Black", Rank(s))) = BBOf(up)
      /\ AndBB(BBOf(up \cup down), InFrontMask("White", Rank(s))) = BBOf(down)
  BY <1>5, InFront
<1> QED BY <1>3, <1>4, <1>6 DEF Colors

-----------------------------------------------------------------------------
(* The attacks of the sliding pieces, as they are computed from the words,  *)
(* are the squares of their rays up to and with the first occupied one,     *)
(* whatever the occupied squares are (bitboard.hpp:599-674 and tables of     *)
(* init.cpp).                                                               *)
THEOREM SlidersAreExact == ASSUME NEW occ \in SUBSET Sq PROVE SlidersSee(occ)
<1> DEFINE o == BBOf(occ)
<1>1. SUFFICES ASSUME NEW s \in Sq
               PROVE  /\ rookAttack(s, o) = BBOf(RookAttack(s, occ))
                      /\ bishopAttack(s, o) = BBOf(BishopAttack(s, occ))
                      /\ lanceAttack("Black", s, o) = BBOf(LanceAttack("Black", s, occ))
                      /\ lanceAttack("White", s, o) = BBOf(LanceAttack("White", s, occ))
  BY DEF SlidersSee, Colors
<1>2. /\ RookAttack(s, occ) = Seen(s, RookToEdge[s], occ)
      /\ BishopAttack(s, occ) = Seen(s, BishopToEdge[s], occ)
      /\ LanceAttack("Black", s, occ) = Seen(s, LanceToEdge["Black"][s], occ)
      /\ LanceAttack("White", s, occ) = Seen(s, LanceToEdge["White"][s], occ)
  BY DEF RookAttack, BishopAttack, LanceAttack, Visible, Seen
<1>3. /\ lanceAttack("Black", s, o) = BBOf(LanceAttack("Black", s, occ))
      /\ lanceAttack("White", s, o) = BBOf(LanceAttack("White", s, occ))
  BY <1>2, LanceTables, ToEdge
<1>4. bishopAttack(s, o) = BBOf(BishopAttack(s, occ))
  BY <1>2, BishopRays, ToEdge
<1>5. rookAttack(s, o) = BBOf(RookAttack(s, occ))
  <2> DEFINE H == Ray(s, 1, 0) \cup Ray(s, -1, 0)
  <2> DEFINE V == Ray(s, 0, 1) \cup Ray(s, 0, -1)
  <2>1. rookAttackRank(s, o) = BBOf(Seen(s, H, occ))
    BY RookRank
  <2>2. rookAttackFile(s, o) = OrBB(BBOf(Seen(s, Ray(s, 0, -1), occ)), BBOf(Seen(s, Ray(s, 0, 1), occ)))
    BY LanceTables DEF rookAttackFile, lanceAttack
  <2>3. /\ Seen(s, Ray(s, 0, -1), occ) \in SUBSET Sq /\ Seen(s, Ray(s, 0, 1), occ) \in SUBSET Sq
        /\ Seen(s, H, occ) \in SUBSET Sq /\ Seen(s, V, occ) \in SUBSET Sq
    BY DEF Seen, Ray
  <2>4. Seen(s, V, occ) = Seen(s, Ray(s, 0, -1), occ) \cup Seen(s, Ray(s, 0, 1), occ)
    BY DEF Seen
  <2>5. rookAttackFile(s, o) = BBOf(Seen(s, V, occ))
    BY <2>2, <2>3, <2>4, OrIsUnion
  <2>6. Seen(s, H \cup V, occ) = Seen(s, H, occ) \cup Seen(s, V, occ)
    BY DEF Seen
  <2>7. rookAttack(s, o) = BBOf(Seen(s, H \cup V, occ))
    BY <2>1, <2>3, <2>5, <2>6, OrIsUnion DEF rookAttack
  <2> QED BY <1>2, <2>7, ToEdge
<1> QED BY <1>3, <1>4, <1>5
=============================================================================
