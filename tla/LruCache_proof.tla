--------------------------- MODULE LruCache_proof ---------------------------
(***************************************************************************)
(* LruCache implements Lru: for any keys, any number of items, any         *)
(* capacity that stays and any pins, what lies in memory is at every       *)
(* moment a cache that keeps the values used last, and a pinned value      *)
(* lives until its last pin is released.                                   *)
(***************************************************************************)
EXTENDS LruCache, FiniteSetTheorems, SequenceTheorems, WellFoundedInduction, TLAPS

Slot == Items \cup {Null}

(* A list of items, as a sequence, and what its links hold.                 *)
List(s)    == s \in Seq(Items) /\ \A x, y \in DOMAIN s : s[x] = s[y] => x = y
Start(s)   == IF s = << >> THEN Null ELSE s[1]
Rear(s)    == IF s = << >> THEN Null ELSE s[Len(s)]
Succ(s, j) == IF j = Len(s) THEN Null ELSE s[j + 1]
Pred(s, j) == IF j = 1 THEN Null ELSE s[j - 1]
Upto(s, n) == [j \in 1 .. n |-> s[j]]

-----------------------------------------------------------------------------
(* Sequences and numbers.                                                   *)
LEMMA Least == ASSUME NEW S \in SUBSET Nat, S # {} PROVE \E n \in S : \A m \in S : n <= m
<1> DEFINE R == OpToRel(<, Nat)
<1>1. IsWellFoundedOn(R, Nat)
  BY NatLessThanWellFounded
<1>2. \A x, y \in Nat : <<x, y>> \in R <=> x < y
  BY DEF OpToRel
<1> HIDE DEF R
<1>3. PICK n \in S : \A m \in S : ~ (<<m, n>> \in R)
  BY <1>1, WFMin
<1>4. ASSUME NEW m \in S PROVE n <= m
  <2>1. n \in Nat /\ m \in Nat
    OBVIOUS
  <2>2. ~ (m < n)
    BY <1>2, <1>3, <2>1, Zenon
  <2> QED BY <2>1, <2>2
<1> QED BY <1>4

LEMMA LeastOne == ASSUME NEW S \in SUBSET Nat, S # {} PROVE Min(S) \in S /\ \A m \in S : Min(S) <= m
<1>1. \E n \in S : \A m \in S : n <= m
  BY Least
<1> QED BY <1>1, Zenon DEF Min

LEMMA UptoIs ==
  ASSUME NEW s \in Seq(Items), NEW n \in Nat, n <= Len(s)
  PROVE  /\ Upto(s, n) \in Seq(Items) /\ Len(Upto(s, n)) = n /\ DOMAIN Upto(s, n) = 1 .. n
         /\ \A j \in 1 .. n : Upto(s, n)[j] = s[j]
<1>1. DOMAIN Upto(s, n) = 1 .. n /\ \A j \in 1 .. n : Upto(s, n)[j] = s[j] /\ s[j] \in Items
  BY DEF Upto
<1>2. Upto(s, n) \in [1 .. n -> Items]
  BY <1>1 DEF Upto
<1>3. Upto(s, n) \in Seq(Items)
  BY <1>2
<1> QED BY <1>1, <1>3

LEMMA Near ==
  \A n \in Nat : \A a, b \in 1 .. n :
    /\ (b = a - 1 => a # 1) /\ (b = a + 1 => a # n) /\ ~ (b = a - 1 /\ b = a + 1)
    /\ (a # n => a + 1 \in 1 .. n) /\ (a # 1 => a - 1 \in 1 .. n)
OBVIOUS

(* A list is never longer than the memory.                                  *)
LEMMA ListFits == ASSUME NEW s, List(s) PROVE Len(s) \in Nat /\ Len(s) <= Cardinality(Items) /\ Cardinality(Items) \in Nat
<1>1. s \in [1 .. Len(s) -> Items] /\ Len(s) \in Nat /\ DOMAIN s = 1 .. Len(s)
  BY DEF List
<1>2. s \in Injection(1 .. Len(s), Items)
  BY <1>1 DEF List, Injection, IsInjective
<1>3. IsFiniteSet(Items)
  BY CacheAssumption
<1>4. Cardinality(1 .. Len(s)) <= Cardinality(Items)
  BY <1>2, <1>3, FS_Injection
<1>5. Cardinality(1 .. Len(s)) = Len(s)
  <2>1. 1 \in Int /\ Len(s) \in Int
    BY <1>1
  <2>2. Cardinality(1 .. Len(s)) = IF 1 > Len(s) THEN 0 ELSE Len(s) - 1 + 1
    BY <2>1, FS_Interval
  <2> QED BY <2>2, <1>1
<1> QED BY <1>1, <1>3, <1>4, <1>5, FS_CardinalityType

(* The items along a link are those of the list that it links.              *)
LEMMA FollowIs ==
  ASSUME NEW a, NEW link, NEW s, List(s), a = Start(s), \A j \in 1 .. Len(s) : link[s[j]] = Succ(s, j)
  PROVE  Follow(a, link) = s
<1> DEFINE K       == Cardinality(Items) + 1
           More(t) == IF t = << >> \/ link[Last(t)] = Null THEN t ELSE Append(t, link[Last(t)])
           First   == IF a = Null THEN << >> ELSE <<a>>
           M(n)    == IF n + 1 <= Len(s) THEN n + 1 ELSE Len(s)
           F       == [n \in 0 .. K |-> Upto(s, M(n))]
           IsF(f)  == f = [n \in 0 .. K |-> IF n = 0 THEN First ELSE More(f[n - 1])]
<1>1. Len(s) \in Nat /\ Len(s) <= Cardinality(Items) /\ K \in Nat
  BY ListFits
<1>2. s \in Seq(Items) /\ \A j \in 1 .. Len(s) : s[j] \in Items /\ s[j] # Null
  <2>1. s \in Seq(Items)
    BY DEF List
  <2>2. Null \notin Items
    BY CacheAssumption
  <2> QED BY <2>1, <2>2
<1>3. First = Upto(s, M(0))
  <2>1. CASE s = << >>
    BY <2>1, <1>1 DEF Start, Upto
  <2>2. CASE s # << >>
    <3>1. a = s[1] /\ a # Null /\ M(0) = 1
      BY <2>2, <1>1, <1>2 DEF Start
    <3> QED BY <3>1, <1>2 DEF Upto
  <2> QED BY <2>1, <2>2
<1>4. ASSUME NEW n \in Nat PROVE More(Upto(s, M(n))) = Upto(s, M(n + 1))
  <2> DEFINE t == Upto(s, M(n))
  <2>0. M(n) \in Nat /\ M(n) <= Len(s) /\ M(n + 1) \in Nat /\ M(n + 1) <= Len(s)
    BY <1>1
  <2>1. t \in Seq(Items) /\ Len(t) = M(n) /\ \A j \in 1 .. M(n) : t[j] = s[j]
    BY <2>0, <1>2, UptoIs
  <2>2. CASE Len(s) = 0
    BY <2>2, <2>0, <2>1
  <2>3. CASE Len(s) # 0
    <3>1. t # << >> /\ Last(t) = s[M(n)] /\ M(n) \in 1 .. Len(s)
      BY <2>3, <2>1, <1>1 DEF Last
    <3>2. link[Last(t)] = Succ(s, M(n))
      BY <3>1
    <3>3. CASE M(n) = Len(s)
      <4>1. M(n + 1) = M(n) /\ Succ(s, M(n)) = Null
        BY <3>3, <1>1 DEF Succ
      <4> QED BY <4>1, <3>2
    <3>4. CASE M(n) # Len(s)
      <4>1. M(n + 1) = M(n) + 1 /\ M(n) + 1 \in 1 .. Len(s) /\ Succ(s, M(n)) = s[M(n) + 1]
        BY <3>1, <3>4, <1>1 DEF Succ
      <4>2. More(t) = Append(t, s[M(n) + 1])
        BY <4>1, <3>1, <3>2, <1>2
      <4>3. Append(t, s[M(n) + 1]) = Upto(s, M(n) + 1)
        BY <4>1, <2>1, <2>0, <1>2 DEF Upto
      <4> QED BY <4>1, <4>2, <4>3
    <3> QED BY <3>3, <3>4
  <2> QED BY <2>2, <2>3
<1> HIDE DEF M, More, First
<1>5. IsF(F)
  <2>1. ASSUME NEW n \in 0 .. K PROVE F[n] = IF n = 0 THEN First ELSE More(F[n - 1])
    <3>1. CASE n = 0
      BY <3>1, <1>1, <1>3
    <3>2. CASE n # 0
      <4>1. n - 1 \in 0 .. K /\ n - 1 \in Nat /\ (n - 1) + 1 = n
        BY <3>2, <1>1
      <4>2. F[n - 1] = Upto(s, M(n - 1)) /\ F[n] = Upto(s, M(n))
        BY <4>1
      <4>3. More(Upto(s, M(n - 1))) = Upto(s, M(n))
        BY <4>1, <1>4
      <4> QED BY <3>2, <4>2, <4>3
    <3> QED BY <3>1, <3>2
  <2> QED BY <2>1
<1>6. PICK f : IsF(f) /\ Follow(a, link) = f[K]
  <2>1. Follow(a, link) = (CHOOSE f : IsF(f))[K]
    BY DEF Follow, More, First
  <2>2. IsF(CHOOSE f : IsF(f))
    BY <1>5
  <2> QED BY <2>1, <2>2
<1>7. \A n \in 0 .. K : f[n] = F[n]
  <2> DEFINE S == {n \in 0 .. K : f[n] # F[n]}
  <2> SUFFICES ASSUME S # {} PROVE FALSE
    OBVIOUS
  <2>0. S \in SUBSET Nat
    BY <1>1
  <2>1. PICK n \in S : \A m \in S : n <= m
    <3> HIDE DEF S
    <3> QED BY <2>0, Least
  <2>2. CASE n = 0
    BY <2>1, <2>2, <1>1, <1>5, <1>6
  <2>3. CASE n # 0
    <3>1. n - 1 \in 0 .. K /\ n - 1 \notin S
      BY <2>1, <2>3, <1>1
    <3>2. f[n - 1] = F[n - 1]
      BY <3>1
    <3>3. f[n] = More(f[n - 1])
      BY <2>1, <2>3, <1>6
    <3>4. F[n] = More(F[n - 1])
      BY <2>1, <2>3, <1>5
    <3> QED BY <2>1, <3>2, <3>3, <3>4
  <2> QED BY <2>2, <2>3
<1>8. F[K] = s
  <2>1. M(K) = Len(s)
    <3>1. K = Cardinality(Items) + 1 /\ Cardinality(Items) \in Nat
      BY ListFits
    <3>2. M(K) = IF K + 1 <= Len(s) THEN K + 1 ELSE Len(s)
      BY DEF M
    <3> HIDE DEF K
    <3> QED BY <3>1, <3>2, <1>1
  <2> QED BY <2>1, <1>1, <1>2 DEF Upto
<1> QED BY <1>1, <1>6, <1>7, <1>8

-----------------------------------------------------------------------------
(* An item taken out of a list, and one put in front.                       *)
Old(k, j) == IF j < k THEN j ELSE j + 1

LEMMA ListType == ASSUME NEW s, List(s)
  PROVE  /\ s \in Seq(Items) /\ Len(s) \in Nat /\ DOMAIN s = 1 .. Len(s)
         /\ \A j \in 1 .. Len(s) : s[j] \in Items /\ s[j] # Null
         /\ Range(s) = {s[x] : x \in 1 .. Len(s)}
         /\ \A x, y \in 1 .. Len(s) : s[x] = s[y] => x = y
<1>1. s \in Seq(Items) /\ Len(s) \in Nat /\ DOMAIN s = 1 .. Len(s)
  BY DEF List
<1>2. Null \notin Items
  BY CacheAssumption
<1>3. \A j \in 1 .. Len(s) : s[j] \in Items
  BY <1>1
<1> QED BY <1>1, <1>2, <1>3 DEF List, Range

LEMMA RemoveAtIs ==
  ASSUME NEW s, List(s), NEW k \in 1 .. Len(s)
  PROVE  LET r == RemoveAt(s, k) IN
         /\ List(r) /\ Len(r) = Len(s) - 1 /\ DOMAIN r = 1 .. Len(s) - 1
         /\ \A j \in 1 .. Len(s) - 1 : r[j] = s[Old(k, j)]
         /\ Range(r) = Range(s) \ {s[k]}
<1> DEFINE r == RemoveAt(s, k)
           x == SubSeq(s, 1, k - 1)
           y == SubSeq(s, k + 1, Len(s))
<1>0. s \in Seq(Items) /\ Len(s) \in Nat /\ DOMAIN s = 1 .. Len(s) /\ k \in Nat /\ k \in Int
  BY ListType
<1>1. x \in Seq(Items) /\ Len(x) = k - 1 /\ \A j \in 1 .. k - 1 : x[j] = s[j]
  BY <1>0
<1>2. y \in Seq(Items) /\ Len(y) = Len(s) - k /\ \A j \in 1 .. Len(s) - k : y[j] = s[k + j]
  <2>1. k + 1 \in Int /\ Len(s) \in Int /\ \A j \in k + 1 .. Len(s) : s[j] \in Items
    BY <1>0
  <2>2. /\ y \in Seq(Items) /\ Len(y) = IF k + 1 <= Len(s) THEN Len(s) - (k + 1) + 1 ELSE 0
        /\ \A j \in 1 .. Len(s) - (k + 1) + 1 : y[j] = s[k + 1 + j - 1]
    BY <2>1, SubSeqProperties
  <2> HIDE DEF y
  <2>0. \A n \in Nat : \A a \in 1 .. n : /\ n - (a + 1) + 1 = n - a
                                      /\ (IF a + 1 <= n THEN n - (a + 1) + 1 ELSE 0) = n - a
    OBVIOUS
  <2>3. Len(y) = Len(s) - k /\ Len(s) - (k + 1) + 1 = Len(s) - k
    BY <2>0, <2>2, <1>0
  <2>4. \A j \in 1 .. Len(s) - k : k + 1 + j - 1 = k + j
    BY <1>0
  <2> QED BY <2>2, <2>3, <2>4
<1>3. r = x \o y
  BY DEF RemoveAt
<1> HIDE DEF x, y, r
<1>4. r \in Seq(Items) /\ Len(r) = Len(s) - 1 /\ DOMAIN r = 1 .. Len(s) - 1
  <2>1. r \in Seq(Items) /\ Len(r) = Len(x) + Len(y)
    BY <1>1, <1>2, <1>3, ConcatProperties
  <2>2. Len(r) = Len(s) - 1
    BY <2>1, <1>0, <1>1, <1>2
  <2> QED BY <2>1, <2>2
<1>5. ASSUME NEW j \in 1 .. Len(s) - 1 PROVE r[j] = s[Old(k, j)]
  <2>1. r[j] = IF j <= k - 1 THEN x[j] ELSE y[j - (k - 1)]
    BY <1>0, <1>1, <1>2, <1>3
  <2>2. CASE j < k
    BY <2>1, <2>2, <1>0, <1>1 DEF Old
  <2>3. CASE ~ (j < k)
    <3>1. j - (k - 1) \in 1 .. Len(s) - k /\ k + (j - (k - 1)) = j + 1 /\ ~ (j <= k - 1)
      BY <2>3, <1>0
    <3> QED BY <2>1, <2>3, <3>1, <1>2 DEF Old
  <2> QED BY <2>2, <2>3
<1>6. \A i, j \in 1 .. Len(s) - 1 : /\ Old(k, i) \in 1 .. Len(s) /\ Old(k, i) # k
                                    /\ Old(k, i) = Old(k, j) => i = j
  BY <1>0 DEF Old
<1>7. List(r)
  <2>1. \A a, b \in 1 .. Len(s) : s[a] = s[b] => a = b
    BY ListType
  <2>2. \A i, j \in 1 .. Len(s) - 1 : r[i] = r[j] => i = j
    BY <2>1, <1>5, <1>6, Zenon
  <2> QED BY <2>2, <1>4 DEF List
<1>8. Range(r) = Range(s) \ {s[k]}
  <2>0. Range(r) = {r[j] : j \in 1 .. Len(s) - 1} /\ Range(s) = {s[j] : j \in 1 .. Len(s)}
    BY <1>0, <1>4 DEF Range
  <2>1. \A a, b \in 1 .. Len(s) : s[a] = s[b] => a = b
    BY ListType
  <2>2. ASSUME NEW i \in Range(r) PROVE i \in Range(s) /\ i # s[k]
    <3>1. PICK j \in 1 .. Len(s) - 1 : i = r[j]
      BY <2>0
    <3> QED BY <3>1, <2>0, <2>1, <1>5, <1>6
  <2>3. ASSUME NEW i \in Range(s), i # s[k] PROVE i \in Range(r)
    <3>1. PICK a \in 1 .. Len(s) : i = s[a]
      BY <2>0
    <3>2. PICK j \in 1 .. Len(s) - 1 : Old(k, j) = a
      <4>1. a # k
        BY <3>1, <2>3
      <4>2. CASE a < k
        <5>1. a \in 1 .. Len(s) - 1 /\ Old(k, a) = a
          BY <4>2, <1>0 DEF Old
        <5> QED BY <5>1
      <4>3. CASE ~ (a < k)
        <5>1. a - 1 \in 1 .. Len(s) - 1 /\ Old(k, a - 1) = a
          BY <4>1, <4>3, <1>0 DEF Old
        <5> QED BY <5>1
      <4> QED BY <4>2, <4>3
    <3> QED BY <3>1, <3>2, <2>0, <1>5
  <2> QED BY <2>2, <2>3
<1> QED BY <1>4, <1>5, <1>7, <1>8 DEF r

(* The links of what is left: those of the item before and after change.    *)
LEMMA RemoveAtLinks ==
  ASSUME NEW s, List(s), NEW k \in 1 .. Len(s)
  PROVE  LET r == RemoveAt(s, k) IN
         /\ Start(r) = IF k = 1 THEN Succ(s, k) ELSE Start(s)
         /\ Rear(r) = IF k = Len(s) THEN Pred(s, k) ELSE Rear(s)
         /\ \A j \in 1 .. Len(r) :
              LET o == Old(k, j) IN
              /\ o \in 1 .. Len(s) /\ o # k /\ r[j] = s[o]
              /\ Succ(r, j) = IF o = k - 1 THEN Succ(s, k) ELSE Succ(s, o)
              /\ Pred(r, j) = IF o = k + 1 THEN Pred(s, k) ELSE Pred(s, o)
<1> DEFINE r == RemoveAt(s, k)
<1>1. /\ List(r) /\ Len(r) = Len(s) - 1 /\ DOMAIN r = 1 .. Len(s) - 1
      /\ \A j \in 1 .. Len(s) - 1 : r[j] = s[Old(k, j)]
  BY RemoveAtIs
<1>2. s \in Seq(Items) /\ Len(s) \in Nat /\ DOMAIN s = 1 .. Len(s) /\ k \in Nat /\ r \in Seq(Items)
  BY <1>1, ListType
<1> HIDE DEF r
<1>3. s # << >> /\ (r = << >> <=> Len(s) = 1)
  BY <1>1, <1>2
<1>4. Start(r) = IF k = 1 THEN Succ(s, k) ELSE Start(s)
  <2>1. CASE Len(s) = 1
    BY <2>1, <1>2, <1>3 DEF Start, Succ
  <2>2. CASE Len(s) # 1
    <3>1. Start(r) = s[Old(k, 1)] /\ Start(s) = s[1]
      BY <2>2, <1>1, <1>2, <1>3 DEF Start
    <3>2. Old(k, 1) = IF k = 1 THEN 2 ELSE 1
      BY <1>2 DEF Old
    <3>3. k = 1 => Succ(s, k) = s[2]
      BY <2>2, <1>2 DEF Succ
    <3> QED BY <3>1, <3>2, <3>3
  <2> QED BY <2>1, <2>2
<1>5. Rear(r) = IF k = Len(s) THEN Pred(s, k) ELSE Rear(s)
  <2>1. CASE Len(s) = 1
    BY <2>1, <1>2, <1>3 DEF Rear, Pred
  <2>2. CASE Len(s) # 1
    <3>1. Rear(r) = s[Old(k, Len(s) - 1)] /\ Rear(s) = s[Len(s)]
      BY <2>2, <1>1, <1>2, <1>3 DEF Rear
    <3>2. Old(k, Len(s) - 1) = IF k = Len(s) THEN Len(s) - 1 ELSE Len(s)
      <4>0. \A n \in Nat : \A a \in 1 .. n : n - 1 < a <=> a = n
        OBVIOUS
      <4>1. Len(s) - 1 < k <=> k = Len(s)
        BY <4>0, <1>2
      <4>2. Len(s) - 1 + 1 = Len(s)
        BY <1>2
      <4> QED BY <4>1, <4>2 DEF Old
    <3>3. k = Len(s) => Pred(s, k) = s[Len(s) - 1]
      BY <2>2, <1>2 DEF Pred
    <3> QED BY <3>1, <3>2, <3>3
  <2> QED BY <2>1, <2>2
<1>6. ASSUME NEW j \in 1 .. Len(r)
      PROVE  LET o == Old(k, j) IN
             /\ o \in 1 .. Len(s) /\ o # k /\ r[j] = s[o]
             /\ Succ(r, j) = IF o = k - 1 THEN Succ(s, k) ELSE Succ(s, o)
             /\ Pred(r, j) = IF o = k + 1 THEN Pred(s, k) ELSE Pred(s, o)
  <2>1. Old(k, j) \in 1 .. Len(s) /\ Old(k, j) # k
    BY <1>1, <1>2 DEF Old
  <2>2. r[j] = s[Old(k, j)]
    BY <1>1, <1>2
  <2>3. Succ(r, j) = IF Old(k, j) = k - 1 THEN Succ(s, k) ELSE Succ(s, Old(k, j))
    <3>1. CASE j = Len(r)
      BY <3>1, <1>1, <1>2 DEF Succ, Old
    <3>2. CASE j # Len(r)
      <4>1. j + 1 \in 1 .. Len(s) - 1 /\ Succ(r, j) = s[Old(k, j + 1)]
        BY <3>2, <1>1, <1>2 DEF Succ
      <4> QED BY <4>1, <3>2, <1>1, <1>2 DEF Succ, Old
    <3> QED BY <3>1, <3>2
  <2>4. Pred(r, j) = IF Old(k, j) = k + 1 THEN Pred(s, k) ELSE Pred(s, Old(k, j))
    <3>1. CASE j = 1
      BY <3>1, <1>1, <1>2 DEF Pred, Old
    <3>2. CASE j # 1
      <4>1. j - 1 \in 1 .. Len(s) - 1 /\ Pred(r, j) = s[Old(k, j - 1)]
        BY <3>2, <1>1, <1>2 DEF Pred
      <4> QED BY <4>1, <3>2, <1>1, <1>2 DEF Pred, Old
    <3> QED BY <3>1, <3>2
  <2> QED BY <2>1, <2>2, <2>3, <2>4
<1> QED BY <1>4, <1>5, <1>6 DEF r

LEMMA InFrontIs ==
  ASSUME NEW s, List(s), NEW i \in Items, i \notin Range(s)
  PROVE  LET r == <<i>> \o s IN
         /\ List(r) /\ Len(r) = Len(s) + 1 /\ r # << >> /\ r[1] = i /\ Tail(r) = s /\ Head(r) = i
         /\ Range(r) = Range(s) \cup {i}
         /\ Start(r) = i /\ Rear(r) = (IF s = << >> THEN i ELSE Rear(s))
         /\ Succ(r, 1) = Start(s) /\ Pred(r, 1) = Null
         /\ \A j \in 1 .. Len(s) :
              /\ r[j + 1] = s[j] /\ Succ(r, j + 1) = Succ(s, j)
              /\ Pred(r, j + 1) = IF j = 1 THEN i ELSE Pred(s, j)
<1> DEFINE r == <<i>> \o s
<1>1. s \in Seq(Items) /\ Len(s) \in Nat /\ DOMAIN s = 1 .. Len(s)
  BY ListType
<1>2. r \in Seq(Items) /\ Len(r) = Len(s) + 1 /\ DOMAIN r = 1 .. Len(s) + 1
  BY <1>1
<1>3. r[1] = i /\ \A j \in 1 .. Len(s) : r[j + 1] = s[j]
  BY <1>1
<1>4. r # << >> /\ Head(r) = i /\ Tail(r) = s
  BY <1>1, <1>2, <1>3
<1> HIDE DEF r
<1>5. \A j \in 1 .. Len(s) + 1 : r[j] = IF j = 1 THEN i ELSE s[j - 1]
  <2>1. ASSUME NEW j \in 1 .. Len(s) + 1 PROVE r[j] = IF j = 1 THEN i ELSE s[j - 1]
    <3>1. CASE j = 1
      BY <3>1, <1>3
    <3>2. CASE j # 1
      <4>1. j - 1 \in 1 .. Len(s) /\ (j - 1) + 1 = j
        BY <3>2, <1>1
      <4> QED BY <3>2, <4>1, <1>3
    <3> QED BY <3>1, <3>2
  <2> QED BY <2>1
<1>6. List(r)
  <2>1. \A x, y \in 1 .. Len(s) : s[x] = s[y] => x = y
    BY ListType
  <2>2. \A x \in 1 .. Len(s) : s[x] # i
    BY <1>1 DEF Range
  <2>3. ASSUME NEW x \in 1 .. Len(s) + 1, NEW y \in 1 .. Len(s) + 1, r[x] = r[y] PROVE x = y
    <3>1. (x # 1 => x - 1 \in 1 .. Len(s)) /\ (y # 1 => y - 1 \in 1 .. Len(s))
      BY <1>1
    <3>2. r[x] = (IF x = 1 THEN i ELSE s[x - 1]) /\ r[y] = IF y = 1 THEN i ELSE s[y - 1]
      BY <1>5
    <3>3. x # 1 /\ y # 1 => x - 1 = y - 1
      BY <2>1, <2>3, <3>1, <3>2
    <3>4. x = 1 => y = 1
      BY <2>2, <2>3, <3>1, <3>2
    <3>5. y = 1 => x = 1
      BY <2>2, <2>3, <3>1, <3>2
    <3>6. x \in Int /\ y \in Int
      OBVIOUS
    <3> HIDE DEF r
    <3> QED BY <3>3, <3>4, <3>5, <3>6
  <2> QED BY <2>3, <1>2 DEF List
<1>7. Range(r) = Range(s) \cup {i}
  <2>0. Range(r) = {r[x] : x \in 1 .. Len(s) + 1} /\ Range(s) = {s[x] : x \in 1 .. Len(s)}
    BY <1>1, <1>2 DEF Range
  <2>1. \A a \in Range(r) : a \in Range(s) \cup {i}
    <3> TAKE a \in Range(r)
    <3>1. PICK x \in 1 .. Len(s) + 1 : a = r[x]
      BY <2>0
    <3>2. CASE x = 1
      BY <3>1, <3>2, <1>3
    <3>3. CASE x # 1
      <4>1. x - 1 \in 1 .. Len(s) /\ a = s[x - 1]
        BY <3>1, <3>3, <1>1, <1>5
      <4> QED BY <4>1, <2>0
    <3> QED BY <3>2, <3>3
  <2>2. \A a \in Range(s) : a \in Range(r)
    <3> TAKE a \in Range(s)
    <3>1. PICK x \in 1 .. Len(s) : a = s[x]
      BY <2>0
    <3>2. x + 1 \in 1 .. Len(s) + 1 /\ a = r[x + 1]
      BY <3>1, <1>1, <1>3
    <3> QED BY <3>2, <2>0
  <2>3. i \in Range(r)
    BY <2>0, <1>1, <1>3
  <2> QED BY <2>1, <2>2, <2>3
<1>8. Start(r) = i /\ Rear(r) = (IF s = << >> THEN i ELSE Rear(s))
  <2>1. s = << >> <=> Len(s) = 0
    BY <1>1
  <2> QED BY <2>1, <1>1, <1>2, <1>3, <1>4 DEF Start, Rear
<1>9. Succ(r, 1) = Start(s) /\ Pred(r, 1) = Null
  <2>1. s = << >> <=> Len(s) = 0
    BY <1>1
  <2>2. Len(s) # 0 => r[1 + 1] = s[1]
    BY <1>1, <1>3
  <2> QED BY <2>1, <2>2, <1>1, <1>2 DEF Start, Succ, Pred
<1>10. ASSUME NEW j \in 1 .. Len(s)
       PROVE  /\ Succ(r, j + 1) = Succ(s, j)
              /\ Pred(r, j + 1) = IF j = 1 THEN i ELSE Pred(s, j)
  <2>1. j # Len(s) => r[(j + 1) + 1] = s[j + 1]
    <3>1. j # Len(s) => j + 1 \in 1 .. Len(s)
      BY <1>1, Near
    <3> QED BY <3>1, <1>3, Zenon
  <2>2. r[(j + 1) - 1] = IF j = 1 THEN i ELSE s[j - 1]
    <3>1. (j + 1) - 1 = j /\ j \in 1 .. Len(s) + 1
      BY <1>1
    <3> QED BY <3>1, <1>5
  <2>3. (j + 1 = Len(s) + 1 <=> j = Len(s)) /\ j + 1 # 1
    <3>1. \A n \in Nat : \A a \in 1 .. n : (a + 1 = n + 1 <=> a = n) /\ a + 1 # 1
      OBVIOUS
    <3> QED BY <3>1, <1>1
  <2>4. Succ(r, j + 1) = Succ(s, j)
    BY <2>1, <2>3, <1>2 DEF Succ
  <2>5. Pred(r, j + 1) = IF j = 1 THEN i ELSE Pred(s, j)
    BY <2>2, <2>3 DEF Pred
  <2> QED BY <2>4, <2>5
<1> QED BY <1>2, <1>3, <1>4, <1>6, <1>7, <1>8, <1>9, <1>10 DEF r

-----------------------------------------------------------------------------
(* The memory and what is linked in it.                                     *)
Buckets == 0 .. HashSize(Capacity) - 1
Cell == [key: Keys, pins: Nat, hnext: Slot, prev: Slot, next: Slot]
Mem  == [size: Int, allocated: Int, lruHead: Slot, lruTail: Slot, evictedHead: Slot,
         hash: [Buckets -> Slot], item: UNION {[D -> Cell] : D \in SUBSET Items}]

(* The list s starts at a and follows the hash links.                       *)
Chained(m, a, s) ==
  /\ List(s) /\ Range(s) \subseteq DOMAIN m.item
  /\ a = Start(s) /\ \A j \in 1 .. Len(s) : m.item[s[j]].hnext = Succ(s, j)
Queued(m, q) ==
  /\ List(q) /\ Range(q) \subseteq DOMAIN m.item
  /\ m.lruHead = Start(q) /\ m.lruTail = Rear(q)
  /\ \A j \in 1 .. Len(q) : m.item[q[j]].next = Succ(q, j) /\ m.item[q[j]].prev = Pred(q, j)

(* What the lists are made of is the same in the memory w.                  *)
SameQueue(m, w, D) ==
  /\ w.lruHead = m.lruHead /\ w.lruTail = m.lruTail
  /\ \A a \in D : w.item[a].next = m.item[a].next /\ w.item[a].prev = m.item[a].prev
SameCounts(m, w) == w.size = m.size /\ w.allocated = m.allocated
SameHash(m, w)   == w.evictedHead = m.evictedHead /\ w.hash = m.hash
SameLink(m, w, D)  == \A a \in D : w.item[a].hnext = m.item[a].hnext
SameValue(m, w, D) == \A a \in D : w.item[a].key = m.item[a].key /\ w.item[a].pins = m.item[a].pins

LEMMA MemIs == ASSUME NEW m \in Mem
  PROVE  /\ m.size \in Int /\ m.allocated \in Int
         /\ m.lruHead \in Slot /\ m.lruTail \in Slot /\ m.evictedHead \in Slot
         /\ m.hash \in [Buckets -> Slot]
         /\ DOMAIN m.item \subseteq Items /\ m.item \in [DOMAIN m.item -> Cell]
         /\ \A a \in DOMAIN m.item : m.item[a] \in Cell /\ a # Null
<1>1. PICK D \in SUBSET Items : m.item \in [D -> Cell]
  BY DEF Mem
<1>2. DOMAIN m.item = D
  BY <1>1
<1>3. Null \notin Items
  BY CacheAssumption
<1> QED BY <1>1, <1>2, <1>3 DEF Mem

LEMMA CellIs == ASSUME NEW x \in Cell
  PROVE  x.key \in Keys /\ x.pins \in Nat /\ x.hnext \in Slot /\ x.prev \in Slot /\ x.next \in Slot
BY DEF Cell

LEMMA LinkTypes == ASSUME NEW s, List(s), NEW j \in 1 .. Len(s)
  PROVE  Succ(s, j) \in Slot /\ Pred(s, j) \in Slot /\ Start(s) \in Slot /\ Rear(s) \in Slot
<1>1. Len(s) \in Nat /\ \A x \in 1 .. Len(s) : s[x] \in Items
  BY ListType
<1>2. Succ(s, j) \in Slot
  BY <1>1 DEF Succ, Slot
<1>3. Pred(s, j) \in Slot
  BY <1>1 DEF Pred, Slot
<1>4. Start(s) \in Slot /\ Rear(s) \in Slot
  BY <1>1 DEF Start, Rear, Slot
<1> QED BY <1>2, <1>3, <1>4

LEMMA UnlinkIs ==
  ASSUME NEW m \in Mem, NEW q, Queued(m, q), NEW k \in 1 .. Len(q)
  PROVE  LET w == Unlink(m, q[k]) IN
         /\ w \in Mem /\ Queued(w, RemoveAt(q, k)) /\ DOMAIN w.item = DOMAIN m.item
         /\ SameCounts(m, w) /\ SameHash(m, w)
         /\ SameLink(m, w, DOMAIN m.item) /\ SameValue(m, w, DOMAIN m.item)
<1> DEFINE i == q[k]
           p == Pred(q, k)
           n == Succ(q, k)
           r == RemoveAt(q, k)
           w == Unlink(m, i)
           D == DOMAIN m.item
<1>1. /\ List(q) /\ q \in Seq(Items) /\ Len(q) \in Nat /\ DOMAIN q = 1 .. Len(q)
      /\ Range(q) \subseteq D /\ Range(q) = {q[x] : x \in 1 .. Len(q)}
      /\ \A x \in 1 .. Len(q) : q[x] \in Items /\ q[x] # Null /\ q[x] \in D
      /\ \A x, y \in 1 .. Len(q) : q[x] = q[y] => x = y
  BY ListType DEF Queued
<1>2. m.item[i].prev = p /\ m.item[i].next = n /\ p \in Slot /\ n \in Slot
  BY <1>1, LinkTypes DEF Queued
<1>3. (m.lruHead = i <=> k = 1) /\ (m.lruTail = i <=> k = Len(q))
  <2>1. q # << >> /\ 1 \in 1 .. Len(q) /\ Len(q) \in 1 .. Len(q)
    BY <1>1
  <2>2. m.lruHead = q[1] /\ m.lruTail = q[Len(q)]
    BY <2>1 DEF Queued, Start, Rear
  <2> QED BY <2>1, <2>2, <1>1
<1>4. ASSUME NEW o \in 1 .. Len(q) PROVE (q[o] = p <=> o = k - 1) /\ (q[o] = n <=> o = k + 1)
  <2>1. k = 1 => p = Null
    BY DEF Pred
  <2>2. k # 1 => k - 1 \in 1 .. Len(q) /\ p = q[k - 1]
    BY <1>1 DEF Pred
  <2>3. k = Len(q) => n = Null
    BY DEF Succ
  <2>4. k # Len(q) => k + 1 \in 1 .. Len(q) /\ n = q[k + 1]
    BY <1>1, Near DEF Succ
  <2>5. q[o] = p <=> o = k - 1
    BY <2>1, <2>2, <1>1
  <2>6. o = k + 1 => k # Len(q)
    BY <1>1, Near
  <2> HIDE DEF p, n
  <2>7. q[o] = n <=> o = k + 1
    BY <2>3, <2>4, <2>6, <1>1
  <2> QED BY <2>5, <2>7
<1>5. /\ D \subseteq Items /\ m.item \in [D -> Cell] /\ \A a \in D : m.item[a] \in Cell /\ a # Null
      /\ m.lruHead \in Slot /\ m.lruTail \in Slot
  BY MemIs
<1> DEFINE it == [a \in D |->
                    IF a = p /\ m.lruHead # i THEN [m.item[a] EXCEPT !.next = n]
                    ELSE IF a = n /\ m.lruTail # i THEN [m.item[a] EXCEPT !.prev = p]
                    ELSE m.item[a]]
<1>6. w = [m EXCEPT !.item = it, !.lruHead = IF m.lruHead = i THEN n ELSE m.lruHead,
                    !.lruTail = IF m.lruTail = i THEN p ELSE m.lruTail]
  BY <1>2 DEF Unlink
<1>7. ASSUME NEW a \in D
      PROVE  /\ it[a] \in Cell /\ it[a].key = m.item[a].key /\ it[a].pins = m.item[a].pins
             /\ it[a].hnext = m.item[a].hnext
  <2>1. m.item[a] \in Cell
    BY <1>5
  <2>2. \A x \in Cell, y \in Slot :
          /\ [x EXCEPT !.next = y] \in Cell /\ [x EXCEPT !.prev = y] \in Cell
          /\ [x EXCEPT !.next = y].key = x.key /\ [x EXCEPT !.prev = y].key = x.key
          /\ [x EXCEPT !.next = y].pins = x.pins /\ [x EXCEPT !.prev = y].pins = x.pins
          /\ [x EXCEPT !.next = y].hnext = x.hnext /\ [x EXCEPT !.prev = y].hnext = x.hnext
    BY DEF Cell
  <2> QED BY <2>1, <2>2, <1>2
<1>8. ASSUME NEW o \in 1 .. Len(q), o # k
      PROVE  /\ it[q[o]].next = IF o = k - 1 THEN n ELSE Succ(q, o)
             /\ it[q[o]].prev = IF o = k + 1 THEN p ELSE Pred(q, o)
  <2>1. q[o] \in D /\ m.item[q[o]] \in Cell
    BY <1>1, <1>5
  <2>2. m.item[q[o]].next = Succ(q, o) /\ m.item[q[o]].prev = Pred(q, o)
    BY DEF Queued
  <2>3. \A x \in Cell, y \in Slot : /\ [x EXCEPT !.next = y].next = y /\ [x EXCEPT !.prev = y].prev = y
                                     /\ [x EXCEPT !.next = y].prev = x.prev /\ [x EXCEPT !.prev = y].next = x.next
    BY DEF Cell
  <2>4. it[q[o]] = IF o = k - 1 THEN [m.item[q[o]] EXCEPT !.next = n]
                   ELSE IF o = k + 1 THEN [m.item[q[o]] EXCEPT !.prev = p] ELSE m.item[q[o]]
    <3>1. (o = k - 1 => k # 1) /\ (o = k + 1 => k # Len(q)) /\ ~ (o = k - 1 /\ o = k + 1)
      BY <1>1, Near
    <3> QED BY <3>1, <2>1, <1>3, <1>4
  <2>5. ~ (o = k - 1 /\ o = k + 1)
    BY <1>1, Near
  <2> HIDE DEF it, p, n
  <2>6. p \in Slot /\ n \in Slot
    BY <1>2
  <2> QED BY <2>1, <2>2, <2>3, <2>4, <2>5, <2>6
<1>9. it \in [D -> Cell] /\ DOMAIN it = D
  BY <1>7
<1> HIDE DEF it, D, p, n, i
<1>10. w \in Mem
  <2>1. it \in UNION {[E -> Cell] : E \in SUBSET Items}
    BY <1>5, <1>9
  <2> QED BY <2>1, <1>2, <1>5, <1>6 DEF Mem
<1>11. /\ w.item = it /\ w.size = m.size /\ w.allocated = m.allocated /\ w.hash = m.hash
       /\ w.evictedHead = m.evictedHead
       /\ w.lruHead = (IF m.lruHead = i THEN n ELSE m.lruHead)
       /\ w.lruTail = (IF m.lruTail = i THEN p ELSE m.lruTail)
  BY <1>6 DEF Mem
<1>12. Queued(w, r)
  <2>1. List(r) /\ Len(r) = Len(q) - 1 /\ Range(r) \subseteq Range(q)
    <3>1. /\ List(r) /\ Len(r) = Len(q) - 1 /\ DOMAIN r = 1 .. Len(q) - 1
          /\ Range(r) = Range(q) \ {q[k]}
      BY <1>1, RemoveAtIs, Zenon
    <3> QED BY <3>1
  <2>2. /\ Start(r) = IF k = 1 THEN n ELSE Start(q)
        /\ Rear(r) = IF k = Len(q) THEN p ELSE Rear(q)
        /\ \A j \in 1 .. Len(r) :
             /\ Old(k, j) \in 1 .. Len(q) /\ Old(k, j) # k /\ r[j] = q[Old(k, j)]
             /\ Succ(r, j) = IF Old(k, j) = k - 1 THEN n ELSE Succ(q, Old(k, j))
             /\ Pred(r, j) = IF Old(k, j) = k + 1 THEN p ELSE Pred(q, Old(k, j))
    BY <1>1, RemoveAtLinks DEF n, p
  <2>3. w.lruHead = Start(r) /\ w.lruTail = Rear(r)
    BY <2>2, <1>3, <1>11 DEF Queued
  <2>4. ASSUME NEW j \in 1 .. Len(r) PROVE w.item[r[j]].next = Succ(r, j) /\ w.item[r[j]].prev = Pred(r, j)
    BY <2>2, <1>8, <1>11
  <2>5. Range(r) \subseteq DOMAIN w.item
    BY <2>1, <1>1, <1>9, <1>11
  <2> QED BY <2>1, <2>3, <2>4, <2>5 DEF Queued
<1>13. /\ DOMAIN w.item = D /\ SameCounts(m, w) /\ SameHash(m, w)
       /\ SameLink(m, w, D) /\ SameValue(m, w, D)
  BY <1>7, <1>9, <1>11 DEF SameCounts, SameHash, SameLink, SameValue
<1> QED BY <1>10, <1>12, <1>13 DEF D, i

LEMMA QueuedFrame ==
  ASSUME NEW m, NEW w, NEW q, Queued(m, q), Range(q) \subseteq DOMAIN w.item, SameQueue(m, w, Range(q))
  PROVE  Queued(w, q)
<1>1. \A j \in 1 .. Len(q) : q[j] \in Range(q)
  BY ListType DEF Queued
<1> QED BY <1>1 DEF Queued, SameQueue

LEMMA ChainedFrame ==
  ASSUME NEW m, NEW w, NEW a, NEW s, Chained(m, a, s), Range(s) \subseteq DOMAIN w.item, SameLink(m, w, Range(s))
  PROVE  Chained(w, a, s)
<1>1. \A j \in 1 .. Len(s) : s[j] \in Range(s)
  BY ListType DEF Chained
<1> QED BY <1>1 DEF Chained, SameLink

LEMMA ChainIs == ASSUME NEW m, NEW a, NEW s, Chained(m, a, s) PROVE Chain(m, a) = s
<1> DEFINE link == [i \in DOMAIN m.item |-> m.item[i].hnext]
<1>1. List(s) /\ a = Start(s)
  BY DEF Chained
<1>2. ASSUME NEW j \in 1 .. Len(s) PROVE link[s[j]] = Succ(s, j)
  <2>1. s[j] \in DOMAIN m.item
    BY <1>1, ListType DEF Chained
  <2> QED BY <2>1 DEF Chained
<1> HIDE DEF link
<1>3. Follow(a, link) = s
  BY <1>1, <1>2, FollowIs
<1> QED BY <1>3 DEF Chain, link

BucketOf(k) == k % HashSize(Capacity)

LEMMA HashSizeIs == HashSize(Capacity) \in Nat \ {0} /\ Cardinality(Buckets) = HashSize(Capacity)
<1>1. Capacity \in Nat
  BY CacheAssumption
<1>2. HashSize(Capacity) \in Nat \ {0}
  BY <1>1 DEF HashSize
<1>3. 0 \in Int /\ HashSize(Capacity) - 1 \in Int
  BY <1>2
<1>4. Cardinality(Buckets) = IF 0 > HashSize(Capacity) - 1 THEN 0 ELSE HashSize(Capacity) - 1 - 0 + 1
  BY <1>3, FS_Interval DEF Buckets
<1> QED BY <1>2, <1>4

LEMMA BucketIs == ASSUME NEW m \in Mem, NEW k \in Keys PROVE Bucket(m, k) = BucketOf(k) /\ BucketOf(k) \in Buckets
<1>1. DOMAIN m.hash = Buckets
  BY MemIs
<1>2. k \in Nat
  BY CacheAssumption
<1>3. HashSize(Capacity) \in Nat \ {0} /\ Cardinality(Buckets) = HashSize(Capacity)
  BY HashSizeIs
<1>4. \A n \in Nat \ {0} : k % n \in 0 .. n - 1
  BY <1>2
<1> QED BY <1>1, <1>3, <1>4 DEF Bucket, BucketOf, Buckets

LEMMA OutOfChainIs ==
  ASSUME NEW m \in Mem, NEW i \in DOMAIN m.item, NEW b, b = BucketOf(m.item[i].key),
         NEW s, Chained(m, m.hash[b], s), NEW x \in 1 .. Len(s), s[x] = i
  PROVE  LET w == OutOfChain(m, i) IN
         /\ w \in Mem /\ Chained(w, w.hash[b], RemoveAt(s, x)) /\ DOMAIN w.item = DOMAIN m.item
         /\ \A y \in Buckets : y # b => w.hash[y] = m.hash[y]
         /\ SameLink(m, w, DOMAIN m.item \ Range(s)) /\ SameValue(m, w, DOMAIN m.item)
         /\ SameQueue(m, w, DOMAIN m.item) /\ SameCounts(m, w) /\ w.evictedHead = m.evictedHead
<1> DEFINE D == DOMAIN m.item
           r == RemoveAt(s, x)
           w == OutOfChain(m, i)
           n == Succ(s, x)
<1>1. /\ List(s) /\ s \in Seq(Items) /\ Len(s) \in Nat /\ DOMAIN s = 1 .. Len(s)
      /\ Range(s) \subseteq D /\ Range(s) = {s[j] : j \in 1 .. Len(s)}
      /\ \A j \in 1 .. Len(s) : s[j] \in Items /\ s[j] # Null /\ s[j] \in D /\ m.item[s[j]].hnext = Succ(s, j)
      /\ \A j, l \in 1 .. Len(s) : s[j] = s[l] => j = l
  BY ListType DEF Chained
<1>2. m.item[i].hnext = n /\ n \in Slot
  BY <1>1, LinkTypes
<1>3. /\ m.item \in [D -> Cell] /\ D \subseteq Items /\ m.hash \in [Buckets -> Slot]
      /\ m.item[i] \in Cell /\ m.item[i].key \in Keys
  BY MemIs, CellIs
<1>4. Bucket(m, m.item[i].key) = b /\ b \in Buckets
  BY <1>3, BucketIs
<1>5. Chain(m, m.hash[b]) = s
  BY ChainIs
<1>6. m.hash[b] = i <=> x = 1
  <2>1. s # << >> /\ 1 \in 1 .. Len(s)
    BY <1>1
  <2>2. m.hash[b] = s[1]
    BY <2>1 DEF Chained, Start
  <2> QED BY <2>1, <2>2, <1>1
<1>7. List(r) /\ Len(r) = Len(s) - 1 /\ Range(r) \subseteq Range(s)
  <2>1. /\ List(r) /\ Len(r) = Len(s) - 1 /\ DOMAIN r = 1 .. Len(s) - 1
        /\ Range(r) = Range(s) \ {s[x]}
    BY <1>1, RemoveAtIs, Zenon
  <2> QED BY <2>1
<1>8. /\ Start(r) = IF x = 1 THEN n ELSE Start(s)
      /\ \A j \in 1 .. Len(r) :
           /\ Old(x, j) \in 1 .. Len(s) /\ Old(x, j) # x /\ r[j] = s[Old(x, j)]
           /\ Succ(r, j) = IF Old(x, j) = x - 1 THEN n ELSE Succ(s, Old(x, j))
  BY <1>1, RemoveAtLinks
<1>9. CASE x = 1
  <2>1. w = [m EXCEPT !.hash = [m.hash EXCEPT ![b] = n]]
    BY <1>2, <1>4, <1>6, <1>9 DEF OutOfChain
  <2> HIDE DEF w, n
  <2>2. [m.hash EXCEPT ![b] = n] \in [Buckets -> Slot]
    BY <1>2, <1>3
  <2>3. w \in Mem
    BY <2>1, <2>2 DEF Mem
  <2>4. /\ w.item = m.item /\ w.size = m.size /\ w.allocated = m.allocated
        /\ w.evictedHead = m.evictedHead /\ w.lruHead = m.lruHead /\ w.lruTail = m.lruTail
        /\ w.hash = [m.hash EXCEPT ![b] = n]
    BY <2>1 DEF Mem
  <2>5. w.hash[b] = n /\ \A y \in Buckets : y # b => w.hash[y] = m.hash[y]
    BY <2>4, <1>3, <1>4
  <2>6. Chained(w, w.hash[b], r)
    <3>1. ASSUME NEW j \in 1 .. Len(r) PROVE w.item[r[j]].hnext = Succ(r, j)
      <4>1. Old(x, j) \in 1 .. Len(s) /\ Old(x, j) # x - 1
        BY <1>8, <1>9
      <4> QED BY <4>1, <1>1, <1>8, <2>4
    <3>2. Range(r) \subseteq DOMAIN w.item
      BY <1>1, <1>7, <2>4
    <3> QED BY <3>1, <3>2, <1>7, <1>8, <1>9, <2>5 DEF Chained
  <2>7. DOMAIN w.item = D
    BY <2>4
  <2>8. SameLink(m, w, D \ Range(s)) /\ SameValue(m, w, D) /\ SameQueue(m, w, D) /\ SameCounts(m, w)
    BY <2>4 DEF SameLink, SameValue, SameQueue, SameCounts
  <2> QED BY <2>3, <2>4, <2>5, <2>6, <2>7, <2>8 DEF w
<1>10. CASE x # 1
  <2> DEFINE z == s[x - 1]
             it == [m.item EXCEPT ![z] = [m.item[z] EXCEPT !.hnext = n]]
  <2>1. x - 1 \in 1 .. Len(s)
    BY <1>1, <1>10, Near
  <2>2. (CHOOSE j \in DOMAIN s : m.item[s[j]].hnext = i) = x - 1
    <3>1. m.item[s[x - 1]].hnext = i
      <4>0. \A l \in Nat : \A a \in 1 .. l : a - 1 # l /\ (a - 1) + 1 = a
        OBVIOUS
      <4>1. Succ(s, x - 1) = s[x]
        BY <4>0, <1>1 DEF Succ
      <4> QED BY <4>1, <2>1, <1>1
    <3>2. ASSUME NEW j \in DOMAIN s, m.item[s[j]].hnext = i PROVE j = x - 1
      <4>1. Succ(s, j) = i /\ i # Null
        BY <3>2, <1>1
      <4>2. j # Len(s) /\ s[j + 1] = s[x]
        BY <4>1 DEF Succ
      <4>3. j + 1 \in 1 .. Len(s)
        BY <4>2, <1>1, Near
      <4>4. j + 1 = x
        BY <4>2, <4>3, <1>1
      <4> QED BY <4>4, <1>1
    <3> QED BY <3>1, <3>2, <2>1, <1>1
  <2>3. w = [m EXCEPT !.item = it]
    <3>1. ~ (m.hash[b] = i)
      BY <1>6, <1>10
    <3>2. w = [m EXCEPT !.item[s[CHOOSE j \in DOMAIN s : m.item[s[j]].hnext = i]].hnext = m.item[i].hnext]
      BY <3>1, <1>4, <1>5 DEF OutOfChain
    <3> QED BY <3>2, <2>2, <1>2
  <2>4. z \in D /\ m.item[z] \in Cell
    BY <2>1, <1>1, <1>3
  <2>5. \A y \in Cell, l \in Slot :
          /\ [y EXCEPT !.hnext = l] \in Cell /\ [y EXCEPT !.hnext = l].hnext = l
          /\ [y EXCEPT !.hnext = l].key = y.key /\ [y EXCEPT !.hnext = l].pins = y.pins
          /\ [y EXCEPT !.hnext = l].next = y.next /\ [y EXCEPT !.hnext = l].prev = y.prev
    BY DEF Cell
  <2> HIDE DEF w, n, z
  <2>6. /\ DOMAIN it = D
        /\ \A a \in D : /\ it[a] \in Cell /\ it[a].hnext = IF a = z THEN n ELSE m.item[a].hnext
                        /\ it[a].key = m.item[a].key /\ it[a].pins = m.item[a].pins
                        /\ it[a].next = m.item[a].next /\ it[a].prev = m.item[a].prev
    BY <2>4, <2>5, <1>2, <1>3
  <2> HIDE DEF it
  <2>7. w \in Mem
    <3>0. it = [m.item EXCEPT ![z] = [m.item[z] EXCEPT !.hnext = n]]
      BY DEF it
    <3>1. it \in [D -> Cell]
      BY <3>0, <2>6, <1>3
    <3>2. it \in UNION {[E -> Cell] : E \in SUBSET Items}
      BY <3>1, <1>3
    <3> QED BY <2>3, <3>2 DEF Mem
  <2>8. /\ w.item = it /\ w.size = m.size /\ w.allocated = m.allocated /\ w.hash = m.hash
        /\ w.evictedHead = m.evictedHead /\ w.lruHead = m.lruHead /\ w.lruTail = m.lruTail
    BY <2>3 DEF Mem
  <2>9. Chained(w, w.hash[b], r)
    <3>1. ASSUME NEW j \in 1 .. Len(r) PROVE w.item[r[j]].hnext = Succ(r, j)
      <4>1. Old(x, j) \in 1 .. Len(s) /\ (s[Old(x, j)] = z <=> Old(x, j) = x - 1)
        BY <1>1, <1>8, <2>1 DEF z
      <4> QED BY <4>1, <1>1, <1>8, <2>6, <2>8
    <3>2. Range(r) \subseteq DOMAIN w.item
      BY <1>1, <1>7, <2>6, <2>8
    <3>3. w.hash[b] = Start(r)
      BY <2>8, <1>8, <1>10 DEF Chained
    <3> QED BY <3>1, <3>2, <3>3, <1>7 DEF Chained
  <2>10. z \in Range(s)
    BY <2>1, <1>1 DEF z
  <2>11. DOMAIN w.item = D
    BY <2>6, <2>8
  <2>12. SameLink(m, w, D \ Range(s)) /\ SameValue(m, w, D) /\ SameQueue(m, w, D) /\ SameCounts(m, w)
    BY <2>6, <2>8, <2>10 DEF SameLink, SameValue, SameQueue, SameCounts
  <2> QED BY <2>7, <2>8, <2>9, <2>11, <2>12 DEF w
<1> QED BY <1>9, <1>10

-----------------------------------------------------------------------------
(* The memory m holds the queue q, the evicted items e and, for each bucket *)
(* b, the chain c[b], and nothing else.                                     *)
Filed(m, q, c) ==
  \A b \in Buckets : /\ Chained(m, m.hash[b], c[b])
                     /\ \A i \in DOMAIN m.item : i \in Range(c[b]) <=> i \in Range(q) /\ BucketOf(m.item[i].key) = b
Sorted(m, q, e) ==
  /\ DOMAIN m.item = Range(q) \cup Range(e) /\ Range(q) \cap Range(e) = {}
  /\ \A i, j \in Range(q) : m.item[i].key = m.item[j].key => i = j
  /\ \A i \in Range(e) : m.item[i].pins > 0
Whole(m, q, e, c) ==
  /\ m \in Mem /\ Queued(m, q) /\ Chained(m, m.evictedHead, e) /\ Filed(m, q, c) /\ Sorted(m, q, e)
  /\ m.size = Len(q) /\ m.allocated = Len(q) + Len(e)

(* w is m after its queue became q and what nothing holds was freed.        *)
Keeps(m, w, q) ==
  /\ DOMAIN w.item = {i \in DOMAIN m.item : i \in Range(q) \/ m.item[i].pins > 0}
  /\ SameValue(m, w, DOMAIN w.item)

LEMMA EvictIs ==
  ASSUME NEW m, NEW q, NEW e, NEW c, Whole(m, q, e, c), NEW k \in 1 .. Len(q)
  PROVE  \E f, d : Whole(EvictItem(m, q[k]), RemoveAt(q, k), f, d) /\ Keeps(m, EvictItem(m, q[k]), RemoveAt(q, k))
<1> DEFINE i  == q[k]
           b  == BucketOf(m.item[i].key)
           r  == RemoveAt(q, k)
           D  == DOMAIN m.item
           m1 == [m EXCEPT !.size = m.size - 1]
           m2 == Unlink(m1, i)
           u  == OutOfChain(m2, i)
           w  == EvictItem(m, i)
           s  == c[b]
<1>1. /\ m \in Mem /\ Queued(m, q) /\ Chained(m, m.evictedHead, e) /\ Filed(m, q, c) /\ Sorted(m, q, e)
      /\ m.size = Len(q) /\ m.allocated = Len(q) + Len(e)
  BY DEF Whole
<1>2. /\ List(q) /\ Len(q) \in Nat /\ Range(q) \subseteq D /\ Range(q) = {q[j] : j \in 1 .. Len(q)}
      /\ i \in Items /\ i # Null /\ i \in Range(q) /\ i \in D
  BY <1>1, ListType DEF Queued
<1>3. List(e) /\ Len(e) \in Nat /\ Range(e) \subseteq D
  BY <1>1, ListType DEF Chained
<1>4. /\ D \subseteq Items /\ m.item \in [D -> Cell] /\ \A a \in D : m.item[a] \in Cell /\ m.item[a].pins \in Nat /\ m.item[a].key \in Keys
  BY <1>1, MemIs, CellIs
<1>5. b \in Buckets
  BY <1>1, <1>2, <1>4, BucketIs
<1>6. Chained(m, m.hash[b], s) /\ List(s) /\ Len(s) \in Nat /\ i \in Range(s) /\ Range(s) = {s[j] : j \in 1 .. Len(s)}
  BY <1>1, <1>2, <1>5, ListType DEF Filed, Chained
<1>7. PICK x \in 1 .. Len(s) : s[x] = i
  BY <1>6
<1>8. /\ m1 \in Mem /\ m1.item = m.item /\ m1.size = m.size - 1 /\ m1.allocated = m.allocated
      /\ m1.lruHead = m.lruHead /\ m1.lruTail = m.lruTail /\ m1.evictedHead = m.evictedHead /\ m1.hash = m.hash
  BY <1>1, <1>2 DEF Mem
<1>9. Queued(m1, q)
  BY <1>1, <1>8 DEF Queued
<1> HIDE DEF m1
<1>10. /\ m2 \in Mem /\ Queued(m2, r) /\ DOMAIN m2.item = D
       /\ SameCounts(m1, m2) /\ SameHash(m1, m2) /\ SameLink(m1, m2, D) /\ SameValue(m1, m2, D)
  BY <1>8, <1>9, UnlinkIs
<1> HIDE DEF m2
<1>11. \A a \in D : m2.item[a].hnext = m.item[a].hnext /\ m2.item[a].key = m.item[a].key /\ m2.item[a].pins = m.item[a].pins
  BY <1>8, <1>10 DEF SameLink, SameValue
<1>12. m2.hash = m.hash /\ m2.evictedHead = m.evictedHead /\ m2.size = Len(q) - 1 /\ m2.allocated = Len(q) + Len(e)
  BY <1>1, <1>8, <1>10 DEF SameHash, SameCounts
<1>13. \A a, t : Chained(m, a, t) => Chained(m2, a, t)
  <2> TAKE a, t
  <2> HAVE Chained(m, a, t)
  <2>1. Range(t) \subseteq D
    BY DEF Chained
  <2>2. SameLink(m, m2, Range(t)) /\ Range(t) \subseteq DOMAIN m2.item
    BY <2>1, <1>10, <1>11 DEF SameLink
  <2> QED BY <2>2, ChainedFrame
<1>14. b = BucketOf(m2.item[i].key) /\ i \in DOMAIN m2.item /\ Chained(m2, m2.hash[b], s)
  BY <1>2, <1>6, <1>10, <1>11, <1>12, <1>13
<1> HIDE DEF b, s, i
<1>15. /\ u \in Mem /\ Chained(u, u.hash[b], RemoveAt(s, x)) /\ DOMAIN u.item = D
       /\ \A y \in Buckets : y # b => u.hash[y] = m.hash[y]
       /\ SameLink(m2, u, D \ Range(s)) /\ SameValue(m2, u, D)
       /\ SameQueue(m2, u, D) /\ SameCounts(m2, u) /\ u.evictedHead = m.evictedHead
  <2>1. LET v == OutOfChain(m2, i) IN
        /\ v \in Mem /\ Chained(v, v.hash[b], RemoveAt(s, x)) /\ DOMAIN v.item = DOMAIN m2.item
        /\ \A y \in Buckets : y # b => v.hash[y] = m2.hash[y]
        /\ SameLink(m2, v, DOMAIN m2.item \ Range(s)) /\ SameValue(m2, v, DOMAIN m2.item)
        /\ SameQueue(m2, v, DOMAIN m2.item) /\ SameCounts(m2, v) /\ v.evictedHead = m2.evictedHead
    <3>1. m2 \in Mem /\ i \in DOMAIN m2.item /\ b = BucketOf(m2.item[i].key)
          /\ Chained(m2, m2.hash[b], s) /\ x \in 1 .. Len(s) /\ s[x] = i
      BY <1>7, <1>10, <1>14
    <3> HIDE DEF D, u
    <3> QED BY <3>1, OutOfChainIs, Zenon
  <2> QED BY <2>1, <1>10, <1>12
<1> HIDE DEF u
<1>16. /\ List(r) /\ Len(r) = Len(q) - 1 /\ DOMAIN r = 1 .. Len(q) - 1 /\ Range(r) = Range(q) \ {i}
  BY <1>2, RemoveAtIs, Zenon DEF i
<1>17. Range(RemoveAt(s, x)) = Range(s) \ {i}
  BY <1>6, <1>7, RemoveAtIs, Zenon
<1> HIDE DEF r
<1>18. /\ u.size = Len(q) - 1 /\ u.allocated = Len(q) + Len(e)
       /\ \A a \in D : u.item[a].key = m.item[a].key /\ u.item[a].pins = m.item[a].pins
  BY <1>11, <1>12, <1>15 DEF SameCounts, SameValue
<1>19. Queued(u, r)
  <2>1. Range(r) \subseteq D
    BY <1>2, <1>16
  <2>2. Range(r) \subseteq DOMAIN u.item /\ SameQueue(m2, u, Range(r))
    BY <2>1, <1>15 DEF SameQueue
  <2> QED BY <2>2, <1>10, QueuedFrame
<1>20. ASSUME NEW a, NEW t, Chained(m, a, t), Range(t) \cap Range(s) = {} PROVE Chained(u, a, t)
  <2>1. Chained(m2, a, t) /\ Range(t) \subseteq D
    BY <1>13, <1>20 DEF Chained
  <2>2. Range(t) \subseteq DOMAIN u.item /\ SameLink(m2, u, Range(t))
    BY <2>1, <1>15, <1>20 DEF SameLink
  <2> QED BY <2>1, <2>2, ChainedFrame
<1> DEFINE d == [y \in Buckets |-> IF y = b THEN RemoveAt(s, x) ELSE c[y]]
<1>21. Range(s) \subseteq Range(q)
  BY <1>1, <1>5, <1>6 DEF Filed, Chained, s
<1>22. Chained(u, u.evictedHead, e)
  BY <1>1, <1>15, <1>20, <1>21 DEF Sorted
<1>23. \A y \in Buckets : Chained(u, u.hash[y], d[y]) /\ i \notin Range(d[y])
  <2> TAKE y \in Buckets
  <2>1. CASE y = b
    BY <2>1, <1>15, <1>17
  <2>2. CASE y # b
    <3>1. Chained(m, m.hash[y], c[y]) /\ Range(c[y]) \subseteq D
      BY <1>1 DEF Filed, Chained
    <3>2. Range(c[y]) \cap Range(s) = {}
      BY <3>1, <2>2, <1>1, <1>5 DEF Filed, s
    <3>3. Chained(u, m.hash[y], c[y]) /\ i \notin Range(c[y])
      BY <3>1, <3>2, <1>6, <1>20
    <3> QED BY <3>3, <2>2, <1>15
  <2> QED BY <2>1, <2>2
<1>24. ASSUME NEW y \in Buckets, NEW a \in D
       PROVE  a \in Range(d[y]) <=> a \in Range(r) /\ BucketOf(m.item[a].key) = y
  <2>1. a \in Range(c[y]) <=> a \in Range(q) /\ BucketOf(m.item[a].key) = y
    BY <1>1 DEF Filed
  <2>2. a \in Range(d[y]) <=> a \in Range(c[y]) /\ a # i
    <3>1. CASE y = b
      BY <3>1, <1>17 DEF s
    <3>2. CASE y # b
      <4>1. BucketOf(m.item[i].key) = b
        BY DEF b
      <4>2. i \notin Range(c[y])
        BY <4>1, <3>2, <1>1, <1>2 DEF Filed
      <4> QED BY <4>2, <3>2
    <3> QED BY <3>1, <3>2
  <2> QED BY <2>1, <2>2, <1>16
<1> HIDE DEF d
<1>25. w = IF m.item[i].pins = 0 THEN Free(u, i) ELSE [u EXCEPT !.item[i].hnext = u.evictedHead, !.evictedHead = i]
  BY DEF w, u, m2, m1, EvictItem
<1> HIDE DEF w
<1>26. u.item \in [D -> Cell] /\ \A a \in D : u.item[a] \in Cell
  BY <1>15, MemIs
<1>27. CASE m.item[i].pins = 0
  <2> DEFINE it == Restrict(u.item, D \ {i})
  <2>1. w = [u EXCEPT !.allocated = u.allocated - 1, !.item = it]
    BY <1>15, <1>25, <1>27 DEF Free
  <2>2. DOMAIN it = D \ {i} /\ \A a \in D \ {i} : it[a] = u.item[a]
    BY DEF Restrict
  <2>3. it \in [D \ {i} -> Cell] /\ D \ {i} \in SUBSET Items
    BY <2>2, <1>4, <1>26 DEF Restrict
  <2> HIDE DEF it
  <2>4. it \in UNION {[E -> Cell] : E \in SUBSET Items}
    BY <2>3
  <2>5. w \in Mem
    <3>1. u.allocated \in Int
      BY <1>15, MemIs
    <3>2. \A h \in Int : [u EXCEPT !.allocated = h, !.item = it] \in Mem
      BY <2>4, <1>15 DEF Mem
    <3>3. u.allocated - 1 \in Int
      BY <3>1
    <3> QED BY <3>2, <3>3, <2>1
  <2>6. /\ w.item = it /\ w.size = u.size /\ w.allocated = u.allocated - 1 /\ w.hash = u.hash
        /\ w.evictedHead = u.evictedHead /\ w.lruHead = u.lruHead /\ w.lruTail = u.lruTail
    BY <2>1, <1>15 DEF Mem
  <2>7. DOMAIN w.item = D \ {i} /\ \A a \in D \ {i} : w.item[a] = u.item[a]
    BY <2>2, <2>6
  <2>8. Queued(w, r)
    <3>1. Range(r) \subseteq DOMAIN w.item /\ SameQueue(u, w, Range(r))
      BY <1>2, <1>16, <2>6, <2>7 DEF SameQueue
    <3> QED BY <3>1, <1>19, QueuedFrame
  <2>9. ASSUME NEW a, NEW t, Chained(u, a, t), i \notin Range(t) PROVE Chained(w, a, t)
    <3>1. Range(t) \subseteq D \ {i}
      BY <2>9, <1>15 DEF Chained
    <3>2. Range(t) \subseteq DOMAIN w.item /\ SameLink(u, w, Range(t))
      BY <3>1, <2>7 DEF SameLink
    <3> QED BY <3>2, <2>9, ChainedFrame
  <2>10. i \notin Range(e)
    BY <1>1, <1>2 DEF Sorted
  <2>11. Chained(w, w.evictedHead, e)
    BY <2>6, <2>9, <2>10, <1>22
  <2>12. \A a \in D \ {i} : w.item[a].key = m.item[a].key /\ w.item[a].pins = m.item[a].pins
    BY <2>7, <1>18
  <2>13. Filed(w, r, d)
    BY <2>6, <2>7, <2>9, <2>12, <1>23, <1>24 DEF Filed
  <2>14. Sorted(w, r, e)
    BY <2>7, <2>10, <2>12, <1>1, <1>2, <1>3, <1>16, SMTT(30) DEF Sorted
  <2>15. w.size = Len(r) /\ w.allocated = Len(r) + Len(e)
    BY <2>6, <1>2, <1>3, <1>16, <1>18
  <2>16. Whole(w, r, e, d)
    BY <2>5, <2>8, <2>11, <2>13, <2>14, <2>15 DEF Whole
  <2>17. Keeps(m, w, r)
    <3>1. \A a \in D \ {i} : a \in Range(r) \/ m.item[a].pins > 0
      BY <1>1, <1>16 DEF Sorted
    <3>2. ~ (i \in Range(r)) /\ ~ (m.item[i].pins > 0)
      BY <1>16, <1>27
    <3> QED BY <3>1, <3>2, <2>7, <2>12 DEF Keeps, SameValue
  <2> QED BY <2>16, <2>17 DEF w, r, i
<1>28. CASE m.item[i].pins # 0
  <2> DEFINE it == [u.item EXCEPT ![i] = [u.item[i] EXCEPT !.hnext = u.evictedHead]]
             f  == <<i>> \o e
  <2>1. w = [u EXCEPT !.item = it, !.evictedHead = i]
    <3>1. w = [u EXCEPT !.item[i].hnext = u.evictedHead, !.evictedHead = i]
      BY <1>25, <1>28
    <3> QED BY <3>1, <1>15 DEF Mem
  <2>2. u.evictedHead \in Slot /\ i \in D /\ u.item[i] \in Cell /\ i \in Slot
    BY <1>2, <1>15, <1>26, MemIs DEF Slot
  <2>3. \A y \in Cell, l \in Slot :
          /\ [y EXCEPT !.hnext = l] \in Cell /\ [y EXCEPT !.hnext = l].hnext = l
          /\ [y EXCEPT !.hnext = l].key = y.key /\ [y EXCEPT !.hnext = l].pins = y.pins
          /\ [y EXCEPT !.hnext = l].next = y.next /\ [y EXCEPT !.hnext = l].prev = y.prev
    BY DEF Cell
  <2>4. /\ DOMAIN it = D
        /\ \A a \in D : /\ it[a] \in Cell /\ it[a].hnext = IF a = i THEN u.evictedHead ELSE u.item[a].hnext
                        /\ it[a].key = u.item[a].key /\ it[a].pins = u.item[a].pins
                        /\ it[a].next = u.item[a].next /\ it[a].prev = u.item[a].prev
    BY <2>2, <2>3, <1>26
  <2>5. it \in [D -> Cell]
    BY <2>4
  <2> HIDE DEF it
  <2>6. it \in UNION {[E -> Cell] : E \in SUBSET Items}
    BY <2>5, <1>4
  <2>7. w \in Mem
    <3>1. \A h \in Slot : [u EXCEPT !.item = it, !.evictedHead = h] \in Mem
      BY <2>6, <1>15 DEF Mem
    <3> QED BY <3>1, <2>1, <2>2
  <2>8. /\ w.item = it /\ w.size = u.size /\ w.allocated = u.allocated /\ w.hash = u.hash
        /\ w.evictedHead = i /\ w.lruHead = u.lruHead /\ w.lruTail = u.lruTail
    BY <2>1, <1>15 DEF Mem
  <2>9. Queued(w, r)
    <3>1. Range(r) \subseteq DOMAIN w.item /\ SameQueue(u, w, Range(r))
      BY <1>2, <1>16, <2>4, <2>8 DEF SameQueue
    <3> QED BY <3>1, <1>19, QueuedFrame
  <2>10. ASSUME NEW a, NEW t, Chained(u, a, t), i \notin Range(t) PROVE Chained(w, a, t)
    <3>1. Range(t) \subseteq D \ {i}
      BY <2>10, <1>15 DEF Chained
    <3>2. Range(t) \subseteq DOMAIN w.item /\ SameLink(u, w, Range(t))
      BY <3>1, <2>4, <2>8 DEF SameLink
    <3> QED BY <3>2, <2>10, ChainedFrame
  <2>11. i \notin Range(e)
    BY <1>1, <1>2 DEF Sorted
  <2>12. /\ List(f) /\ Len(f) = Len(e) + 1 /\ f[1] = i /\ Range(f) = Range(e) \cup {i}
         /\ Start(f) = i /\ Succ(f, 1) = Start(e)
         /\ \A j \in 1 .. Len(e) : f[j + 1] = e[j] /\ Succ(f, j + 1) = Succ(e, j)
    BY <2>11, <1>2, <1>3, InFrontIs
  <2> HIDE DEF f
  <2>13. Chained(w, w.evictedHead, f)
    <3>1. Chained(w, u.evictedHead, e)
      BY <2>10, <2>11, <1>22
    <3>2. ASSUME NEW j \in 1 .. Len(f) PROVE w.item[f[j]].hnext = Succ(f, j)
      <4>1. CASE j = 1
        <5>1. u.evictedHead = Start(e)
          BY <1>22 DEF Chained
        <5> QED BY <5>1, <4>1, <2>2, <2>4, <2>8, <2>12
      <4>2. CASE j # 1
        <5>0. \A n \in Nat : \A a \in 1 .. n + 1 : a # 1 => a - 1 \in 1 .. n /\ (a - 1) + 1 = a
          OBVIOUS
        <5>1. j - 1 \in 1 .. Len(e) /\ (j - 1) + 1 = j
          BY <5>0, <4>2, <2>12, <1>3
        <5>2. f[j] = e[j - 1] /\ Succ(f, j) = Succ(e, j - 1)
          BY <5>1, <2>12
        <5> QED BY <5>1, <5>2, <3>1 DEF Chained
      <4> QED BY <4>1, <4>2
    <3>3. Range(f) \subseteq DOMAIN w.item
      BY <2>2, <2>4, <2>8, <2>12, <1>3
    <3> QED BY <3>2, <3>3, <2>8, <2>12 DEF Chained
  <2>14. DOMAIN w.item = D /\ \A a \in D : w.item[a].key = m.item[a].key /\ w.item[a].pins = m.item[a].pins
    BY <2>4, <2>8, <1>18
  <2>15. Filed(w, r, d)
    BY <2>8, <2>10, <2>14, <1>23, <1>24 DEF Filed
  <2>16. Sorted(w, r, f)
    <3>1. m.item[i].pins > 0
      BY <1>2, <1>4, <1>28
    <3>2. DOMAIN w.item = Range(r) \cup Range(f) /\ Range(r) \cap Range(f) = {}
      BY <2>2, <2>12, <2>14, <1>1, <1>16 DEF Sorted
    <3>3. \A a, j \in Range(r) : w.item[a].key = w.item[j].key => a = j
      BY <2>14, <1>1, <1>2, <1>16 DEF Sorted
    <3>4. \A a \in Range(f) : w.item[a].pins > 0
      BY <3>1, <2>2, <2>12, <2>14, <1>1, <1>3 DEF Sorted
    <3> QED BY <3>2, <3>3, <3>4 DEF Sorted
  <2>17. w.size = Len(r) /\ w.allocated = Len(r) + Len(f)
    BY <2>8, <2>12, <1>2, <1>3, <1>16, <1>18
  <2>18. Whole(w, r, f, d)
    BY <2>7, <2>9, <2>13, <2>15, <2>16, <2>17 DEF Whole
  <2>19. Keeps(m, w, r)
    <3>1. \A a \in D : a \in Range(r) \/ m.item[a].pins > 0
      <4>1. m.item[i].pins > 0
        BY <1>2, <1>4, <1>28
      <4> QED BY <4>1, <1>1, <1>16 DEF Sorted
    <3> QED BY <3>1, <2>14 DEF Keeps, SameValue
  <2> QED BY <2>18, <2>19 DEF w, r, i
<1> QED BY <1>27, <1>28

LEMMA KeepsAll == ASSUME NEW m, NEW q, NEW e, NEW c, Whole(m, q, e, c) PROVE Keeps(m, m, q)
BY DEF Whole, Sorted, Keeps, SameValue

LEMMA KeepsOn ==
  ASSUME NEW m, NEW u, NEW w, NEW q, NEW r, Keeps(m, u, q), Keeps(u, w, r), Range(r) \subseteq Range(q)
  PROVE  Keeps(m, w, r)
<1>1. \A a \in DOMAIN u.item : u.item[a].key = m.item[a].key /\ u.item[a].pins = m.item[a].pins
  BY DEF Keeps, SameValue
<1>2. \A a \in DOMAIN w.item : a \in DOMAIN u.item /\ w.item[a].key = u.item[a].key /\ w.item[a].pins = u.item[a].pins
  BY DEF Keeps, SameValue
<1>3. DOMAIN w.item = {i \in DOMAIN m.item : i \in Range(r) \/ m.item[i].pins > 0}
  BY <1>1 DEF Keeps
<1>4. SameValue(m, w, DOMAIN w.item)
  BY <1>1, <1>2 DEF SameValue
<1> QED BY <1>3, <1>4 DEF Keeps

LEMMA ShorterIs ==
  ASSUME NEW q, List(q), NEW n \in 0 .. Len(q)
  PROVE  /\ List(Upto(q, n)) /\ Len(Upto(q, n)) = n /\ Range(Upto(q, n)) \subseteq Range(q)
         /\ n > 0 => RemoveAt(Upto(q, n), n) = Upto(q, n - 1) /\ Rear(Upto(q, n)) = Upto(q, n)[n] /\ Upto(q, n)[n] # Null
         /\ n = 0 => Rear(Upto(q, n)) = Null
         /\ n = Len(q) => Upto(q, n) = q
<1> DEFINE s == Upto(q, n)
<1>1. /\ q \in Seq(Items) /\ Len(q) \in Nat /\ DOMAIN q = 1 .. Len(q) /\ n \in Nat
      /\ \A j \in 1 .. Len(q) : q[j] \in Items /\ q[j] # Null
      /\ \A x, y \in 1 .. Len(q) : q[x] = q[y] => x = y
  BY ListType
<1>2. s \in Seq(Items) /\ Len(s) = n /\ DOMAIN s = 1 .. n /\ \A j \in 1 .. n : s[j] = q[j]
  BY <1>1, UptoIs
<1>3. \A j \in 1 .. n : j \in 1 .. Len(q)
  BY <1>1
<1> HIDE DEF s
<1>4. List(s)
  BY <1>1, <1>2, <1>3 DEF List
<1>5. Range(s) \subseteq Range(q)
  BY <1>1, <1>2, <1>3 DEF Range
<1>6. ASSUME n > 0 PROVE RemoveAt(s, n) = Upto(q, n - 1) /\ Rear(s) = s[n] /\ s[n] # Null
  <2>1. n \in 1 .. Len(s)
    BY <1>1, <1>2, <1>6
  <2>2. /\ List(RemoveAt(s, n)) /\ Len(RemoveAt(s, n)) = n - 1
        /\ \A j \in 1 .. n - 1 : RemoveAt(s, n)[j] = s[Old(n, j)]
    <3>1. /\ List(RemoveAt(s, n)) /\ Len(RemoveAt(s, n)) = Len(s) - 1
          /\ \A j \in 1 .. Len(s) - 1 : RemoveAt(s, n)[j] = s[Old(n, j)]
      BY <2>1, <1>4, RemoveAtIs, Zenon
    <3> QED BY <3>1, <1>2, Zenon
  <2>3. \A j \in 1 .. n - 1 : Old(n, j) = j /\ j \in 1 .. n
    BY <1>1 DEF Old
  <2>4. RemoveAt(s, n) \in Seq(Items) /\ DOMAIN RemoveAt(s, n) = 1 .. n - 1
    BY <2>2, ListType
  <2>5. RemoveAt(s, n) = [j \in 1 .. n - 1 |-> q[j]]
    BY <2>2, <2>3, <2>4, <1>2
  <2>6. s # << >>
    BY <1>2, <1>6, <1>1
  <2>7. Rear(s) = s[n] /\ s[n] # Null
    BY <2>1, <2>6, <1>1, <1>2, <1>3 DEF Rear
  <2> QED BY <2>5, <2>7 DEF Upto
<1>7. n = 0 => Rear(s) = Null
  BY <1>2 DEF Rear
<1>8. n = Len(q) => s = q
  BY <1>1 DEF s, Upto
<1> QED BY <1>2, <1>4, <1>5, <1>6, <1>7, <1>8 DEF s

LEMMA ShrinkIs ==
  ASSUME NEW m, NEW q, NEW e, NEW c, Whole(m, q, e, c), NEW n \in Nat
  PROVE  LET w == ShrinkToCapacity(m, n)
             t == Upto(q, IF Len(q) < n THEN Len(q) ELSE n)
         IN  (\E f, d : Whole(w, t, f, d)) /\ Keeps(m, w, t)
<1> DEFINE K       == Cardinality(Items)
           G(p)    == IF p.lruTail # Null /\ p.size > n THEN EvictItem(p, p.lruTail) ELSE p
           IsF(f, j) == f = [x \in 0 .. j |-> IF x = 0 THEN m ELSE G(f[x - 1])]
           L       == Len(q)
           M(j)    == IF L <= n THEN L ELSE IF L - j >= n THEN L - j ELSE n
           Good(p, j) == (\E f, d : Whole(p, Upto(q, M(j)), f, d)) /\ Keeps(m, p, Upto(q, M(j)))
<1>1. List(q) /\ L \in Nat /\ K \in Nat /\ L <= K
  BY ListFits, ListType DEF Whole, Queued
<1> HIDE DEF K, G, L
<1>2. \A j \in 0 .. K : \E f : IsF(f, j)
  <2> DEFINE S == {j \in 0 .. K : ~ \E f : IsF(f, j)}
  <2> SUFFICES ASSUME S # {} PROVE FALSE
    OBVIOUS
  <2>1. S \in SUBSET Nat
    BY <1>1
  <2>2. PICK j \in S : \A l \in S : j <= l
    <3> HIDE DEF S
    <3> QED BY <2>1, Least
  <2>3. CASE j = 0
    <3>1. IsF([x \in 0 .. 0 |-> m], 0)
      OBVIOUS
    <3> QED BY <3>1, <2>2, <2>3
  <2>4. CASE j # 0
    <3>1. j \in Nat /\ j - 1 \in 0 .. K /\ j - 1 \notin S
      BY <2>2, <2>4, <1>1
    <3>2. PICK f : IsF(f, j - 1)
      BY <3>1
    <3> DEFINE g == [x \in 0 .. j |-> IF x = j THEN G(f[j - 1]) ELSE f[x]]
    <3>3. ASSUME NEW x \in 0 .. j PROVE g[x] = IF x = 0 THEN m ELSE G(g[x - 1])
      <4>1. CASE x = j
        <5>1. g[j - 1] = f[j - 1]
          BY <3>1
        <5> QED BY <4>1, <5>1, <2>4
      <4>2. CASE x # j
        <5>1. x \in 0 .. j - 1 /\ (x # 0 => x - 1 \in 0 .. j /\ x - 1 # j)
          BY <4>2, <3>1
        <5>2. f[x] = IF x = 0 THEN m ELSE G(f[x - 1])
          BY <5>1, <3>2
        <5>3. g[x] = f[x] /\ (x # 0 => g[x - 1] = f[x - 1])
          BY <5>1, <4>2
        <5> QED BY <5>2, <5>3
      <4> QED BY <4>1, <4>2
    <3>4. IsF(g, j)
      BY <3>3
    <3> QED BY <3>4, <2>2
  <2> QED BY <2>3, <2>4
<1>3. PICK ev : IsF(ev, K) /\ ShrinkToCapacity(m, n) = ev[K]
  <2>1. ShrinkToCapacity(m, n) = (CHOOSE f : IsF(f, K))[K]
    BY DEF ShrinkToCapacity, G, K
  <2>2. IsF(CHOOSE f : IsF(f, K), K)
    <3>1. \E f : IsF(f, K)
      BY <1>1, <1>2
    <3> HIDE DEF IsF
    <3> QED BY <3>1
  <2> QED BY <2>1, <2>2
<1>4. ev[0] = m /\ \A j \in 1 .. K : ev[j] = G(ev[j - 1])
  <2>1. ev[0] = m
    BY <1>1, <1>3
  <2>2. ASSUME NEW j \in 1 .. K PROVE ev[j] = G(ev[j - 1])
    <3>1. j \in 0 .. K /\ j # 0
      BY <1>1
    <3> QED BY <3>1, <1>3
  <2> QED BY <2>1, <2>2
<1>5. \A j \in Nat : M(j) \in 0 .. L
  BY <1>1
<1>6. Good(m, 0)
  <2>1. M(0) = L /\ L \in 0 .. Len(q)
    BY <1>1 DEF L
  <2>2. Upto(q, M(0)) = q
    BY <2>1, <1>1, ShorterIs DEF L
  <2> HIDE DEF M
  <2> QED BY <2>2, KeepsAll
<1>7. ASSUME NEW p, NEW j \in 1 .. K, Good(p, j - 1) PROVE Good(G(p), j)
  <2> DEFINE t == Upto(q, M(j - 1))
             l == M(j - 1)
  <2>1. j - 1 \in Nat /\ l \in 0 .. L /\ l \in Nat
    BY <1>1, <1>5
  <2>2. M(j) = IF l > n THEN l - 1 ELSE l
    BY <1>1, <2>1
  <2> HIDE DEF M, l
  <2>3. PICK f : \E d : Whole(p, t, f, d)
    BY <1>7
  <2>4. PICK d : Whole(p, t, f, d)
    BY <2>3
  <2>5. t = Upto(q, l) /\ l \in 0 .. Len(q)
    BY <2>1 DEF l, L
  <2> HIDE DEF t
  <2>6. /\ List(t) /\ Len(t) = l
        /\ l > 0 => RemoveAt(t, l) = Upto(q, l - 1) /\ Rear(t) = t[l] /\ t[l] # Null
        /\ l = 0 => Rear(t) = Null
    BY <2>5, <1>1, ShorterIs
  <2>7. p.size = l /\ p.lruTail = Rear(t)
    BY <2>4, <2>6 DEF Whole, Queued
  <2>8. Keeps(m, p, t)
    BY <1>7 DEF t
  <2>9. CASE l > n
    <3>1. l \in 1 .. Len(t) /\ l > 0
      BY <2>1, <2>6, <2>9
    <3>2. G(p) = EvictItem(p, t[l])
      BY <3>1, <2>6, <2>7, <2>9 DEF G
    <3>3. \E f2, d2 : Whole(EvictItem(p, t[l]), RemoveAt(t, l), f2, d2) /\ Keeps(p, EvictItem(p, t[l]), RemoveAt(t, l))
      BY <2>4, <3>1, EvictIs
    <3>4. Range(RemoveAt(t, l)) \subseteq Range(t)
      <4>1. Range(RemoveAt(t, l)) = Range(t) \ {t[l]}
        BY <2>6, <3>1, RemoveAtIs, Zenon
      <4> QED BY <4>1
    <3>5. Keeps(m, EvictItem(p, t[l]), RemoveAt(t, l))
      BY <2>8, <3>3, <3>4, KeepsOn, Zenon
    <3>6. RemoveAt(t, l) = Upto(q, M(j))
      BY <2>2, <2>6, <2>9, <3>1
    <3> QED BY <3>2, <3>3, <3>5, <3>6
  <2>10. CASE ~ (l > n)
    <3>1. G(p) = p
      BY <2>7, <2>10 DEF G
    <3>2. t = Upto(q, M(j))
      BY <2>2, <2>5, <2>10
    <3> QED BY <3>1, <3>2, <2>4, <2>8
  <2> QED BY <2>9, <2>10
<1> HIDE DEF Good
<1>8. \A j \in 0 .. K : Good(ev[j], j)
  <2> DEFINE S == {j \in 0 .. K : ~ Good(ev[j], j)}
  <2> SUFFICES ASSUME S # {} PROVE FALSE
    OBVIOUS
  <2>1. S \in SUBSET Nat
    BY <1>1
  <2>2. PICK j \in S : \A l \in S : j <= l
    <3> HIDE DEF S
    <3> QED BY <2>1, Least
  <2>3. j # 0
    BY <2>2, <1>4, <1>6
  <2>4. j \in 1 .. K /\ j - 1 \in 0 .. K /\ j - 1 \notin S
    BY <2>2, <2>3, <1>1
  <2>5. Good(ev[j - 1], j - 1)
    BY <2>4
  <2>6. Good(ev[j], j)
    BY <2>4, <2>5, <1>4, <1>7
  <2> QED BY <2>2, <2>6
<1>9. Good(ev[K], K) /\ M(K) = IF L < n THEN L ELSE n
  <2>1. M(K) = IF L < n THEN L ELSE n
    BY <1>1
  <2> HIDE DEF M
  <2> QED BY <2>1, <1>1, <1>8
<1> QED BY <1>3, <1>9 DEF Good, L

LEMMA InsertIntoLruIs ==
  ASSUME NEW m \in Mem, NEW q, Queued(m, q), NEW i \in DOMAIN m.item, i \notin Range(q)
  PROVE  LET w == InsertIntoLru(m, i) IN
         /\ w \in Mem /\ Queued(w, <<i>> \o q) /\ DOMAIN w.item = DOMAIN m.item
         /\ SameCounts(m, w) /\ SameHash(m, w)
         /\ SameLink(m, w, DOMAIN m.item) /\ SameValue(m, w, DOMAIN m.item)
<1> DEFINE D == DOMAIN m.item
           r == <<i>> \o q
           w == InsertIntoLru(m, i)
           it == [a \in D |->
                    IF a = i THEN [m.item[a] EXCEPT !.next = m.lruHead, !.prev = Null]
                    ELSE IF a = m.lruHead THEN [m.item[a] EXCEPT !.prev = i] ELSE m.item[a]]
<1>1. /\ List(q) /\ q \in Seq(Items) /\ Len(q) \in Nat
      /\ Range(q) \subseteq D /\ Range(q) = {q[x] : x \in 1 .. Len(q)}
      /\ \A x \in 1 .. Len(q) : q[x] \in Range(q) /\ q[x] # Null /\ q[x] \in D
      /\ \A x, y \in 1 .. Len(q) : q[x] = q[y] => x = y
  BY ListType DEF Queued
<1>2. /\ D \subseteq Items /\ m.item \in [D -> Cell] /\ \A a \in D : m.item[a] \in Cell /\ a # Null
      /\ m.lruHead \in Slot /\ m.lruTail \in Slot
  BY MemIs
<1>3. i \in Items /\ i \in Slot /\ Null \in Slot /\ i # Null
  BY <1>2 DEF Slot
<1>4. m.lruHead = Start(q) /\ m.lruTail = Rear(q)
  BY DEF Queued
<1>5. (m.lruTail = Null <=> q = << >>) /\ (q # << >> => 1 \in 1 .. Len(q) /\ Start(q) = q[1])
  <2>1. q # << >> => 1 \in 1 .. Len(q) /\ Len(q) \in 1 .. Len(q)
    BY <1>1
  <2> QED BY <2>1, <1>1, <1>4 DEF Start, Rear
<1>6. w = [m EXCEPT !.item = it, !.lruHead = i, !.lruTail = IF m.lruTail = Null THEN i ELSE m.lruTail]
  BY DEF InsertIntoLru
<1>8. /\ DOMAIN it = D
      /\ \A a \in D : /\ it[a] \in Cell /\ it[a].key = m.item[a].key /\ it[a].pins = m.item[a].pins
                      /\ it[a].hnext = m.item[a].hnext
                      /\ it[a].next = IF a = i THEN m.lruHead ELSE m.item[a].next
                      /\ it[a].prev = IF a = i THEN Null ELSE IF a = m.lruHead THEN i ELSE m.item[a].prev
  <2>1. ASSUME NEW a \in D
        PROVE  /\ it[a] \in Cell /\ it[a].key = m.item[a].key /\ it[a].pins = m.item[a].pins
               /\ it[a].hnext = m.item[a].hnext
               /\ it[a].next = IF a = i THEN m.lruHead ELSE m.item[a].next
               /\ it[a].prev = IF a = i THEN Null ELSE IF a = m.lruHead THEN i ELSE m.item[a].prev
    <3>1. m.item[a] \in Cell
      BY <1>2
    <3>2. CASE a = i
      <4>1. it[a] = [m.item[a] EXCEPT !.next = m.lruHead, !.prev = Null]
        BY <3>2
      <4> HIDE DEF it
      <4>3. PICK x \in Cell, y \in Slot, z \in Slot : x = m.item[a] /\ y = m.lruHead /\ z = Null
        BY <3>1, <1>2, <1>3
      <4>4. it[a] = [x EXCEPT !.next = y, !.prev = z]
        BY <4>1, <4>3
      <4>5. /\ it[a] \in Cell /\ it[a].next = y /\ it[a].prev = z
            /\ it[a].key = x.key /\ it[a].pins = x.pins /\ it[a].hnext = x.hnext
        BY <4>4 DEF Cell
      <4> QED BY <4>3, <4>5, <3>2
    <3>3. CASE a # i /\ a = m.lruHead
      <4>1. it[a] = [m.item[a] EXCEPT !.prev = i]
        BY <3>3
      <4> HIDE DEF it
      <4>3. PICK x \in Cell, z \in Slot : x = m.item[a] /\ z = i
        BY <3>1, <1>3
      <4>4. it[a] = [x EXCEPT !.prev = z]
        BY <4>1, <4>3
      <4>5. /\ it[a] \in Cell /\ it[a].next = x.next /\ it[a].prev = z
            /\ it[a].key = x.key /\ it[a].pins = x.pins /\ it[a].hnext = x.hnext
        BY <4>4 DEF Cell
      <4> QED BY <4>3, <4>5, <3>3
    <3>4. CASE a # i /\ a # m.lruHead
      <4>1. it[a] = m.item[a]
        BY <3>4
      <4> HIDE DEF it
      <4> QED BY <4>1, <3>1, <3>4
    <3> QED BY <3>2, <3>3, <3>4
  <2> QED BY <2>1
<1> HIDE DEF it, w, r
<1>9. w \in Mem
  <2>1. it \in [D -> Cell]
    <3>1. it = [a \in D |-> it[a]]
      BY <1>8 DEF it
    <3> QED BY <3>1, <1>8
  <2>2. it \in UNION {[E -> Cell] : E \in SUBSET Items}
    BY <2>1, <1>2
  <2>3. \A h, l \in Slot : [m EXCEPT !.item = it, !.lruHead = h, !.lruTail = l] \in Mem
    BY <2>2 DEF Mem
  <2>4. (IF m.lruTail = Null THEN i ELSE m.lruTail) \in Slot
    BY <1>2, <1>3
  <2> QED BY <2>3, <2>4, <1>3, <1>6
<1>10. /\ w.item = it /\ w.size = m.size /\ w.allocated = m.allocated /\ w.hash = m.hash
       /\ w.evictedHead = m.evictedHead /\ w.lruHead = i
       /\ w.lruTail = (IF m.lruTail = Null THEN i ELSE m.lruTail)
  BY <1>6 DEF Mem
<1>11. /\ List(r) /\ Len(r) = Len(q) + 1 /\ r # << >> /\ r[1] = i
       /\ Range(r) = Range(q) \cup {i}
       /\ Start(r) = i /\ Rear(r) = (IF q = << >> THEN i ELSE Rear(q))
       /\ Succ(r, 1) = Start(q) /\ Pred(r, 1) = Null
       /\ \A j \in 1 .. Len(q) :
            /\ r[j + 1] = q[j] /\ Succ(r, j + 1) = Succ(q, j)
            /\ Pred(r, j + 1) = IF j = 1 THEN i ELSE Pred(q, j)
  BY <1>1, <1>3, InFrontIs DEF r
<1>12. Queued(w, r)
  <2>1. w.lruHead = Start(r) /\ w.lruTail = Rear(r) /\ Range(r) \subseteq DOMAIN w.item
    BY <1>1, <1>4, <1>5, <1>8, <1>10, <1>11
  <2>2. ASSUME NEW j \in 1 .. Len(r) PROVE w.item[r[j]].next = Succ(r, j) /\ w.item[r[j]].prev = Pred(r, j)
    <3>1. CASE j = 1
      BY <3>1, <1>4, <1>8, <1>10, <1>11
    <3>2. CASE j # 1
      <4>0. \A n \in Nat : \A a \in 1 .. n + 1 : a # 1 => a - 1 \in 1 .. n /\ (a - 1) + 1 = a
        OBVIOUS
      <4>1. PICK l \in 1 .. Len(q) : j = l + 1
        BY <4>0, <3>2, <1>1, <1>11
      <4>2. r[j] = q[l] /\ Succ(r, j) = Succ(q, l) /\ Pred(r, j) = IF l = 1 THEN i ELSE Pred(q, l)
        BY <4>1, <1>11
      <4>3. q[l] \in D /\ q[l] # i /\ (q[l] = m.lruHead <=> l = 1)
        BY <1>1, <1>4, <1>5
      <4>4. m.item[q[l]].next = Succ(q, l) /\ m.item[q[l]].prev = Pred(q, l)
        BY DEF Queued
      <4> QED BY <4>2, <4>3, <4>4, <1>8, <1>10
    <3> QED BY <3>1, <3>2
  <2> QED BY <2>1, <2>2, <1>11 DEF Queued
<1>13. DOMAIN w.item = D /\ SameCounts(m, w) /\ SameHash(m, w) /\ SameLink(m, w, D) /\ SameValue(m, w, D)
  BY <1>8, <1>10 DEF SameCounts, SameHash, SameLink, SameValue
<1> QED BY <1>9, <1>12, <1>13 DEF r, w

LEMMA FirstIs == ASSUME NEW q, List(q), q # << >> PROVE <<q[1]>> \o RemoveAt(q, 1) = q
<1> DEFINE s == RemoveAt(q, 1)
           r == <<q[1]>> \o s
<1>1. q \in Seq(Items) /\ Len(q) \in Nat /\ 1 \in 1 .. Len(q) /\ DOMAIN q = 1 .. Len(q) /\ q[1] \in Items
  BY ListType
<1>2. /\ List(s) /\ Len(s) = Len(q) - 1 /\ \A j \in 1 .. Len(q) - 1 : s[j] = q[Old(1, j)]
      /\ Range(s) = Range(q) \ {q[1]}
  BY <1>1, RemoveAtIs
<1> HIDE DEF s
<1>3. /\ List(r) /\ Len(r) = Len(s) + 1 /\ r[1] = q[1]
      /\ \A j \in 1 .. Len(s) : r[j + 1] = s[j]
  <2>1. PICK i \in Items : i = q[1]
    BY <1>1
  <2>2. i \notin Range(s) /\ List(s)
    BY <1>2, <2>1
  <2>3. /\ List(<<i>> \o s) /\ Len(<<i>> \o s) = Len(s) + 1 /\ (<<i>> \o s)[1] = i
        /\ \A j \in 1 .. Len(s) : (<<i>> \o s)[j + 1] = s[j]
    BY <2>2, InFrontIs
  <2> QED BY <2>1, <2>3
<1> HIDE DEF r
<1>4. r \in Seq(Items) /\ DOMAIN r = 1 .. Len(r) /\ Len(r) = Len(q)
  BY <1>1, <1>2, <1>3, ListType
<1>5. ASSUME NEW j \in 1 .. Len(q) PROVE r[j] = q[j]
  <2>1. CASE j = 1
    BY <2>1, <1>3
  <2>2. CASE j # 1
    <3>1. j - 1 \in 1 .. Len(q) - 1 /\ (j - 1) + 1 = j /\ Old(1, j - 1) = j
      BY <2>2, <1>1 DEF Old
    <3> QED BY <3>1, <1>2, <1>3
  <2> QED BY <2>1, <2>2
<1>6. r = [j \in 1 .. Len(q) |-> r[j]] /\ q = [j \in 1 .. Len(q) |-> q[j]]
  BY <1>1, <1>4
<1>7. r = q
  BY <1>5, <1>6
<1> QED BY <1>7 DEF r, s

LEMMA BringToFrontIs ==
  ASSUME NEW m \in Mem, NEW q, Queued(m, q), NEW k \in 1 .. Len(q)
  PROVE  LET w == BringToFront(m, q[k]) IN
         /\ w \in Mem /\ Queued(w, <<q[k]>> \o RemoveAt(q, k)) /\ DOMAIN w.item = DOMAIN m.item
         /\ SameCounts(m, w) /\ SameHash(m, w)
         /\ SameLink(m, w, DOMAIN m.item) /\ SameValue(m, w, DOMAIN m.item)
<1> DEFINE i == q[k]
           r == RemoveAt(q, k)
           u == Unlink(m, i)
           w == BringToFront(m, i)
<1>1. /\ List(q) /\ Len(q) \in Nat /\ i \in DOMAIN m.item /\ q # << >> /\ 1 \in 1 .. Len(q)
      /\ \A x, y \in 1 .. Len(q) : q[x] = q[y] => x = y
  BY ListType DEF Queued
<1>2. m.lruHead = q[1]
  BY <1>1 DEF Queued, Start
<1>3. CASE k = 1
  <2>1. w = m
    BY <1>2, <1>3 DEF BringToFront
  <2>2. <<i>> \o r = q
    BY <1>1, <1>3, FirstIs
  <2> QED BY <2>1, <2>2 DEF SameCounts, SameHash, SameLink, SameValue
<1>4. CASE k # 1
  <2>1. w = InsertIntoLru(u, i)
    BY <1>1, <1>2, <1>4 DEF BringToFront
  <2>2. /\ u \in Mem /\ Queued(u, r) /\ DOMAIN u.item = DOMAIN m.item
        /\ SameCounts(m, u) /\ SameHash(m, u)
        /\ SameLink(m, u, DOMAIN m.item) /\ SameValue(m, u, DOMAIN m.item)
    BY UnlinkIs
  <2>3. i \notin Range(r)
    <3>1. Range(r) = Range(q) \ {q[k]}
      BY <1>1, RemoveAtIs, Zenon
    <3> QED BY <3>1
  <2>4. i \in DOMAIN u.item
    BY <2>2, <1>1
  <2> HIDE DEF u, w, r, i
  <2>5. /\ w \in Mem /\ Queued(w, <<i>> \o r) /\ DOMAIN w.item = DOMAIN u.item
        /\ SameCounts(u, w) /\ SameHash(u, w)
        /\ SameLink(u, w, DOMAIN u.item) /\ SameValue(u, w, DOMAIN u.item)
    BY <2>1, <2>2, <2>3, <2>4, InsertIntoLruIs
  <2>6. /\ SameCounts(m, w) /\ SameHash(m, w)
        /\ SameLink(m, w, DOMAIN m.item) /\ SameValue(m, w, DOMAIN m.item)
    BY <2>2, <2>5 DEF SameCounts, SameHash, SameLink, SameValue
  <2> QED BY <2>2, <2>5, <2>6 DEF w, r, i
<1> QED BY <1>3, <1>4

(* The item of a key is found where it is in the queue.                     *)
Places(m, q, k) == {j \in DOMAIN q : m.item[q[j]].key = k}

LEMMA LookupIs ==
  ASSUME NEW m, NEW q, NEW e, NEW c, Whole(m, q, e, c), NEW k \in Keys
  PROVE  /\ Lookup(m, k) # Null <=> Places(m, q, k) # {}
         /\ \A j \in Places(m, q, k) : j \in 1 .. Len(q) /\ Lookup(m, k) = q[j]
         /\ \A j, l \in Places(m, q, k) : j = l
<1> DEFINE b == BucketOf(k)
           s == c[b]
           n == {j \in DOMAIN s : m.item[s[j]].key = k}
<1>1. /\ m \in Mem /\ Queued(m, q) /\ Filed(m, q, c) /\ Sorted(m, q, e)
  BY DEF Whole
<1>2. /\ List(q) /\ Range(q) \subseteq DOMAIN m.item /\ Range(q) = {q[x] : x \in 1 .. Len(q)} /\ DOMAIN q = 1 .. Len(q)
      /\ \A x, y \in 1 .. Len(q) : q[x] = q[y] => x = y
  BY <1>1, ListType DEF Queued
<1>3. Bucket(m, k) = b /\ b \in Buckets
  BY <1>1, BucketIs
<1>4. Chained(m, m.hash[b], s) /\ List(s)
  BY <1>1, <1>3 DEF Filed, Chained
<1>5. /\ Len(s) \in Nat /\ DOMAIN s = 1 .. Len(s) /\ Range(s) = {s[x] : x \in 1 .. Len(s)}
      /\ \A x \in 1 .. Len(s) : s[x] # Null /\ s[x] \in DOMAIN m.item
  BY <1>4, ListType DEF Chained
<1>6. Lookup(m, k) = IF n = {} THEN Null ELSE s[Min(n)]
  <2>1. Chain(m, m.hash[Bucket(m, k)]) = s
    BY <1>3, <1>4, ChainIs
  <2> QED BY <2>1 DEF Lookup
<1>7. \A i \in DOMAIN m.item : i \in Range(s) <=> i \in Range(q) /\ BucketOf(m.item[i].key) = b
  BY <1>1, <1>3 DEF Filed
<1> HIDE DEF s
<1>8. \A j \in n : s[j] \in Range(q) /\ m.item[s[j]].key = k /\ s[j] # Null
  BY <1>5, <1>7
<1>9. n # {} => Min(n) \in n
  <2>1. n \in SUBSET Nat
    BY <1>5
  <2> HIDE DEF n
  <2> QED BY <2>1, LeastOne
<1>10. Places(m, q, k) # {} => n # {}
  <2> SUFFICES ASSUME Places(m, q, k) # {} PROVE n # {}
    OBVIOUS
  <2>1. PICK j \in 1 .. Len(q) : m.item[q[j]].key = k
    BY <1>2 DEF Places
  <2>2. q[j] \in Range(s)
    BY <2>1, <1>2, <1>7
  <2>3. PICK x \in 1 .. Len(s) : s[x] = q[j]
    BY <2>2, <1>5
  <2> QED BY <2>1, <2>3, <1>5
<1>11. n # {} => Places(m, q, k) # {}
  <2> SUFFICES ASSUME n # {} PROVE Places(m, q, k) # {}
    OBVIOUS
  <2>1. PICK x \in n : s[x] \in Range(q) /\ m.item[s[x]].key = k
    BY <1>8
  <2>2. PICK j \in 1 .. Len(q) : q[j] = s[x]
    BY <2>1, <1>2
  <2> QED BY <2>1, <2>2, <1>2 DEF Places
<1>12. Lookup(m, k) # Null <=> n # {}
  BY <1>6, <1>8, <1>9
<1>13. ASSUME NEW j \in Places(m, q, k) PROVE j \in 1 .. Len(q) /\ Lookup(m, k) = q[j]
  <2>1. j \in 1 .. Len(q) /\ m.item[q[j]].key = k /\ q[j] \in Range(q)
    BY <1>2 DEF Places
  <2>2. n # {}
    BY <1>10, <1>13
  <2>3. Lookup(m, k) = s[Min(n)] /\ s[Min(n)] \in Range(q) /\ m.item[s[Min(n)]].key = k
    BY <2>2, <1>6, <1>8, <1>9
  <2>4. s[Min(n)] = q[j]
    BY <2>1, <2>3, <1>1 DEF Sorted
  <2> QED BY <2>1, <2>3, <2>4
<1>14. \A j, l \in Places(m, q, k) : j = l
  BY <1>2, <1>13
<1> QED BY <1>10, <1>11, <1>12, <1>13, <1>14

-----------------------------------------------------------------------------
(* What an operation does to the whole.                                     *)
LEMMA FiledFrame ==
  ASSUME NEW m, NEW w, NEW q, NEW r, NEW c, Filed(m, q, c), Range(r) = Range(q), DOMAIN w.item = DOMAIN m.item,
         w.hash = m.hash, SameLink(m, w, DOMAIN m.item), \A a \in DOMAIN m.item : w.item[a].key = m.item[a].key
  PROVE  Filed(w, r, c)
<1> SUFFICES ASSUME NEW b \in Buckets
             PROVE  /\ Chained(w, w.hash[b], c[b])
                    /\ \A i \in DOMAIN w.item : i \in Range(c[b]) <=> i \in Range(r) /\ BucketOf(w.item[i].key) = b
  BY DEF Filed
<1>1. Chained(m, m.hash[b], c[b])
  BY DEF Filed
<1>2. Range(c[b]) \subseteq DOMAIN w.item /\ SameLink(m, w, Range(c[b]))
  BY <1>1 DEF Chained, SameLink
<1>3. Chained(w, w.hash[b], c[b])
  BY <1>1, <1>2, ChainedFrame
<1>4. \A i \in DOMAIN w.item : i \in Range(c[b]) <=> i \in Range(r) /\ BucketOf(w.item[i].key) = b
  BY DEF Filed
<1> QED BY <1>3, <1>4

(* An item gets other pins.                                                 *)
LEMMA PinsIs ==
  ASSUME NEW m, NEW q, NEW e, NEW c, Whole(m, q, e, c), NEW i \in DOMAIN m.item, NEW p \in Nat,
         i \in Range(e) => p > 0
  PROVE  LET w == [m EXCEPT !.item[i].pins = p] IN
         /\ Whole(w, q, e, c) /\ DOMAIN w.item = DOMAIN m.item
         /\ \A a \in DOMAIN m.item : /\ w.item[a].key = m.item[a].key
                                     /\ w.item[a].pins = IF a = i THEN p ELSE m.item[a].pins
<1> DEFINE D  == DOMAIN m.item
           w  == [m EXCEPT !.item[i].pins = p]
           it == [m.item EXCEPT ![i] = [m.item[i] EXCEPT !.pins = p]]
<1>1. /\ m \in Mem /\ Queued(m, q) /\ Chained(m, m.evictedHead, e) /\ Filed(m, q, c) /\ Sorted(m, q, e)
      /\ m.size = Len(q) /\ m.allocated = Len(q) + Len(e)
  BY DEF Whole
<1>2. D \subseteq Items /\ m.item \in [D -> Cell] /\ m.item[i] \in Cell
  BY <1>1, MemIs
<1>3. w = [m EXCEPT !.item = it]
  BY <1>1 DEF Mem
<1>4. /\ DOMAIN it = D
      /\ \A a \in D : /\ it[a] \in Cell /\ it[a].key = m.item[a].key /\ it[a].hnext = m.item[a].hnext
                      /\ it[a].pins = IF a = i THEN p ELSE m.item[a].pins
                      /\ it[a].next = m.item[a].next /\ it[a].prev = m.item[a].prev
  <2>1. ASSUME NEW a \in D
        PROVE  /\ it[a] \in Cell /\ it[a].key = m.item[a].key /\ it[a].hnext = m.item[a].hnext
               /\ it[a].pins = IF a = i THEN p ELSE m.item[a].pins
               /\ it[a].next = m.item[a].next /\ it[a].prev = m.item[a].prev
    <3>1. CASE a = i
      <4>1. PICK x \in Cell : x = m.item[i]
        BY <1>2
      <4>2. it[a] = [x EXCEPT !.pins = p]
        BY <3>1, <4>1, <1>2
      <4> HIDE DEF it
      <4>3. /\ it[a] \in Cell /\ it[a].key = x.key /\ it[a].hnext = x.hnext /\ it[a].pins = p
            /\ it[a].next = x.next /\ it[a].prev = x.prev
        BY <4>2 DEF Cell
      <4> QED BY <4>1, <4>3, <3>1
    <3>2. CASE a # i
      <4>1. it[a] = m.item[a] /\ m.item[a] \in Cell
        BY <3>2, <1>2
      <4> QED BY <4>1, <3>2
    <3> QED BY <3>1, <3>2
  <2> QED BY <2>1, <1>2
<1>5. it \in [D -> Cell]
  <2>1. it = [a \in D |-> it[a]]
    BY <1>2
  <2> HIDE DEF it
  <2> QED BY <2>1, <1>4
<1> HIDE DEF it, w
<1>6. w \in Mem
  <2>1. it \in UNION {[E -> Cell] : E \in SUBSET Items}
    BY <1>2, <1>5
  <2> QED BY <2>1, <1>1, <1>3 DEF Mem
<1>7. /\ w.item = it /\ w.size = m.size /\ w.allocated = m.allocated /\ w.hash = m.hash
      /\ w.evictedHead = m.evictedHead /\ w.lruHead = m.lruHead /\ w.lruTail = m.lruTail
  BY <1>1, <1>3 DEF Mem
<1>8. Queued(w, q)
  <2>1. Range(q) \subseteq DOMAIN w.item /\ SameQueue(m, w, Range(q))
    BY <1>1, <1>4, <1>7 DEF Queued, SameQueue
  <2> QED BY <2>1, <1>1, QueuedFrame
<1>9. Chained(w, w.evictedHead, e)
  <2>1. Range(e) \subseteq DOMAIN w.item /\ SameLink(m, w, Range(e))
    BY <1>1, <1>4, <1>7 DEF Chained, SameLink
  <2> QED BY <2>1, <1>1, <1>7, ChainedFrame
<1>10. Filed(w, q, c)
  <2>1. DOMAIN w.item = D /\ SameLink(m, w, D) /\ \A a \in D : w.item[a].key = m.item[a].key
    BY <1>4, <1>7 DEF SameLink
  <2> QED BY <2>1, <1>1, <1>7, FiledFrame
<1>11. Sorted(w, q, e)
  <2>1. Range(q) \subseteq D /\ Range(e) \subseteq D /\ DOMAIN w.item = D
    BY <1>1, <1>4, <1>7 DEF Queued, Chained
  <2>2. \A a, j \in Range(q) : w.item[a].key = w.item[j].key => a = j
    BY <2>1, <1>1, <1>4, <1>7 DEF Sorted
  <2>3. \A a \in Range(e) : w.item[a].pins > 0
    BY <2>1, <1>1, <1>4, <1>7 DEF Sorted
  <2> QED BY <2>1, <2>2, <2>3, <1>1 DEF Sorted
<1>12. Whole(w, q, e, c)
  BY <1>1, <1>6, <1>7, <1>8, <1>9, <1>10, <1>11 DEF Whole
<1> QED BY <1>4, <1>7, <1>12 DEF w

LEMMA FrontIs ==
  ASSUME NEW m, NEW q, NEW e, NEW c, Whole(m, q, e, c), NEW k \in 1 .. Len(q)
  PROVE  LET w == BringToFront(m, q[k]) IN
         /\ Whole(w, <<q[k]>> \o RemoveAt(q, k), e, c)
         /\ DOMAIN w.item = DOMAIN m.item /\ SameValue(m, w, DOMAIN m.item)
<1> DEFINE D == DOMAIN m.item
           i == q[k]
           r == RemoveAt(q, k)
           t == <<i>> \o r
           w == BringToFront(m, i)
<1>1. /\ m \in Mem /\ Queued(m, q) /\ Chained(m, m.evictedHead, e) /\ Filed(m, q, c) /\ Sorted(m, q, e)
      /\ m.size = Len(q) /\ m.allocated = Len(q) + Len(e)
  BY DEF Whole
<1>2. List(q) /\ Len(q) \in Nat /\ i \in Items /\ i \in Range(q) /\ Range(q) \subseteq D /\ Range(e) \subseteq D
  BY <1>1, ListType DEF Queued, Chained
<1>3. /\ w \in Mem /\ Queued(w, t) /\ DOMAIN w.item = D
      /\ SameCounts(m, w) /\ SameHash(m, w) /\ SameLink(m, w, D) /\ SameValue(m, w, D)
  BY <1>1, BringToFrontIs
<1>4. /\ List(r) /\ Len(r) = Len(q) - 1 /\ DOMAIN r = 1 .. Len(q) - 1 /\ Range(r) = Range(q) \ {i}
  BY <1>2, RemoveAtIs, Zenon
<1> HIDE DEF w, r, i
<1>5. i \notin Range(r)
  BY <1>4
<1>6. Len(t) = Len(r) + 1 /\ Range(t) = Range(r) \cup {i}
  BY <1>2, <1>4, <1>5, InFrontIs
<1>7. Len(t) = Len(q) /\ Range(t) = Range(q)
  <2>1. Len(t) = Len(q)
    BY <1>2, <1>4, <1>6
  <2>2. Range(t) = (Range(q) \ {i}) \cup {i} /\ i \in Range(q)
    BY <1>2, <1>4, <1>6
  <2> QED BY <2>1, <2>2
<1> HIDE DEF t
<1>8. Chained(w, w.evictedHead, e)
  <2>1. Range(e) \subseteq DOMAIN w.item /\ SameLink(m, w, Range(e))
    BY <1>2, <1>3 DEF SameLink
  <2> QED BY <2>1, <1>1, <1>3, ChainedFrame DEF SameHash
<1>9. Filed(w, t, c)
  <2>1. w.hash = m.hash /\ \A a \in D : w.item[a].key = m.item[a].key
    BY <1>3 DEF SameHash, SameValue
  <2> QED BY <2>1, <1>1, <1>3, <1>7, FiledFrame
<1>10. Sorted(w, t, e)
  <2>1. \A a, j \in Range(t) : w.item[a].key = w.item[j].key => a = j
    BY <1>1, <1>2, <1>3, <1>7 DEF Sorted, SameValue
  <2>2. \A a \in Range(e) : w.item[a].pins > 0
    BY <1>1, <1>2, <1>3 DEF Sorted, SameValue
  <2> QED BY <2>1, <2>2, <1>1, <1>3, <1>7 DEF Sorted
<1>11. Whole(w, t, e, c)
  BY <1>1, <1>3, <1>7, <1>8, <1>9, <1>10 DEF Whole, SameCounts
<1> QED BY <1>3, <1>11 DEF w, t, r, i

(* A new item.                                                              *)
LEMMA AddedIs ==
  ASSUME NEW m, NEW q, NEW e, NEW c, Whole(m, q, e, c), NEW k \in Keys, NEW i \in Items \ DOMAIN m.item,
         \A j \in Range(q) : m.item[j].key # k
  PROVE  LET w == InsertIntoLru(Added(m, k, i), i) IN
         /\ \E d : Whole(w, <<i>> \o q, e, d)
         /\ DOMAIN w.item = DOMAIN m.item \cup {i} /\ SameValue(m, w, DOMAIN m.item)
         /\ w.item[i].key = k /\ w.item[i].pins = 0
<1> DEFINE D == DOMAIN m.item
           b == BucketOf(k)
           s == c[b]
           n == Added(m, k, i)
           w == InsertIntoLru(n, i)
           x == NewItem(k, m.hash[b])
           it == [a \in D \cup {i} |-> IF a = i THEN x ELSE m.item[a]]
           d == [y \in Buckets |-> IF y = b THEN <<i>> \o s ELSE c[y]]
<1>1. /\ m \in Mem /\ Queued(m, q) /\ Chained(m, m.evictedHead, e) /\ Filed(m, q, c) /\ Sorted(m, q, e)
      /\ m.size = Len(q) /\ m.allocated = Len(q) + Len(e)
  BY DEF Whole
<1>2. /\ D \subseteq Items /\ m.item \in [D -> Cell] /\ m.hash \in [Buckets -> Slot]
      /\ \A a \in D : m.item[a] \in Cell
  BY <1>1, MemIs
<1>3. Bucket(m, k) = b /\ b \in Buckets /\ m.hash[b] \in Slot
  BY <1>1, <1>2, BucketIs
<1>4. /\ List(q) /\ Len(q) \in Nat /\ List(e) /\ Len(e) \in Nat /\ Range(q) \subseteq D /\ Range(e) \subseteq D
      /\ i \notin Range(q) /\ i \in Slot
  BY <1>1, ListType DEF Queued, Chained, Slot
<1>5. Chained(m, m.hash[b], s) /\ List(s) /\ Len(s) \in Nat /\ i \notin Range(s)
  BY <1>1, <1>3, ListType DEF Filed, Chained
<1>6. n = [m EXCEPT !.size = m.size + 1, !.allocated = m.allocated + 1,
                    !.hash = [m.hash EXCEPT ![b] = i], !.item = it]
  <2>1. n = [m EXCEPT !.size = @ + 1, !.allocated = @ + 1, !.hash[b] = i, !.item = it]
    BY <1>3 DEF Added
  <2> HIDE DEF it, n
  <2> QED BY <2>1, <1>1 DEF Mem
<1>7. x \in Cell /\ x.key = k /\ x.pins = 0 /\ x.hnext = m.hash[b]
  BY <1>3 DEF Cell, NewItem, Slot
<1> HIDE DEF x
<1>8. /\ DOMAIN it = D \cup {i} /\ it[i] = x /\ \A a \in D : it[a] = m.item[a]
      /\ it \in [D \cup {i} -> Cell]
  BY <1>2, <1>7
<1> HIDE DEF it, n
<1>9. n \in Mem
  <2>1. it \in UNION {[E -> Cell] : E \in SUBSET Items}
    BY <1>2, <1>8
  <2>2. [m.hash EXCEPT ![b] = i] \in [Buckets -> Slot]
    BY <1>2, <1>4
  <2>3. m.size + 1 \in Int /\ m.allocated + 1 \in Int
    BY <1>1, <1>4
  <2>4. \A y, z \in Int, h \in [Buckets -> Slot] :
          [m EXCEPT !.size = y, !.allocated = z, !.hash = h, !.item = it] \in Mem
    BY <2>1, <1>1 DEF Mem
  <2> QED BY <2>2, <2>3, <2>4, <1>6
<1>10. /\ n.item = it /\ n.size = m.size + 1 /\ n.allocated = m.allocated + 1
       /\ n.hash = [m.hash EXCEPT ![b] = i]
       /\ n.evictedHead = m.evictedHead /\ n.lruHead = m.lruHead /\ n.lruTail = m.lruTail
  BY <1>1, <1>6 DEF Mem
<1>11. Queued(n, q)
  <2>1. Range(q) \subseteq DOMAIN n.item /\ SameQueue(m, n, Range(q))
    BY <1>4, <1>8, <1>10 DEF SameQueue
  <2> QED BY <2>1, <1>1, QueuedFrame
<1>12. i \in DOMAIN n.item /\ DOMAIN n.item = D \cup {i}
  BY <1>8, <1>10
<1> HIDE DEF w
<1>13. /\ w \in Mem /\ Queued(w, <<i>> \o q) /\ DOMAIN w.item = D \cup {i}
       /\ SameCounts(n, w) /\ SameHash(n, w)
       /\ SameLink(n, w, D \cup {i}) /\ SameValue(n, w, D \cup {i})
  <2>1. /\ w \in Mem /\ Queued(w, <<i>> \o q) /\ DOMAIN w.item = DOMAIN n.item
        /\ SameCounts(n, w) /\ SameHash(n, w)
        /\ SameLink(n, w, DOMAIN n.item) /\ SameValue(n, w, DOMAIN n.item)
    BY <1>4, <1>9, <1>11, <1>12, InsertIntoLruIs DEF w
  <2> QED BY <2>1, <1>12
<1>14. /\ w.size = Len(q) + 1 /\ w.allocated = Len(q) + Len(e) + 1 /\ w.evictedHead = m.evictedHead
       /\ w.hash[b] = i /\ \A y \in Buckets : y # b => w.hash[y] = m.hash[y]
       /\ w.item[i].key = k /\ w.item[i].pins = 0 /\ w.item[i].hnext = m.hash[b]
       /\ \A a \in D : w.item[a].key = m.item[a].key /\ w.item[a].pins = m.item[a].pins /\ w.item[a].hnext = m.item[a].hnext
  <2>1. w.size = Len(q) + 1 /\ w.allocated = Len(q) + Len(e) + 1 /\ w.evictedHead = m.evictedHead
    BY <1>1, <1>4, <1>10, <1>13 DEF SameCounts, SameHash
  <2>2. w.hash[b] = i /\ \A y \in Buckets : y # b => w.hash[y] = m.hash[y]
    BY <1>2, <1>3, <1>10, <1>13 DEF SameHash
  <2>3. w.item[i].key = k /\ w.item[i].pins = 0 /\ w.item[i].hnext = m.hash[b]
    BY <1>7, <1>8, <1>10, <1>13 DEF SameLink, SameValue
  <2>4. \A a \in D : w.item[a].key = m.item[a].key /\ w.item[a].pins = m.item[a].pins /\ w.item[a].hnext = m.item[a].hnext
    BY <1>8, <1>10, <1>13 DEF SameLink, SameValue
  <2> QED BY <2>1, <2>2, <2>3, <2>4
<1>15. \A a, u : Chained(m, a, u) => Chained(w, a, u)
  <2> TAKE a, u
  <2> HAVE Chained(m, a, u)
  <2>1. Range(u) \subseteq DOMAIN w.item /\ SameLink(m, w, Range(u))
    BY <1>13, <1>14 DEF Chained, SameLink
  <2> QED BY <2>1, ChainedFrame
<1>16. /\ List(<<i>> \o q) /\ Len(<<i>> \o q) = Len(q) + 1 /\ Range(<<i>> \o q) = Range(q) \cup {i}
  BY <1>4, InFrontIs
<1> DEFINE t == <<i>> \o s
<1>17. /\ List(t) /\ Len(t) = Len(s) + 1 /\ t[1] = i /\ Range(t) = Range(s) \cup {i}
       /\ Start(t) = i /\ Succ(t, 1) = Start(s)
       /\ \A j \in 1 .. Len(s) : t[j + 1] = s[j] /\ Succ(t, j + 1) = Succ(s, j)
  <2> HIDE DEF s
  <2> QED BY <1>5, InFrontIs
<1> HIDE DEF t
<1>18. Chained(w, w.hash[b], t)
  <2>1. ASSUME NEW j \in 1 .. Len(t) PROVE w.item[t[j]].hnext = Succ(t, j)
    <3>1. CASE j = 1
      BY <3>1, <1>5, <1>14, <1>17 DEF Chained
    <3>2. CASE j # 1
      <4>0. \A l \in Nat : \A a \in 1 .. l + 1 : a # 1 => a - 1 \in 1 .. l /\ (a - 1) + 1 = a
        OBVIOUS
      <4>1. PICK l \in 1 .. Len(s) : j = l + 1
        BY <4>0, <3>2, <1>5, <1>17
      <4>2. Chained(w, m.hash[b], s)
        BY <1>5, <1>15
      <4> QED BY <4>1, <4>2, <1>17 DEF Chained
    <3> QED BY <3>1, <3>2
  <2>2. Range(t) \subseteq DOMAIN w.item
    BY <1>5, <1>13, <1>17 DEF Chained
  <2> QED BY <2>1, <2>2, <1>14, <1>17 DEF Chained
<1>19. Filed(w, <<i>> \o q, d)
  <2> SUFFICES ASSUME NEW y \in Buckets
               PROVE  /\ Chained(w, w.hash[y], d[y])
                      /\ \A a \in DOMAIN w.item : a \in Range(d[y]) <=> a \in Range(<<i>> \o q) /\ BucketOf(w.item[a].key) = y
    BY DEF Filed
  <2>1. Chained(m, m.hash[y], c[y]) /\ i \notin Range(c[y])
    BY <1>1 DEF Filed, Chained
  <2>2. \A a \in D : a \in Range(c[y]) <=> a \in Range(q) /\ BucketOf(m.item[a].key) = y
    BY <1>1 DEF Filed
  <2>3. CASE y = b
    <3>1. d[y] = t
      BY <2>3 DEF t
    <3>2. Range(t) = Range(c[y]) \cup {i}
      BY <2>3, <1>17
    <3>3. ASSUME NEW a \in DOMAIN w.item PROVE a \in Range(t) <=> a \in Range(<<i>> \o q) /\ BucketOf(w.item[a].key) = y
      <4>1. CASE a = i
        BY <4>1, <3>2, <2>3, <1>14, <1>16
      <4>2. CASE a # i
        BY <4>2, <3>2, <2>2, <1>13, <1>14, <1>16
      <4> QED BY <4>1, <4>2
    <3>4. Chained(w, w.hash[y], t)
      BY <2>3, <1>18
    <3> QED BY <3>1, <3>3, <3>4
  <2>4. CASE y # b
    <3>1. d[y] = c[y]
      BY <2>4
    <3>2. Chained(w, w.hash[y], c[y])
      BY <2>1, <2>4, <1>14, <1>15
    <3>3. ASSUME NEW a \in DOMAIN w.item PROVE a \in Range(c[y]) <=> a \in Range(<<i>> \o q) /\ BucketOf(w.item[a].key) = y
      <4>1. CASE a = i
        BY <4>1, <2>1, <2>4, <1>14
      <4>2. CASE a # i
        BY <4>2, <2>2, <1>13, <1>14, <1>16
      <4> QED BY <4>1, <4>2
    <3> QED BY <3>1, <3>2, <3>3
  <2> QED BY <2>3, <2>4
<1>20. Sorted(w, <<i>> \o q, e)
  <2>1. \A a, j \in Range(q) : w.item[a].key = w.item[j].key => a = j
    BY <1>1, <1>4, <1>14 DEF Sorted
  <2>2. \A a \in Range(q) : w.item[a].key # k
    BY <1>4, <1>14
  <2>3. \A a, j \in Range(<<i>> \o q) : w.item[a].key = w.item[j].key => a = j
    BY <2>1, <2>2, <1>14, <1>16
  <2>4. \A a \in Range(e) : w.item[a].pins > 0
    BY <1>1, <1>4, <1>14 DEF Sorted
  <2>5. DOMAIN w.item = Range(<<i>> \o q) \cup Range(e) /\ Range(<<i>> \o q) \cap Range(e) = {}
    BY <1>1, <1>4, <1>13, <1>16 DEF Sorted
  <2> QED BY <2>3, <2>4, <2>5 DEF Sorted
<1>21. Whole(w, <<i>> \o q, e, d)
  <2>1. w.size = Len(<<i>> \o q) /\ w.allocated = Len(<<i>> \o q) + Len(e)
    BY <1>4, <1>14, <1>16
  <2> QED BY <2>1, <1>1, <1>13, <1>14, <1>15, <1>19, <1>20 DEF Whole
<1>22. SameValue(m, w, D)
  BY <1>14 DEF SameValue
<1> QED BY <1>13, <1>14, <1>21, <1>22 DEF w, n

(* The evicted item i, which nothing holds any more, is freed.              *)
Released(m, i) ==
  LET c == Evicted(m)
      before == {j \in DOMAIN c : m.item[c[j]].hnext = i}
  IN  IF before = {} THEN [Free(m, i) EXCEPT !.evictedHead = m.item[i].hnext]
      ELSE [Free(m, i) EXCEPT !.item[c[Min(before)]].hnext = m.item[i].hnext]

LEMMA ReleasedIs ==
  ASSUME NEW m, NEW q, NEW e, NEW c, Whole(m, q, e, c), NEW x \in 1 .. Len(e)
  PROVE  LET w == Released(m, e[x]) IN
         /\ Whole(w, q, RemoveAt(e, x), c)
         /\ DOMAIN w.item = DOMAIN m.item \ {e[x]} /\ SameValue(m, w, DOMAIN w.item)
<1> DEFINE D == DOMAIN m.item
           i == e[x]
           r == RemoveAt(e, x)
           w == Released(m, i)
           n == Succ(e, x)
           before == {j \in DOMAIN e : m.item[e[j]].hnext = i}
           F == Restrict(m.item, D \ {i})
           z == e[x - 1]
           it == IF x = 1 THEN F ELSE [F EXCEPT ![z] = [F[z] EXCEPT !.hnext = n]]
<1>1. /\ m \in Mem /\ Queued(m, q) /\ Chained(m, m.evictedHead, e) /\ Filed(m, q, c) /\ Sorted(m, q, e)
      /\ m.size = Len(q) /\ m.allocated = Len(q) + Len(e)
  BY DEF Whole
<1>2. /\ List(e) /\ e \in Seq(Items) /\ Len(e) \in Nat /\ DOMAIN e = 1 .. Len(e)
      /\ Range(e) \subseteq D /\ Range(e) = {e[j] : j \in 1 .. Len(e)}
      /\ \A j \in 1 .. Len(e) : e[j] \in Items /\ e[j] # Null /\ e[j] \in D /\ m.item[e[j]].hnext = Succ(e, j)
      /\ \A j, l \in 1 .. Len(e) : e[j] = e[l] => j = l
  BY <1>1, ListType DEF Chained
<1>3. m.item[i].hnext = n /\ n \in Slot /\ i \in D /\ i \in Range(e)
  BY <1>2, LinkTypes
<1>4. /\ D \subseteq Items /\ m.item \in [D -> Cell] /\ \A a \in D : m.item[a] \in Cell
      /\ m.evictedHead \in Slot
  BY <1>1, MemIs
<1>5. Evicted(m) = e
  BY <1>1, ChainIs DEF Evicted
<1>6. before = IF x = 1 THEN {} ELSE {x - 1}
  <2>1. ASSUME NEW j \in 1 .. Len(e) PROVE m.item[e[j]].hnext = i <=> j + 1 = x
    <3>1. m.item[e[j]].hnext = Succ(e, j) /\ i # Null
      BY <1>2
    <3>2. CASE j = Len(e)
      BY <3>1, <3>2, <1>2 DEF Succ
    <3>3. CASE j # Len(e)
      <4>1. Succ(e, j) = e[j + 1] /\ j + 1 \in 1 .. Len(e)
        BY <3>3, <1>2, Near DEF Succ
      <4> QED BY <3>1, <4>1, <1>2
    <3> QED BY <3>2, <3>3
  <2>2. x # 1 => x - 1 \in 1 .. Len(e)
    BY <1>2, Near
  <2>3. \A j \in 1 .. Len(e) : (j + 1 = x <=> j = x - 1) /\ (x = 1 => j + 1 # x)
    BY <1>2
  <2> QED BY <2>1, <2>2, <2>3, <1>2
<1>7. /\ List(r) /\ Len(r) = Len(e) - 1 /\ DOMAIN r = 1 .. Len(e) - 1 /\ Range(r) = Range(e) \ {i}
  BY <1>2, RemoveAtIs, Zenon
<1>8. /\ Start(r) = IF x = 1 THEN n ELSE Start(e)
      /\ \A j \in 1 .. Len(r) :
           /\ Old(x, j) \in 1 .. Len(e) /\ Old(x, j) # x /\ r[j] = e[Old(x, j)]
           /\ Succ(r, j) = IF Old(x, j) = x - 1 THEN n ELSE Succ(e, Old(x, j))
  BY <1>2, RemoveAtLinks
<1>9. x # 1 => x - 1 \in 1 .. Len(e) /\ z \in D \ {i}
  <2> SUFFICES ASSUME x # 1 PROVE x - 1 \in 1 .. Len(e) /\ z \in D \ {i}
    OBVIOUS
  <2>1. x - 1 \in 1 .. Len(e) /\ x - 1 # x
    BY <1>2, Near
  <2> QED BY <2>1, <1>2
<1>10. DOMAIN F = D \ {i} /\ (\A a \in D \ {i} : F[a] = m.item[a]) /\ F \in [D \ {i} -> Cell]
  BY <1>4 DEF Restrict
<1> HIDE DEF F, before, z, n
<1>11. Free(m, i) = [m EXCEPT !.allocated = m.allocated - 1, !.item = F]
  BY <1>1 DEF Free, F
<1>12. w = [m EXCEPT !.allocated = m.allocated - 1, !.item = it,
                     !.evictedHead = IF x = 1 THEN n ELSE m.evictedHead]
  <2>1. w = IF before = {} THEN [Free(m, i) EXCEPT !.evictedHead = n]
            ELSE [Free(m, i) EXCEPT !.item[e[Min(before)]].hnext = n]
    BY <1>3, <1>5 DEF Released, before
  <2>2. CASE x = 1
    <3>1. w = [Free(m, i) EXCEPT !.evictedHead = n]
      BY <2>1, <2>2, <1>6
    <3> HIDE DEF w
    <3> QED BY <3>1, <2>2, <1>1, <1>11 DEF Mem
  <2>3. CASE x # 1
    <3>1. before = {x - 1} /\ before # {}
      BY <2>3, <1>6
    <3>2. before \in SUBSET Nat
      BY <3>1, <2>3, <1>2
    <3>3. Min(before) = x - 1
      BY <3>1, <3>2, LeastOne
    <3>4. w = [Free(m, i) EXCEPT !.item[z].hnext = n]
      BY <2>1, <3>1, <3>3 DEF z
    <3> HIDE DEF w
    <3>5. Free(m, i).item = F
      BY <1>1, <1>11 DEF Mem
    <3>6. w = [Free(m, i) EXCEPT !.item = [F EXCEPT ![z] = [F[z] EXCEPT !.hnext = n]]]
      BY <3>4, <3>5, <1>1, <1>11 DEF Mem
    <3> QED BY <3>6, <2>3, <1>1, <1>11 DEF Mem
  <2> QED BY <2>2, <2>3
<1>13. /\ DOMAIN it = D \ {i}
       /\ \A a \in D \ {i} : /\ it[a] \in Cell /\ it[a].key = m.item[a].key /\ it[a].pins = m.item[a].pins
                             /\ it[a].next = m.item[a].next /\ it[a].prev = m.item[a].prev
                             /\ it[a].hnext = IF x # 1 /\ a = z THEN n ELSE m.item[a].hnext
  <2>1. ASSUME NEW a \in D \ {i}
        PROVE  /\ it[a] \in Cell /\ it[a].key = m.item[a].key /\ it[a].pins = m.item[a].pins
               /\ it[a].next = m.item[a].next /\ it[a].prev = m.item[a].prev
               /\ it[a].hnext = IF x # 1 /\ a = z THEN n ELSE m.item[a].hnext
    <3>1. CASE x # 1 /\ a = z
      <4>1. PICK y \in Cell, l \in Slot : y = m.item[a] /\ l = n
        BY <1>3, <1>4
      <4>2. it[a] = [y EXCEPT !.hnext = l]
        BY <3>1, <4>1, <1>10
      <4> HIDE DEF it
      <4>3. /\ it[a] \in Cell /\ it[a].key = y.key /\ it[a].hnext = l /\ it[a].pins = y.pins
            /\ it[a].next = y.next /\ it[a].prev = y.prev
        BY <4>2 DEF Cell
      <4> QED BY <4>1, <4>3, <3>1
    <3>2. CASE ~ (x # 1 /\ a = z)
      <4>1. it[a] = m.item[a] /\ m.item[a] \in Cell
        BY <3>2, <1>4, <1>10
      <4> QED BY <4>1, <3>2
    <3> QED BY <3>1, <3>2
  <2>2. DOMAIN it = D \ {i}
    BY <1>10
  <2> QED BY <2>1, <2>2
<1>14. it \in [D \ {i} -> Cell]
  <2>1. it = [a \in D \ {i} |-> it[a]]
    BY <1>10
  <2> HIDE DEF it
  <2> QED BY <2>1, <1>13
<1> HIDE DEF it, w, r, i
<1>15. w \in Mem
  <2>1. it \in UNION {[E -> Cell] : E \in SUBSET Items}
    BY <1>4, <1>14
  <2>2. (IF x = 1 THEN n ELSE m.evictedHead) \in Slot /\ m.allocated - 1 \in Int
    BY <1>1, <1>3, <1>4, MemIs
  <2>3. \A l \in Slot, y \in Int : [m EXCEPT !.allocated = y, !.item = it, !.evictedHead = l] \in Mem
    BY <2>1, <1>1 DEF Mem
  <2> QED BY <2>2, <2>3, <1>12
<1>16. /\ w.item = it /\ w.size = m.size /\ w.allocated = m.allocated - 1 /\ w.hash = m.hash
       /\ w.evictedHead = (IF x = 1 THEN n ELSE m.evictedHead) /\ w.lruHead = m.lruHead /\ w.lruTail = m.lruTail
  BY <1>1, <1>12 DEF Mem
<1>17. /\ DOMAIN w.item = D \ {i}
       /\ \A a \in D \ {i} : w.item[a].key = m.item[a].key /\ w.item[a].pins = m.item[a].pins
  BY <1>13, <1>16
<1>18. Range(q) \subseteq D \ {i} /\ (x # 1 => z \notin Range(q))
  <2>1. Range(q) \subseteq D \ {i}
    BY <1>1, <1>3 DEF Sorted, Queued
  <2>2. x # 1 => z \in Range(e)
    BY <1>2, <1>9 DEF z
  <2> QED BY <2>1, <2>2, <1>1 DEF Sorted
<1>19. Queued(w, q)
  <2>1. Range(q) \subseteq DOMAIN w.item /\ SameQueue(m, w, Range(q))
    BY <1>13, <1>16, <1>18 DEF SameQueue
  <2> QED BY <2>1, <1>1, QueuedFrame
<1>20. Chained(w, w.evictedHead, r)
  <2>1. ASSUME NEW j \in 1 .. Len(r) PROVE w.item[r[j]].hnext = Succ(r, j)
    <3>1. Old(x, j) \in 1 .. Len(e) /\ Old(x, j) # x /\ r[j] = e[Old(x, j)]
      BY <1>8
    <3>2. r[j] \in D \ {i}
      BY <3>1, <1>2 DEF i
    <3>3. Old(x, j) = x - 1 => x # 1
      BY <3>1, <1>2, Near
    <3>4. x # 1 => (r[j] = z <=> Old(x, j) = x - 1)
      BY <3>1, <1>2, <1>9 DEF z
    <3> QED BY <3>1, <3>2, <3>3, <3>4, <1>2, <1>8, <1>13, <1>16
  <2>2. Range(r) \subseteq DOMAIN w.item
    BY <1>2, <1>7, <1>17
  <2>3. w.evictedHead = Start(r)
    BY <1>1, <1>8, <1>16 DEF Chained
  <2> QED BY <2>1, <2>2, <2>3, <1>7 DEF Chained
<1>21. Filed(w, q, c)
  <2> SUFFICES ASSUME NEW y \in Buckets
               PROVE  /\ Chained(w, w.hash[y], c[y])
                      /\ \A a \in DOMAIN w.item : a \in Range(c[y]) <=> a \in Range(q) /\ BucketOf(w.item[a].key) = y
    BY DEF Filed
  <2>1. /\ Chained(m, m.hash[y], c[y])
        /\ \A a \in D : a \in Range(c[y]) <=> a \in Range(q) /\ BucketOf(m.item[a].key) = y
    BY <1>1 DEF Filed
  <2>2. Range(c[y]) \subseteq Range(q)
    BY <2>1 DEF Chained
  <2>3. Range(c[y]) \subseteq DOMAIN w.item /\ SameLink(m, w, Range(c[y]))
    BY <2>2, <1>13, <1>16, <1>18 DEF SameLink
  <2>4. Chained(w, w.hash[y], c[y])
    BY <2>1, <2>3, <1>16, ChainedFrame
  <2> QED BY <2>1, <2>4, <1>17
<1>22. Sorted(w, q, r)
  <2>1. DOMAIN w.item = Range(q) \cup Range(r) /\ Range(q) \cap Range(r) = {}
    BY <1>1, <1>7, <1>17, <1>18 DEF Sorted
  <2>2. \A a, j \in Range(q) : w.item[a].key = w.item[j].key => a = j
    BY <1>1, <1>17, <1>18 DEF Sorted
  <2>3. \A a \in Range(r) : w.item[a].pins > 0
    BY <1>1, <1>2, <1>7, <1>17 DEF Sorted
  <2> QED BY <2>1, <2>2, <2>3 DEF Sorted
<1>23. Whole(w, q, r, c)
  <2>1. w.size = Len(q) /\ w.allocated = Len(q) + Len(r)
    <3>1. Len(q) \in Nat
      BY <1>1, ListType DEF Queued
    <3> QED BY <3>1, <1>1, <1>2, <1>7, <1>16
  <2> QED BY <2>1, <1>15, <1>19, <1>20, <1>21, <1>22 DEF Whole
<1>24. SameValue(m, w, DOMAIN w.item)
  BY <1>17 DEF SameValue
<1> QED BY <1>17, <1>23, <1>24 DEF w, r, i

LEMMA UnlockIs ==
  ASSUME NEW m, NEW q, NEW e, NEW c, Whole(m, q, e, c), NEW i \in DOMAIN m.item, m.item[i].pins > 0
  PROVE  LET w == Unlock(m, i) IN
         /\ \E f : Whole(w, q, f, c)
         /\ IF i \in Range(q) \/ m.item[i].pins > 1
            THEN /\ DOMAIN w.item = DOMAIN m.item
                 /\ \A a \in DOMAIN m.item : /\ w.item[a].key = m.item[a].key
                                             /\ w.item[a].pins = IF a = i THEN m.item[i].pins - 1 ELSE m.item[a].pins
            ELSE DOMAIN w.item = DOMAIN m.item \ {i} /\ SameValue(m, w, DOMAIN w.item)
<1> DEFINE D == DOMAIN m.item
           w == Unlock(m, i)
           p == m.item[i].pins
           fewer == [m EXCEPT !.item[i].pins = p - 1]
           b == BucketOf(m.item[i].key)
<1>1. /\ m \in Mem /\ Queued(m, q) /\ Chained(m, m.evictedHead, e) /\ Filed(m, q, c) /\ Sorted(m, q, e)
  BY DEF Whole
<1>2. p \in Nat /\ m.item[i].key \in Keys
  BY <1>1, MemIs, CellIs
<1>3. Evicted(m) = e
  BY <1>1, ChainIs DEF Evicted
<1>4. fewer = [m EXCEPT !.item[i].pins = @ - 1]
  BY <1>1 DEF Mem
<1>5. CASE i \in Range(e) /\ p = 1
  <2>1. i \notin Range(q)
    BY <1>1, <1>5 DEF Sorted
  <2>2. PICK x \in 1 .. Len(e) : i = e[x]
    <3>1. Range(e) = {e[j] : j \in 1 .. Len(e)}
      BY <1>1, ListType DEF Chained
    <3> QED BY <3>1, <1>5
  <2>3. w = Released(m, i)
    BY <1>3, <1>5 DEF Unlock, Released
  <2>4. Whole(w, q, RemoveAt(e, x), c) /\ DOMAIN w.item = D \ {i} /\ SameValue(m, w, DOMAIN w.item)
    BY <2>2, <2>3, ReleasedIs
  <2> QED BY <2>1, <2>4, <1>5
<1>6. CASE ~ (i \in Range(e) /\ p = 1)
  <2>1. i \in Range(q) \/ p > 1
    BY <1>1, <1>2, <1>6 DEF Sorted
  <2>2. w = fewer
    <3>1. CASE i \in Range(e)
      <4>1. p > 1
        BY <3>1, <1>2, <1>6
      <4> QED BY <4>1, <3>1, <1>3, <1>4 DEF Unlock
    <3>2. CASE i \notin Range(e)
      <4>1. i \in Range(q)
        BY <3>2, <1>1 DEF Sorted
      <4>2. Bucket(m, m.item[i].key) = b /\ b \in Buckets
        BY <1>1, <1>2, BucketIs
      <4>3. i \in Range(c[b]) /\ Chained(m, m.hash[b], c[b])
        BY <4>1, <4>2, <1>1 DEF Filed
      <4>4. Chain(m, m.hash[Bucket(m, m.item[i].key)]) = c[b]
        BY <4>2, <4>3, ChainIs
      <4> QED BY <4>3, <4>4, <3>2, <1>3, <1>4 DEF Unlock
    <3> QED BY <3>1, <3>2
  <2>3. p - 1 \in Nat /\ (i \in Range(e) => p - 1 > 0)
    BY <1>2, <1>6
  <2> HIDE DEF w, p
  <2>4. /\ Whole(w, q, e, c) /\ DOMAIN w.item = D
        /\ \A a \in D : /\ w.item[a].key = m.item[a].key
                        /\ w.item[a].pins = IF a = i THEN p - 1 ELSE m.item[a].pins
    BY <2>2, <2>3, PinsIs
  <2> QED BY <2>1, <2>4 DEF w, p
<1> QED BY <1>5, <1>6

(* The queue without the key k, if it is there.                             *)
Others(m, q, k) == IF Places(m, q, k) = {} THEN {q} ELSE {RemoveAt(q, j) : j \in Places(m, q, k)}

(* The memory after everything but the newest n items made room for k.      *)
Room(m, k, n) == ShrinkToCapacity(IF Lookup(m, k) = Null THEN m ELSE EvictItem(m, Lookup(m, k)), n)

(* k was inserted as the item i, before the newest n items of rest.          *)
Inserted(m, k, n, rest, i) ==
  LET s == Room(m, k, n)
      t == Upto(rest, IF Len(rest) < n THEN Len(rest) ELSE n)
      w == InsertIntoLru(Added(s, k, i), i)
  IN  /\ List(rest) /\ List(t) /\ Len(t) <= n /\ i \in Items \ DOMAIN s.item /\ i \notin Range(t)
      /\ Keeps(m, s, t)
      /\ \E f, d : Whole(w, <<i>> \o t, f, d)
      /\ DOMAIN w.item = DOMAIN s.item \cup {i} /\ SameValue(m, w, DOMAIN s.item)
      /\ w.item[i].key = k /\ w.item[i].pins = 0

LEMMA InsertIs ==
  ASSUME NEW m, NEW q, NEW e, NEW c, Whole(m, q, e, c), NEW k \in Keys, NEW n \in Nat,
         DOMAIN Room(m, k, n).item # Items
  PROVE  \E rest \in Others(m, q, k) : Inserted(m, k, n, rest, Min(Items \ DOMAIN Room(m, k, n).item))
<1> DEFINE s == Room(m, k, n)
           i == Min(Items \ DOMAIN s.item)
           P == Places(m, q, k)
           u == IF Lookup(m, k) = Null THEN m ELSE EvictItem(m, Lookup(m, k))
<1>1. List(q) /\ Range(q) \subseteq DOMAIN m.item /\ Range(q) = {q[x] : x \in 1 .. Len(q)} /\ DOMAIN q = 1 .. Len(q)
  BY ListType DEF Whole, Queued
<1>2. \E rest \in Others(m, q, k) :
        (\E f, d : Whole(u, rest, f, d)) /\ Keeps(m, u, rest) /\ \A a \in Range(rest) : a \in Range(q) /\ m.item[a].key # k
  <2>1. CASE P = {}
    <3>1. u = m
      BY <2>1, LookupIs
    <3>2. \A a \in Range(q) : m.item[a].key # k
      BY <2>1, <1>1 DEF Places
    <3>3. Keeps(m, m, q)
      BY KeepsAll
    <3> HIDE DEF P, u
    <3> QED BY <2>1, <3>1, <3>2, <3>3 DEF Others, P
  <2>2. CASE P # {}
    <3>1. PICK j \in P : TRUE
      BY <2>2
    <3>2. j \in 1 .. Len(q) /\ Lookup(m, k) = q[j] /\ Lookup(m, k) # Null
      BY <2>2, <3>1, LookupIs
    <3>3. u = EvictItem(m, q[j])
      BY <3>2
    <3>4. (\E f, d : Whole(u, RemoveAt(q, j), f, d)) /\ Keeps(m, u, RemoveAt(q, j))
      BY <3>2, <3>3, EvictIs
    <3>5. Range(RemoveAt(q, j)) = Range(q) \ {q[j]}
      BY <1>1, <3>2, RemoveAtIs, Zenon
    <3>6. ASSUME NEW a \in Range(RemoveAt(q, j)) PROVE a \in Range(q) /\ m.item[a].key # k
      <4>1. a \in Range(q) /\ a # q[j]
        BY <3>5
      <4>2. m.item[q[j]].key = k /\ q[j] \in Range(q)
        BY <3>1, <3>2, <1>1 DEF Places
      <4> QED BY <4>1, <4>2 DEF Whole, Sorted
    <3> HIDE DEF P, u
    <3> QED BY <2>2, <3>1, <3>4, <3>6 DEF Others, P
  <2> QED BY <2>1, <2>2
<1> HIDE DEF P, u, s, i
<1>3. PICK rest \in Others(m, q, k) :
        (\E f, d : Whole(u, rest, f, d)) /\ Keeps(m, u, rest) /\ \A a \in Range(rest) : a \in Range(q) /\ m.item[a].key # k
  BY <1>2
<1>4. PICK f : \E d : Whole(u, rest, f, d)
  BY <1>3
<1>5. PICK d : Whole(u, rest, f, d)
  BY <1>4
<1> DEFINE l == IF Len(rest) < n THEN Len(rest) ELSE n
           t == Upto(rest, l)
           w == InsertIntoLru(Added(s, k, i), i)
<1>6. List(rest) /\ Len(rest) \in Nat
  BY <1>5, ListType DEF Whole, Queued
<1>7. l \in 0 .. Len(rest) /\ l <= n
  BY <1>6
<1>8. s = ShrinkToCapacity(u, n)
  BY DEF u, s, Room
<1>9. (\E f2, d2 : Whole(s, t, f2, d2)) /\ Keeps(u, s, t)
  BY <1>5, <1>8, ShrinkIs
<1> HIDE DEF l
<1>10. List(t) /\ Len(t) = l /\ Range(t) \subseteq Range(rest)
  BY <1>6, <1>7, ShorterIs
<1> HIDE DEF t
<1>11. PICK f2 : \E d2 : Whole(s, t, f2, d2)
  BY <1>9
<1>12. PICK d2 : Whole(s, t, f2, d2)
  BY <1>11
<1>13. Keeps(m, s, t)
  BY <1>3, <1>9, <1>10, KeepsOn
<1>14. i \in Items \ DOMAIN s.item
  <2>1. DOMAIN s.item \subseteq Items
    BY <1>12, MemIs DEF Whole
  <2>2. Items \ DOMAIN s.item # {} /\ Items \ DOMAIN s.item \in SUBSET Nat
    BY <2>1, CacheAssumption DEF s
  <2> QED BY <2>2, LeastOne DEF i
<1>15. \A a \in Range(t) : s.item[a].key # k
  <2>1. Range(t) \subseteq DOMAIN s.item
    BY <1>12 DEF Whole, Queued
  <2> QED BY <2>1, <1>3, <1>10, <1>13 DEF Keeps, SameValue
<1> HIDE DEF w
<1>16. /\ \E d3 : Whole(w, <<i>> \o t, f2, d3)
       /\ DOMAIN w.item = DOMAIN s.item \cup {i} /\ SameValue(s, w, DOMAIN s.item)
       /\ w.item[i].key = k /\ w.item[i].pins = 0
  BY <1>12, <1>14, <1>15, AddedIs DEF w
<1>17. SameValue(m, w, DOMAIN s.item)
  BY <1>13, <1>16 DEF Keeps, SameValue
<1>18. i \notin Range(t)
  BY <1>12, <1>14 DEF Whole, Queued
<1>19. \E f3, d3 : Whole(w, <<i>> \o t, f3, d3)
  BY <1>16
<1>21. Len(t) <= n
  BY <1>7, <1>10
<1> QED BY <1>3, <1>6, <1>10, <1>14, <1>16, <1>17, <1>13, <1>18, <1>19, <1>21 DEF Inserted, w, t, l, s, i

-----------------------------------------------------------------------------
(* The queue read forwards and backwards, and what is counted.              *)
LEMMA QueueIs == ASSUME NEW m, NEW q, Queued(m, q)
  PROVE  Follow(m.lruHead, [i \in DOMAIN m.item |-> m.item[i].next]) = q
<1> DEFINE link == [i \in DOMAIN m.item |-> m.item[i].next]
<1>1. List(q) /\ m.lruHead = Start(q)
  BY DEF Queued
<1>2. ASSUME NEW j \in 1 .. Len(q) PROVE link[q[j]] = Succ(q, j)
  <2>1. q[j] \in DOMAIN m.item
    BY <1>1, ListType DEF Queued
  <2> QED BY <2>1 DEF Queued
<1> HIDE DEF link
<1>3. Follow(m.lruHead, link) = q
  BY <1>1, <1>2, FollowIs
<1> QED BY <1>3 DEF link

LEMMA BackIs == ASSUME NEW m, NEW q, Queued(m, q)
  PROVE  Reverse(Follow(m.lruTail, [i \in DOMAIN m.item |-> m.item[i].prev])) = q
<1> DEFINE link == [i \in DOMAIN m.item |-> m.item[i].prev]
           r == Reverse(q)
<1>1. /\ List(q) /\ m.lruTail = Rear(q) /\ q \in Seq(Items) /\ Len(q) \in Nat /\ DOMAIN q = 1 .. Len(q)
      /\ \A j \in 1 .. Len(q) : q[j] \in Items /\ q[j] \in DOMAIN m.item
      /\ \A x, y \in 1 .. Len(q) : q[x] = q[y] => x = y
  BY ListType DEF Queued
<1>2. \A j \in 1 .. Len(q) : Len(q) - j + 1 \in 1 .. Len(q) /\ Len(q) - (Len(q) - j + 1) + 1 = j
  <2>1. \A n \in Nat : \A j \in 1 .. n : n - j + 1 \in 1 .. n /\ n - (n - j + 1) + 1 = j
    OBVIOUS
  <2> QED BY <2>1, <1>1
<1>3. /\ r \in Seq(Items) /\ Len(r) = Len(q) /\ DOMAIN r = 1 .. Len(q)
      /\ \A j \in 1 .. Len(q) : r[j] = q[Len(q) - j + 1]
  <2>1. r \in [1 .. Len(q) -> Items] /\ DOMAIN r = 1 .. Len(q)
    BY <1>1, <1>2 DEF Reverse
  <2>2. r \in Seq(Items) /\ Len(r) = Len(q)
    BY <2>1, <1>1
  <2>3. \A j \in 1 .. Len(q) : r[j] = q[Len(q) - j + 1]
    BY DEF Reverse
  <2> QED BY <2>1, <2>2, <2>3
<1>4. Reverse(r) = q
  <2>1. Reverse(r) = [j \in 1 .. Len(q) |-> r[Len(q) - j + 1]]
    BY <1>3 DEF Reverse
  <2> HIDE DEF r
  <2>2. \A j \in 1 .. Len(q) : r[Len(q) - j + 1] = q[j]
    BY <1>2, <1>3
  <2>3. q = [j \in 1 .. Len(q) |-> q[j]]
    BY <1>1
  <2> QED BY <2>1, <2>2, <2>3
<1> HIDE DEF r, link
<1>5. List(r)
  <2>1. ASSUME NEW x \in 1 .. Len(q), NEW y \in 1 .. Len(q), r[x] = r[y] PROVE x = y
    <3>1. Len(q) - x + 1 = Len(q) - y + 1
      BY <2>1, <1>1, <1>2, <1>3
    <3> QED BY <3>1, <1>1
  <2> QED BY <2>1, <1>3 DEF List
<1>6. m.lruTail = Start(r)
  <2>1. CASE Len(q) = 0
    BY <2>1, <1>1, <1>3 DEF Rear, Start
  <2>2. CASE Len(q) # 0
    <3>1. q # << >> /\ r # << >> /\ 1 \in 1 .. Len(q) /\ Len(q) - 1 + 1 = Len(q)
      BY <2>2, <1>1, <1>3
    <3>2. r[1] = q[Len(q)]
      BY <3>1, <1>3
    <3> QED BY <3>1, <3>2, <1>1 DEF Rear, Start
  <2> QED BY <2>1, <2>2
<1>7. ASSUME NEW j \in 1 .. Len(r) PROVE link[r[j]] = Succ(r, j)
  <2>1. PICK x \in 1 .. Len(q) : x = Len(q) - j + 1 /\ r[j] = q[x]
    BY <1>2, <1>3
  <2>2. link[q[x]] = Pred(q, x)
    BY <1>1 DEF link, Queued
  <2>3. (x = 1 <=> j = Len(q)) /\ (j # Len(q) => j + 1 \in 1 .. Len(q) /\ Len(q) - (j + 1) + 1 = x - 1)
    <3>1. \A n \in Nat : \A a \in 1 .. n : /\ (n - a + 1 = 1 <=> a = n)
                                          /\ (a # n => a + 1 \in 1 .. n /\ n - (a + 1) + 1 = (n - a + 1) - 1)
      OBVIOUS
    <3> QED BY <3>1, <2>1, <1>1, <1>3
  <2>4. Pred(q, x) = Succ(r, j)
    BY <2>3, <1>3 DEF Pred, Succ
  <2> QED BY <2>1, <2>2, <2>4
<1>8. Follow(m.lruTail, link) = r
  BY <1>5, <1>6, <1>7, FollowIs
<1> QED BY <1>4, <1>8 DEF link

LEMMA LengthIs == ASSUME NEW s, List(s) PROVE IsFiniteSet(Range(s)) /\ Cardinality(Range(s)) = Len(s)
<1>1. /\ Len(s) \in Nat /\ DOMAIN s = 1 .. Len(s) /\ s \in Seq(Items) /\ Range(s) = {s[j] : j \in 1 .. Len(s)}
      /\ \A x, y \in 1 .. Len(s) : s[x] = s[y] => x = y
  BY ListType
<1>2. s \in Bijection(1 .. Len(s), Range(s))
  <2>1. s \in [1 .. Len(s) -> Range(s)]
    BY <1>1
  <2>2. s \in Injection(1 .. Len(s), Range(s))
    BY <1>1, <2>1 DEF Injection, IsInjective
  <2>3. s \in Surjection(1 .. Len(s), Range(s))
    BY <1>1, <2>1 DEF Surjection
  <2> QED BY <2>2, <2>3 DEF Bijection
<1>3. 1 \in Int /\ Len(s) \in Int
  BY <1>1
<1>4. IsFiniteSet(1 .. Len(s)) /\ Cardinality(1 .. Len(s)) = IF 1 > Len(s) THEN 0 ELSE Len(s) - 1 + 1
  BY <1>3, FS_Interval
<1>5. Cardinality(1 .. Len(s)) = Len(s)
  BY <1>1, <1>4
<1>6. IsFiniteSet(Range(s)) /\ Cardinality(Range(s)) = Cardinality(1 .. Len(s))
  <2>1. s \in Surjection(1 .. Len(s), Range(s)) /\ s \in Injection(1 .. Len(s), Range(s))
    BY <1>2 DEF Bijection
  <2>2. IsFiniteSet(Range(s)) /\ Cardinality(Range(s)) <= Cardinality(1 .. Len(s))
    BY <2>1, <1>4, FS_Surjection
  <2>3. Cardinality(1 .. Len(s)) <= Cardinality(Range(s))
    BY <2>1, <2>2, FS_Injection
  <2>4. Cardinality(Range(s)) \in Nat /\ Cardinality(1 .. Len(s)) \in Nat
    BY <2>2, <1>4, FS_CardinalityType
  <2> QED BY <2>2, <2>3, <2>4
<1> QED BY <1>5, <1>6

LEMMA AllocatedIs == ASSUME NEW m, NEW q, NEW e, NEW c, Whole(m, q, e, c)
  PROVE  m.allocated = Cardinality(DOMAIN m.item)
<1>1. List(q) /\ List(e) /\ DOMAIN m.item = Range(q) \cup Range(e) /\ Range(q) \cap Range(e) = {}
  BY DEF Whole, Queued, Chained, Sorted
<1>2. /\ IsFiniteSet(Range(q)) /\ Cardinality(Range(q)) = Len(q) /\ Len(q) \in Nat
      /\ IsFiniteSet(Range(e)) /\ Cardinality(Range(e)) = Len(e) /\ Len(e) \in Nat
  BY <1>1, LengthIs, ListType
<1>3. Cardinality(Range(q) \cup Range(e)) = Cardinality(Range(q)) + Cardinality(Range(e)) - Cardinality(Range(q) \cap Range(e))
  BY <1>2, FS_Union
<1>4. Cardinality(Range(q) \cap Range(e)) = 0
  BY <1>1, FS_EmptySet
<1> QED BY <1>1, <1>2, <1>3, <1>4 DEF Whole

LEMMA NewestIs == ASSUME NEW s, List(s), NEW n \in Nat
  PROVE  Impl!Newest(s, n) = Upto(s, IF Len(s) < n THEN Len(s) ELSE n)
<1> DEFINE l == IF Len(s) < n THEN Len(s) ELSE n
<1>1. s \in Seq(Items) /\ Len(s) \in Nat /\ DOMAIN s = 1 .. Len(s) /\ l \in Nat /\ l <= Len(s)
  BY ListType
<1> HIDE DEF l
<1>2. 1 \in Int /\ l \in Int /\ \A j \in 1 .. l : s[j] \in Items
  BY <1>1
<1>3. /\ SubSeq(s, 1, l) \in Seq(Items) /\ Len(SubSeq(s, 1, l)) = IF 1 <= l THEN l - 1 + 1 ELSE 0
      /\ \A j \in 1 .. l - 1 + 1 : SubSeq(s, 1, l)[j] = s[1 + j - 1]
  BY <1>2, SubSeqProperties
<1> DEFINE t == SubSeq(s, 1, l)
<1>4. t \in Seq(Items) /\ Len(t) = l /\ DOMAIN t = 1 .. l /\ \A j \in 1 .. l : t[j] = s[j]
  <2>1. \A x \in Nat : x - 1 + 1 = x /\ (IF 1 <= x THEN x - 1 + 1 ELSE 0) = x /\ \A j \in 1 .. x : 1 + j - 1 = j
    OBVIOUS
  <2>2. l - 1 + 1 = l /\ (IF 1 <= l THEN l - 1 + 1 ELSE 0) = l /\ \A j \in 1 .. l : 1 + j - 1 = j
    BY <2>1, <1>1, Zenon
  <2> HIDE DEF t
  <2>3. t \in Seq(Items) /\ Len(t) = l /\ \A j \in 1 .. l : t[j] = s[j]
    BY <2>2, <1>3 DEF t
  <2> QED BY <2>3
<1> HIDE DEF t
<1>5. t = [j \in 1 .. l |-> s[j]]
  BY <1>4
<1> QED BY <1>5 DEF t, l, Upto, Impl!Newest

-----------------------------------------------------------------------------
(* The inductive invariant: the memory is whole, and the locks are pins.    *)
Inv ==
  /\ capacity = Capacity /\ locks \in [Items -> Nat]
  /\ \E q, e, c : Whole(Memory, q, e, c) /\ Len(q) <= capacity
  /\ \A i \in Items : locks[i] = IF i \in DOMAIN item THEN item[i].pins ELSE 0

LEMMA NowIs == ASSUME NEW q, NEW e, NEW c, Whole(Memory, q, e, c)
  PROVE  /\ Queue = q /\ List(q) /\ DOMAIN Held = DOMAIN item /\ DOMAIN item \subseteq Items
         /\ \A i \in DOMAIN item : Held[i] = [key |-> item[i].key, pins |-> item[i].pins]
         /\ \A i \in DOMAIN item : Held[i].key = item[i].key /\ Held[i].pins = item[i].pins /\ item[i].pins \in Nat
         /\ Range(q) \subseteq DOMAIN item
<1>1. Memory.item = item /\ Memory.lruHead = lruHead
  BY DEF Memory
<1>2. Memory \in Mem /\ Queued(Memory, q) /\ List(q) /\ Range(q) \subseteq DOMAIN item
  BY <1>1 DEF Whole, Queued
<1>3. Queue = q
  BY <1>1, <1>2, QueueIs DEF Queue
<1>4. DOMAIN item \subseteq Items /\ \A i \in DOMAIN item : item[i].pins \in Nat
  BY <1>1, <1>2, MemIs, CellIs
<1>5. DOMAIN Held = DOMAIN item /\ \A i \in DOMAIN item : Held[i] = [key |-> item[i].key, pins |-> item[i].pins]
  BY DEF Held
<1> QED BY <1>2, <1>3, <1>4, <1>5

(* What Lru sees of the memory.                                             *)
View(w) == [i \in DOMAIN w.item |-> [key |-> w.item[i].key, pins |-> w.item[i].pins]]

LEMMA ThenIs == ASSUME NEW w, NEW q, NEW e, NEW c, Whole(w, q, e, c), Store(w)
  PROVE  /\ Whole(Memory', q, e, c) /\ Queue' = q /\ item' = w.item
         /\ Held' = View(w)
<1>1. w \in Mem /\ Queued(w, q)
  BY DEF Whole
<1>2. /\ size' = w.size /\ allocated' = w.allocated /\ lruHead' = w.lruHead /\ lruTail' = w.lruTail
      /\ evictedHead' = w.evictedHead /\ hash' = w.hash /\ item' = w.item
  BY DEF Store
<1>3. Memory' = [size |-> w.size, allocated |-> w.allocated, lruHead |-> w.lruHead, lruTail |-> w.lruTail,
                 evictedHead |-> w.evictedHead, hash |-> w.hash, item |-> w.item]
  BY <1>2 DEF Memory
<1>4. w = [size |-> w.size, allocated |-> w.allocated, lruHead |-> w.lruHead, lruTail |-> w.lruTail,
           evictedHead |-> w.evictedHead, hash |-> w.hash, item |-> w.item]
  BY <1>1 DEF Mem
<1>5. Memory' = w
  BY <1>3, <1>4
<1>6. Queue' = Follow(w.lruHead, [i \in DOMAIN w.item |-> w.item[i].next])
  BY <1>2 DEF Queue
<1>7. Queue' = q
  BY <1>1, <1>6, QueueIs
<1>8. Held' = View(w)
  BY <1>2 DEF Held, View
<1> QED BY <1>2, <1>5, <1>7, <1>8

LEMMA InitStep == Init => Inv /\ Impl!Init
<1> SUFFICES ASSUME Init PROVE Inv /\ Impl!Init
  OBVIOUS
<1>1. Capacity \in Nat /\ Null \in Slot
  BY CacheAssumption DEF Slot
<1>2. DOMAIN item = {} /\ Range(<< >>) = {} /\ Len(<< >>) = 0 /\ << >> \in Seq(Items) /\ DOMAIN << >> = {}
  BY DEF Init, Range
<1>3. Start(<< >>) = Null /\ Rear(<< >>) = Null /\ List(<< >>)
  BY <1>2 DEF Start, Rear, List
<1>4. hash \in [Buckets -> Slot] /\ \A b \in Buckets : hash[b] = Null
  BY <1>1 DEF Init, EmptyHash, Buckets
<1>5. Memory \in Mem
  <2>1. item \in [{} -> Cell] /\ {} \in SUBSET Items
    BY <1>2
  <2>2. item \in UNION {[D -> Cell] : D \in SUBSET Items}
    BY <2>1
  <2> QED BY <2>2, <1>1, <1>4 DEF Init, Memory, Mem
<1>6. /\ Memory.item = item /\ Memory.hash = hash /\ Memory.lruHead = Null /\ Memory.lruTail = Null
      /\ Memory.evictedHead = Null /\ Memory.size = 0 /\ Memory.allocated = 0
  BY DEF Init, Memory
<1>7. Chained(Memory, Null, << >>) /\ Queued(Memory, << >>)
  BY <1>2, <1>3, <1>6 DEF Chained, Queued
<1> DEFINE c == [b \in Buckets |-> << >>]
<1>8. Filed(Memory, << >>, c)
  BY <1>2, <1>4, <1>6, <1>7 DEF Filed
<1>9. Sorted(Memory, << >>, << >>)
  BY <1>2, <1>6 DEF Sorted
<1>10. Whole(Memory, << >>, << >>, c)
  BY <1>2, <1>5, <1>6, <1>7, <1>8, <1>9 DEF Whole
<1>11. Queue = << >> /\ DOMAIN Held = {}
  BY <1>2, <1>10, NowIs
<1>12. Held = << >>
  <2>1. Held = [i \in {} |-> [key |-> item[i].key, pins |-> item[i].pins]]
    BY <1>2 DEF Held
  <2> QED BY <2>1
<1>13. Impl!Init
  BY <1>11, <1>12 DEF Impl!Init, Init
<1>14. Inv
  <2>1. capacity = Capacity /\ locks \in [Items -> Nat] /\ \A i \in Items : locks[i] = 0
    BY DEF Init
  <2>2. \E q, e, d : Whole(Memory, q, e, d) /\ Len(q) <= capacity
    <3>1. Whole(Memory, << >>, << >>, c) /\ Len(<< >>) <= capacity
      BY <1>1, <1>2, <1>10, <2>1
    <3> HIDE DEF c
    <3> QED BY <3>1
  <2> QED BY <2>1, <2>2, <1>2 DEF Inv
<1> QED BY <1>13, <1>14

LEMMA ImplIs == \A s, j : Impl!Range(s) = Range(s) /\ Impl!RemoveAt(s, j) = RemoveAt(s, j)
BY DEF Impl!Range, Range, Impl!RemoveAt, RemoveAt

LEMMA InsertStep == ASSUME Inv, NEW k \in Keys, Insert(k) PROVE Inv' /\ Impl!Insert(k)
<1>0. PICK m, n : m = Memory /\ n = capacity - 1
  OBVIOUS
<1> DEFINE s == Room(m, k, n)
           i == Min(Items \ DOMAIN s.item)
           w == InsertIntoLru(Added(s, k, i), i)
<1>1. PICK q : \E e, c : Whole(Memory, q, e, c) /\ Len(q) <= capacity
  BY DEF Inv
<1>2. PICK e : \E c : Whole(Memory, q, e, c) /\ Len(q) <= capacity
  BY <1>1
<1>3. PICK c : Whole(m, q, e, c)
  BY <1>0, <1>2
<1>4. /\ Queue = q /\ List(q) /\ DOMAIN Held = DOMAIN item /\ DOMAIN item \subseteq Items
      /\ \A a \in DOMAIN item : Held[a] = [key |-> item[a].key, pins |-> item[a].pins]
      /\ \A a \in DOMAIN item : Held[a].key = item[a].key /\ Held[a].pins = item[a].pins /\ item[a].pins \in Nat
      /\ Range(q) \subseteq DOMAIN item
  BY <1>0, <1>3, NowIs
<1>5. capacity = Capacity /\ capacity > 0 /\ n \in Nat /\ n + 1 = capacity
  BY <1>0, CacheAssumption DEF Inv, Insert
<1>6. DOMAIN s.item # Items /\ Store(w) /\ capacity' = capacity /\ locks' = locks
  BY <1>0 DEF Insert, Room
<1>7. m.item = item
  BY <1>0 DEF Memory
<1>8. Places(m, q, k) = {j \in DOMAIN Queue : Held[Queue[j]].key = k}
  <2>1. \A j \in DOMAIN q : q[j] \in DOMAIN item
    BY <1>4, ListType
  <2> QED BY <2>1, <1>4, <1>7 DEF Places
<1>9. \E rest \in Others(m, q, k) : Inserted(m, k, n, rest, i)
  <2>1. DOMAIN Room(m, k, n).item # Items /\ n \in Nat
    BY <1>5, <1>6
  <2> QED BY <2>1, <1>3, InsertIs
<1>10. PICK rest \in Others(m, q, k) : Inserted(m, k, n, rest, i)
  BY <1>9
<1> DEFINE t == Upto(rest, IF Len(rest) < n THEN Len(rest) ELSE n)
           r == <<i>> \o t
<1> HIDE DEF s, i
<1>11. /\ List(rest) /\ List(t) /\ Len(t) <= n /\ i \in Items \ DOMAIN s.item /\ i \notin Range(t)
       /\ DOMAIN s.item = {a \in DOMAIN item : a \in Range(t) \/ item[a].pins > 0}
       /\ DOMAIN w.item = DOMAIN s.item \cup {i} /\ SameValue(m, w, DOMAIN s.item)
       /\ w.item[i].key = k /\ w.item[i].pins = 0
  BY <1>7, <1>10 DEF Inserted, Keeps, s
<1>12. PICK f : \E d : Whole(w, r, f, d)
  BY <1>10 DEF Inserted, s
<1> HIDE DEF w, r
<1>13. PICK d : Whole(w, r, f, d)
  BY <1>12
<1>14. /\ Whole(Memory', r, f, d) /\ Queue' = r /\ item' = w.item
       /\ Held' = View(w)
  <2>1. Store(w) /\ Whole(w, r, f, d)
    BY <1>6, <1>13
  <2>2. Whole(Memory', r, f, d)
    BY <2>1, ThenIs
  <2>3. Queue' = r
    BY <2>1, ThenIs
  <2>4. item' = w.item
    BY <2>1, ThenIs
  <2>5. Held' = View(w)
    BY <2>1, ThenIs
  <2> QED BY <2>2, <2>3, <2>4, <2>5
<1>15. t = Impl!Newest(rest, capacity - 1)
  BY <1>0, <1>5, <1>11, NewestIs
<1> HIDE DEF t
<1>16. /\ List(r) /\ Len(r) = Len(t) + 1 /\ r # << >> /\ Tail(r) = t /\ Head(r) = i
  BY <1>11, InFrontIs DEF r
<1>17. Impl!Left(t) = DOMAIN s.item
  BY <1>4, <1>11, ImplIs DEF Impl!Left
<1>18. Held' = [a \in Impl!Left(t) \cup {i} |-> IF a = i THEN [key |-> k, pins |-> 0] ELSE Held[a]]
  <2>1. ASSUME NEW a \in DOMAIN s.item
        PROVE  [key |-> w.item[a].key, pins |-> w.item[a].pins] = Held[a] /\ a # i
    BY <1>4, <1>7, <1>11 DEF SameValue
  <2> QED BY <2>1, <1>11, <1>14, <1>17 DEF View
<1>19. Impl!Insert(k)
  <2>1. rest \in IF Impl!PlacesOf(k) = {} THEN {Queue} ELSE {Impl!RemoveAt(Queue, j) : j \in Impl!PlacesOf(k)}
    BY <1>4, <1>8, <1>10, ImplIs DEF Impl!PlacesOf, Others
  <2>2. Queue' # << >> /\ Tail(Queue') = t /\ Head(Queue') = i
    BY <1>14, <1>16
  <2>3. i \in Items \ Impl!Left(t)
    BY <1>11, <1>17
  <2> QED BY <2>1, <2>2, <2>3, <1>5, <1>6, <1>15, <1>18 DEF Impl!Insert
<1>20. Inv'
  <2>1. capacity' = Capacity /\ locks' \in [Items -> Nat]
    BY <1>5, <1>6 DEF Inv
  <2>2. Whole(Memory', r, f, d) /\ Len(r) <= capacity'
    <3>1. Len(t) \in Nat
      BY <1>11, ListType
    <3> QED BY <3>1, <1>5, <1>6, <1>11, <1>14, <1>16
  <2>3. \E q2, e2, c2 : Whole(Memory', q2, e2, c2) /\ Len(q2) <= capacity'
    BY <2>2
  <2>4. ASSUME NEW a \in Items PROVE locks'[a] = IF a \in DOMAIN item' THEN item'[a].pins ELSE 0
    <3>1. locks[a] = IF a \in DOMAIN item THEN item[a].pins ELSE 0
      BY DEF Inv
    <3>2. CASE a = i
      <4>1. locks[a] = 0
        BY <3>1, <3>2, <1>4, <1>11
      <4> QED BY <4>1, <3>2, <1>6, <1>11, <1>14
    <3>3. CASE a # i /\ a \in DOMAIN s.item
      BY <3>1, <3>3, <1>6, <1>7, <1>11, <1>14 DEF SameValue
    <3>4. CASE a # i /\ a \notin DOMAIN s.item
      BY <3>1, <3>4, <1>4, <1>6, <1>11, <1>14
    <3> QED BY <3>2, <3>3, <3>4
  <2> QED BY <2>1, <2>3, <2>4 DEF Inv
<1> QED BY <1>19, <1>20

LEMMA LookupStep == ASSUME Inv, NEW k \in Keys, LookupAndPin(k) PROVE Inv' /\ Impl!LookupAndPin(k)
<1>0. PICK m, i : m = Memory /\ i = Lookup(Memory, k)
  OBVIOUS
<1>1. PICK q : \E e, c : Whole(Memory, q, e, c) /\ Len(q) <= capacity
  BY DEF Inv
<1>2. PICK e : \E c : Whole(Memory, q, e, c) /\ Len(q) <= capacity
  BY <1>1
<1>3. PICK c : Whole(m, q, e, c)
  BY <1>0, <1>2
<1>4. /\ Queue = q /\ List(q) /\ DOMAIN Held = DOMAIN item /\ DOMAIN item \subseteq Items
      /\ \A a \in DOMAIN item : Held[a] = [key |-> item[a].key, pins |-> item[a].pins]
      /\ \A a \in DOMAIN item : Held[a].key = item[a].key /\ Held[a].pins = item[a].pins /\ item[a].pins \in Nat
      /\ Range(q) \subseteq DOMAIN item
  BY <1>0, <1>3, NowIs
<1>5. m.item = item
  BY <1>0 DEF Memory
<1>6. PICK j : j \in Places(m, q, k)
  <2>1. Lookup(m, k) # Null
    BY <1>0 DEF LookupAndPin
  <2> QED BY <2>1, <1>3, LookupIs
<1>7. j \in 1 .. Len(q) /\ i = q[j] /\ item[i].key = k /\ i \in DOMAIN item /\ i \in Items /\ i \in Range(q) /\ j \in DOMAIN q
  <2>1. j \in 1 .. Len(q) /\ i = q[j]
    BY <1>0, <1>3, <1>6, LookupIs
  <2>2. i \in Range(q) /\ j \in DOMAIN q
    BY <2>1, <1>4, ListType
  <2> QED BY <2>1, <2>2, <1>4, <1>5, <1>6 DEF Places
<1> DEFINE p == item[i].pins + 1
           u == [m EXCEPT !.item[i].pins = p]
           w == BringToFront(u, q[j])
           r == <<i>> \o RemoveAt(q, j)
<1>8. Store(w) /\ capacity' = capacity /\ locks' = [locks EXCEPT ![i] = @ + 1] /\ locks[i] < MaxPins
  <2>1. u = [m EXCEPT !.item[i].pins = @ + 1]
    BY <1>3, <1>5 DEF Whole, Mem
  <2>2. Store(BringToFront([Memory EXCEPT !.item[i].pins = @ + 1], i))
    BY <1>0 DEF LookupAndPin
  <2>3. Store(w)
    BY <2>1, <2>2, <1>0, <1>7
  <2> QED BY <2>3, <1>0 DEF LookupAndPin
<1>9. p \in Nat /\ p > 0
  BY <1>4, <1>7
<1> HIDE DEF w
<1>10. /\ Whole(u, q, e, c) /\ DOMAIN u.item = DOMAIN item
       /\ \A a \in DOMAIN item : u.item[a].key = item[a].key /\ u.item[a].pins = IF a = i THEN p ELSE item[a].pins
  <2>1. PICK n : n = p
    OBVIOUS
  <2>2. n \in Nat /\ n > 0 /\ i \in DOMAIN m.item
    BY <2>1, <1>5, <1>7, <1>9
  <2> DEFINE v == [m EXCEPT !.item[i].pins = n]
  <2>3. u = v
    BY <2>1
  <2>4. Whole(v, q, e, c) /\ DOMAIN v.item = DOMAIN m.item
        /\ \A a \in DOMAIN m.item : v.item[a].key = m.item[a].key /\ v.item[a].pins = IF a = i THEN n ELSE m.item[a].pins
    BY <1>3, <2>2, PinsIs
  <2> HIDE DEF v, u, p
  <2> QED BY <2>1, <2>3, <2>4, <1>5
<1> HIDE DEF p, u
<1>11. /\ Whole(w, r, e, c) /\ DOMAIN w.item = DOMAIN item
       /\ \A a \in DOMAIN item : w.item[a].key = item[a].key /\ w.item[a].pins = IF a = i THEN p ELSE item[a].pins
  <2>1. Whole(w, <<q[j]>> \o RemoveAt(q, j), e, c) /\ DOMAIN w.item = DOMAIN u.item /\ SameValue(u, w, DOMAIN u.item)
    BY <1>7, <1>10, FrontIs DEF w
  <2> QED BY <2>1, <1>7, <1>10 DEF SameValue
<1> HIDE DEF r
<1>12. Whole(Memory', r, e, c) /\ Queue' = r /\ item' = w.item /\ Held' = View(w)
  BY <1>8, <1>11, ThenIs
<1>13. Held' = [Held EXCEPT ![i].pins = @ + 1]
  <2>1. [Held EXCEPT ![i].pins = @ + 1] = [a \in DOMAIN item |-> IF a = i THEN [Held[a] EXCEPT !.pins = @ + 1] ELSE Held[a]]
    <3>1. Held = [a \in DOMAIN item |-> Held[a]]
      BY DEF Held
    <3> QED BY <3>1, <1>7
  <2>2. \A a \in DOMAIN item : [key |-> w.item[a].key, pins |-> w.item[a].pins]
                               = IF a = i THEN [Held[a] EXCEPT !.pins = @ + 1] ELSE Held[a]
    <3> TAKE a \in DOMAIN item
    <3>1. CASE a = i
      <4>1. [key |-> w.item[a].key, pins |-> w.item[a].pins] = [key |-> item[a].key, pins |-> item[a].pins + 1]
        BY <3>1, <1>7, <1>11 DEF p
      <4>2. [Held[a] EXCEPT !.pins = @ + 1] = [key |-> item[a].key, pins |-> item[a].pins + 1]
        BY <1>4
      <4> QED BY <4>1, <4>2, <3>1
    <3>2. CASE a # i
      BY <3>2, <1>4, <1>11
    <3> QED BY <3>1, <3>2
  <2> QED BY <2>1, <2>2, <1>11, <1>12 DEF View
<1>14. Impl!LookupAndPin(k)
  <2>1. j \in Impl!PlacesOf(k)
    BY <1>4, <1>7 DEF Impl!PlacesOf
  <2>2. Held[Queue[j]].pins < MaxPins
    BY <1>4, <1>7, <1>8 DEF Inv
  <2>3. Queue' = <<Queue[j]>> \o Impl!RemoveAt(Queue, j)
    BY <1>4, <1>7, <1>12, ImplIs DEF r
  <2>4. Held' = [Held EXCEPT ![Queue[j]].pins = @ + 1]
    BY <1>4, <1>7, <1>13
  <2> QED BY <2>1, <2>2, <2>3, <2>4, <1>8 DEF Impl!LookupAndPin
<1>15. Inv'
  <2>1. capacity' = Capacity /\ locks' \in [Items -> Nat]
    BY <1>7, <1>8 DEF Inv
  <2>2. Len(r) <= capacity'
    <3>1. Len(RemoveAt(q, j)) = Len(q) - 1 /\ List(RemoveAt(q, j)) /\ Range(RemoveAt(q, j)) = Range(q) \ {q[j]}
      BY <1>4, <1>7, RemoveAtIs, Zenon
    <3>2. i \notin Range(RemoveAt(q, j))
      BY <3>1, <1>7
    <3>3. Len(r) = Len(RemoveAt(q, j)) + 1
      BY <3>1, <3>2, <1>7, InFrontIs DEF r
    <3>4. Len(q) \in Nat
      BY <1>4, ListType
    <3> QED BY <3>1, <3>3, <3>4, <1>2, <1>8
  <2>3. \E q2, e2, c2 : Whole(Memory', q2, e2, c2) /\ Len(q2) <= capacity'
    BY <2>2, <1>12
  <2>4. ASSUME NEW a \in Items PROVE locks'[a] = IF a \in DOMAIN item' THEN item'[a].pins ELSE 0
    <3>1. locks[a] = (IF a \in DOMAIN item THEN item[a].pins ELSE 0) /\ locks \in [Items -> Nat]
      BY DEF Inv
    <3>2. locks'[a] = IF a = i THEN locks[a] + 1 ELSE locks[a]
      BY <3>1, <1>8
    <3> QED BY <3>1, <3>2, <1>7, <1>11, <1>12 DEF p
  <2> QED BY <2>1, <2>3, <2>4 DEF Inv
<1> QED BY <1>14, <1>15

LEMMA UnpinStep == ASSUME Inv, NEW i \in Items, Unpin(i) PROVE Inv' /\ i \in DOMAIN Held /\ Impl!Unpin(i)
<1>0. PICK m : m = Memory
  OBVIOUS
<1>1. PICK q : \E e, c : Whole(Memory, q, e, c) /\ Len(q) <= capacity
  BY DEF Inv
<1>2. PICK e : \E c : Whole(Memory, q, e, c) /\ Len(q) <= capacity
  BY <1>1
<1>3. PICK c : Whole(m, q, e, c)
  BY <1>0, <1>2
<1>4. /\ Queue = q /\ List(q) /\ DOMAIN Held = DOMAIN item /\ DOMAIN item \subseteq Items
      /\ \A a \in DOMAIN item : Held[a] = [key |-> item[a].key, pins |-> item[a].pins]
      /\ \A a \in DOMAIN item : Held[a].key = item[a].key /\ Held[a].pins = item[a].pins /\ item[a].pins \in Nat
      /\ Range(q) \subseteq DOMAIN item
  BY <1>0, <1>3, NowIs
<1>5. m.item = item
  BY <1>0 DEF Memory
<1> DEFINE w == Unlock(m, i)
           p == item[i].pins
<1>6. Store(w) /\ capacity' = capacity /\ locks' = [locks EXCEPT ![i] = @ - 1] /\ locks[i] > 0
  BY <1>0 DEF Unpin
<1>7. i \in DOMAIN item /\ p = locks[i] /\ p > 0 /\ p \in Nat
  BY <1>4, <1>6 DEF Inv
<1> HIDE DEF w
<1>8. /\ \E f : Whole(w, q, f, c)
      /\ IF i \in Range(q) \/ p > 1
         THEN /\ DOMAIN w.item = DOMAIN item
              /\ \A a \in DOMAIN item : /\ w.item[a].key = item[a].key
                                        /\ w.item[a].pins = IF a = i THEN p - 1 ELSE item[a].pins
         ELSE DOMAIN w.item = DOMAIN item \ {i} /\ SameValue(m, w, DOMAIN w.item)
  BY <1>3, <1>5, <1>7, UnlockIs DEF w
<1> HIDE DEF p
<1>9. PICK f : Whole(w, q, f, c)
  BY <1>8
<1>10. Whole(Memory', q, f, c) /\ Queue' = q /\ item' = w.item /\ Held' = View(w)
  BY <1>6, <1>9, ThenIs
<1>11. Held[i].pins = p
  BY <1>4, <1>7 DEF p
<1>12. ASSUME i \in Range(q) \/ p > 1
       PROVE  (\A a \in Items : locks'[a] = IF a \in DOMAIN item' THEN item'[a].pins ELSE 0) /\ Impl!Unpin(i)
  <2>1. [Held EXCEPT ![i].pins = @ - 1] = [a \in DOMAIN item |-> IF a = i THEN [Held[a] EXCEPT !.pins = @ - 1] ELSE Held[a]]
    <3>1. Held = [a \in DOMAIN item |-> Held[a]]
      BY DEF Held
    <3> QED BY <3>1, <1>7
  <2>2. \A a \in DOMAIN item : [key |-> w.item[a].key, pins |-> w.item[a].pins]
                               = IF a = i THEN [Held[a] EXCEPT !.pins = @ - 1] ELSE Held[a]
    <3> TAKE a \in DOMAIN item
    <3>1. CASE a = i
      <4>1. [key |-> w.item[a].key, pins |-> w.item[a].pins] = [key |-> item[a].key, pins |-> item[a].pins - 1]
        BY <3>1, <1>7, <1>8, <1>12 DEF p
      <4>2. [Held[a] EXCEPT !.pins = @ - 1] = [key |-> item[a].key, pins |-> item[a].pins - 1]
        BY <1>4
      <4> QED BY <4>1, <4>2, <3>1
    <3>2. CASE a # i
      BY <3>2, <1>4, <1>8, <1>12
    <3> QED BY <3>1, <3>2
  <2>3. Held' = [Held EXCEPT ![i].pins = @ - 1]
    BY <2>1, <2>2, <1>8, <1>10, <1>12 DEF View
  <2>4. Impl!Unpin(i)
    BY <2>3, <1>4, <1>6, <1>7, <1>10, <1>11, <1>12, ImplIs DEF Impl!Unpin
  <2>5. \A a \in Items : locks'[a] = IF a \in DOMAIN item' THEN item'[a].pins ELSE 0
    <3> TAKE a \in Items
    <3>1. locks[a] = (IF a \in DOMAIN item THEN item[a].pins ELSE 0) /\ locks \in [Items -> Nat]
      BY DEF Inv
    <3>2. locks'[a] = IF a = i THEN locks[a] - 1 ELSE locks[a]
      BY <3>1, <1>6
    <3> QED BY <3>1, <3>2, <1>7, <1>8, <1>10, <1>12
  <2> QED BY <2>4, <2>5
<1>13. ASSUME ~ (i \in Range(q) \/ p > 1)
       PROVE  (\A a \in Items : locks'[a] = IF a \in DOMAIN item' THEN item'[a].pins ELSE 0) /\ Impl!Unpin(i)
  <2>1. p = 1 /\ DOMAIN w.item = DOMAIN item \ {i} /\ SameValue(m, w, DOMAIN item \ {i})
    BY <1>7, <1>8, <1>13
  <2>2. Held' = [a \in DOMAIN Held \ {i} |-> Held[a]]
    BY <2>1, <1>4, <1>5, <1>10 DEF View, SameValue
  <2>3. Held' = Impl!Restrict(Held, DOMAIN Held \ {i})
    BY <2>2 DEF Impl!Restrict
  <2>4. Impl!Unpin(i)
    BY <2>1, <2>3, <1>4, <1>6, <1>10, <1>11, <1>13, ImplIs DEF Impl!Unpin
  <2>5. \A a \in Items : locks'[a] = IF a \in DOMAIN item' THEN item'[a].pins ELSE 0
    <3> TAKE a \in Items
    <3>1. locks[a] = (IF a \in DOMAIN item THEN item[a].pins ELSE 0) /\ locks \in [Items -> Nat]
      BY DEF Inv
    <3>2. locks'[a] = IF a = i THEN locks[a] - 1 ELSE locks[a]
      BY <3>1, <1>6
    <3> QED BY <3>1, <3>2, <2>1, <1>5, <1>7, <1>10 DEF SameValue
  <2> QED BY <2>4, <2>5
<1>14. capacity' = Capacity /\ locks' \in [Items -> Nat]
  <2>1. locks[i] - 1 \in Nat
    BY <1>6, <1>7
  <2> QED BY <2>1, <1>6 DEF Inv
<1>15. \E q2, e2, c2 : Whole(Memory', q2, e2, c2) /\ Len(q2) <= capacity'
  BY <1>2, <1>6, <1>10
<1>16. (\A a \in Items : locks'[a] = IF a \in DOMAIN item' THEN item'[a].pins ELSE 0) /\ Impl!Unpin(i)
  BY <1>12, <1>13
<1>17. Inv'
  BY <1>14, <1>15, <1>16 DEF Inv
<1> QED BY <1>4, <1>7, <1>16, <1>17

LEMMA ClearStep == ASSUME Inv, Clear PROVE Inv' /\ Impl!Clear
<1>0. PICK m : m = Memory
  OBVIOUS
<1>1. PICK q : \E e, c : Whole(Memory, q, e, c) /\ Len(q) <= capacity
  BY DEF Inv
<1>2. PICK e : \E c : Whole(Memory, q, e, c) /\ Len(q) <= capacity
  BY <1>1
<1>3. PICK c : Whole(m, q, e, c)
  BY <1>0, <1>2
<1>4. /\ Queue = q /\ List(q) /\ DOMAIN Held = DOMAIN item /\ DOMAIN item \subseteq Items
      /\ \A a \in DOMAIN item : Held[a] = [key |-> item[a].key, pins |-> item[a].pins]
      /\ \A a \in DOMAIN item : Held[a].key = item[a].key /\ Held[a].pins = item[a].pins /\ item[a].pins \in Nat
      /\ Range(q) \subseteq DOMAIN item
  BY <1>0, <1>3, NowIs
<1>5. m.item = item
  BY <1>0 DEF Memory
<1> DEFINE w == ShrinkToCapacity(m, 0)
<1>6. Store(w) /\ capacity' = capacity /\ locks' = locks
  BY <1>0 DEF Clear
<1>7. Upto(q, IF Len(q) < 0 THEN Len(q) ELSE 0) = << >>
  <2>1. Len(q) \in Nat
    BY <1>4, ListType
  <2> QED BY <2>1 DEF Upto
<1>8. (\E f, d : Whole(w, << >>, f, d)) /\ Keeps(m, w, << >>)
  <2>1. LET v == ShrinkToCapacity(m, 0)
            t == Upto(q, IF Len(q) < 0 THEN Len(q) ELSE 0)
        IN  (\E f, d : Whole(v, t, f, d)) /\ Keeps(m, v, t)
    BY <1>3, ShrinkIs
  <2> QED BY <2>1, <1>7
<1> HIDE DEF w
<1>9. PICK f : \E d : Whole(w, << >>, f, d)
  BY <1>8
<1>10. PICK d : Whole(w, << >>, f, d)
  BY <1>9
<1>11. PICK r : r = << >>
  OBVIOUS
<1>12. Whole(Memory', r, f, d) /\ Queue' = r /\ item' = w.item /\ Held' = View(w)
  BY <1>6, <1>10, <1>11, ThenIs
<1>13. Range(r) = {} /\ Len(r) = 0
  BY <1>11 DEF Range
<1>14. DOMAIN w.item = {a \in DOMAIN item : item[a].pins > 0} /\ SameValue(m, w, DOMAIN w.item)
  BY <1>5, <1>8, <1>11, <1>13 DEF Keeps
<1>15. Impl!Left(r) = DOMAIN w.item
  BY <1>4, <1>13, <1>14, ImplIs DEF Impl!Left
<1>16. Held' = [a \in Impl!Left(r) |-> Held[a]]
  BY <1>4, <1>5, <1>12, <1>14, <1>15 DEF View, SameValue
<1>17. Impl!Clear
  <2>1. Queue' = << >> /\ Held' = Impl!Restrict(Held, Impl!Left(Queue'))
    <3>1. Impl!Restrict(Held, Impl!Left(r)) = [a \in Impl!Left(r) |-> Held[a]]
      BY DEF Impl!Restrict
    <3> QED BY <3>1, <1>11, <1>12, <1>16
  <2> QED BY <2>1, <1>6 DEF Impl!Clear
<1>18. Inv'
  <2>1. capacity' = Capacity /\ locks' \in [Items -> Nat]
    BY <1>6 DEF Inv
  <2>2. Len(r) <= capacity'
    BY <2>1, <1>13, CacheAssumption
  <2>3. \E q2, e2, c2 : Whole(Memory', q2, e2, c2) /\ Len(q2) <= capacity'
    BY <2>2, <1>12
  <2>4. ASSUME NEW a \in Items PROVE locks'[a] = IF a \in DOMAIN item' THEN item'[a].pins ELSE 0
    <3>1. locks[a] = IF a \in DOMAIN item THEN item[a].pins ELSE 0
      BY DEF Inv
    <3>2. a \in DOMAIN item /\ a \notin DOMAIN w.item => item[a].pins = 0
      BY <1>4, <1>14
    <3> QED BY <3>1, <3>2, <1>5, <1>6, <1>12, <1>14 DEF SameValue
  <2> QED BY <2>1, <2>3, <2>4 DEF Inv
<1> QED BY <1>17, <1>18

-----------------------------------------------------------------------------
(* Every step keeps the invariant and is a step of Lru, or none.            *)
LEMMA Step == ASSUME Capacities \subseteq {Capacity}, Inv, [Next]_vars PROVE Inv' /\ [Impl!Next]_(Impl!vars)
<1>1. CASE \E k \in Keys : Insert(k)
  <2>1. PICK k \in Keys : Insert(k)
    BY <1>1
  <2>2. Inv' /\ Impl!Insert(k)
    BY <2>1, InsertStep
  <2> QED BY <2>2 DEF Impl!Next
<1>2. CASE \E k \in Keys : LookupAndPin(k)
  <2>1. PICK k \in Keys : LookupAndPin(k)
    BY <1>2
  <2>2. Inv' /\ Impl!LookupAndPin(k)
    BY <2>1, LookupStep
  <2> QED BY <2>2 DEF Impl!Next
<1>3. CASE \E i \in Items : Unpin(i)
  <2>1. PICK i \in Items : Unpin(i)
    BY <1>3
  <2>2. Inv' /\ i \in DOMAIN Held /\ Impl!Unpin(i)
    BY <2>1, UnpinStep
  <2> QED BY <2>2 DEF Impl!Next
<1>4. CASE \E c \in Capacities : SetCapacity(c)
  <2>1. PICK c \in Capacities : SetCapacity(c)
    BY <1>4
  <2>2. c # capacity
    BY <2>1 DEF SetCapacity
  <2> QED BY <2>2 DEF Inv
<1>5. CASE Clear
  BY <1>5, ClearStep DEF Impl!Next
<1>6. CASE UNCHANGED vars
  <2>1. Memory' = Memory /\ Queue' = Queue /\ Held' = Held
    BY <1>6 DEF vars, Memory, Queue, Held
  <2>2. Inv'
    BY <2>1, <1>6 DEF Inv, vars
  <2>3. UNCHANGED Impl!vars
    BY <2>1, <1>6 DEF Impl!vars, vars
  <2> QED BY <2>2, <2>3
<1> QED BY <1>1, <1>2, <1>3, <1>4, <1>5, <1>6 DEF Next

LEMMA InvAgrees == Inv => ListsAgree
<1> SUFFICES ASSUME Inv PROVE ListsAgree
  OBVIOUS
<1>1. PICK q : \E e, c : Whole(Memory, q, e, c) /\ Len(q) <= capacity
  BY DEF Inv
<1>2. PICK e : \E c : Whole(Memory, q, e, c) /\ Len(q) <= capacity
  BY <1>1
<1>3. PICK c : Whole(Memory, q, e, c) /\ Len(q) <= capacity
  BY <1>2
<1>4. Queue = q
  BY <1>3, NowIs
<1>5. /\ Memory.item = item /\ Memory.lruTail = lruTail /\ Memory.size = size
      /\ Memory.allocated = allocated /\ Memory.evictedHead = evictedHead
  BY DEF Memory
<1>6. Reverse(Back) = q
  BY <1>3, <1>5, BackIs DEF Whole, Back
<1>7. Evicted(Memory) = e
  BY <1>3, ChainIs DEF Whole, Evicted
<1>8. allocated = Cardinality(DOMAIN item)
  BY <1>3, <1>5, AllocatedIs
<1>9. size = Len(q) /\ DOMAIN item = Range(q) \cup Range(e) /\ \A i \in Range(e) : item[i].pins > 0
  BY <1>3, <1>5 DEF Whole, Sorted
<1> QED BY <1>3, <1>4, <1>6, <1>7, <1>8, <1>9 DEF ListsAgree, Inv

(* The links agree with the queue, the counters count, and what a lock      *)
(* holds is never freed: the cache in memory implements Lru, for any keys,  *)
(* memory, capacity and pins, as long as the capacity stays what it is.     *)
THEOREM CacheImplementsLru == ASSUME Capacities \subseteq {Capacity} PROVE Spec => ImplementsLru
<1>1. Init => Inv /\ Impl!Init
  BY InitStep
<1>2. Inv /\ [Next]_vars => Inv' /\ [Impl!Next]_(Impl!vars)
  BY Step
<1>3. Inv => ListsAgree
  BY InvAgrees
<1> QED BY <1>1, <1>2, <1>3, PTL DEF Spec, ImplementsLru, Impl!Spec
=============================================================================
