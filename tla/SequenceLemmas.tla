--------------------------- MODULE SequenceLemmas ---------------------------
(***************************************************************************)
(* Erasing from a sequence and taking the change back, as the deque of the *)
(* transport and the lists of the operations store do it, and the numbers  *)
(* of a set in ascending order, by which lists are thinned out.            *)
(***************************************************************************)
EXTENDS SequencesExt, Ascending, SequenceTheorems, FiniteSetTheorems, TLAPS

(* What erasing one element of a sequence leaves.                          *)
LEMMA RemoveAtProperties ==
  ASSUME NEW S, NEW s \in Seq(S), NEW i \in 1..Len(s)
  PROVE  /\ RemoveAt(s, i) \in Seq(S)
         /\ Len(RemoveAt(s, i)) = Len(s) - 1
         /\ \A k \in 1..(Len(s) - 1) :
               RemoveAt(s, i)[k] = IF k < i THEN s[k] ELSE s[k + 1]
<1> DEFINE front == SubSeq(s, 1, i - 1)
           back  == SubSeq(s, i + 1, Len(s))
<1>0. Len(s) \in Nat
  BY LenProperties
<1>1. /\ front \in Seq(S)
      /\ Len(front) = i - 1
      /\ \A k \in 1..(i - 1) : front[k] = s[k]
  <2>1. \A k \in 1..(i - 1) : s[k] \in S
    BY <1>0, ElementOfSeq
  <2> QED
    BY <1>0, <2>1, SubSeqProperties
<1>2. /\ back \in Seq(S)
      /\ Len(back) = Len(s) - i
      /\ \A k \in 1..(Len(s) - i) : back[k] = s[i + k]
  <2>1. \A k \in (i + 1)..Len(s) : s[k] \in S
    BY <1>0, ElementOfSeq
  <2> QED
    BY <1>0, <2>1, SubSeqProperties
<1>3. RemoveAt(s, i) = front \o back
  BY DEF RemoveAt
<1> HIDE DEF front, back
<1>4. /\ front \o back \in Seq(S)
      /\ Len(front \o back) = Len(front) + Len(back)
      /\ \A k \in 1..(Len(front) + Len(back)) :
            (front \o back)[k] = IF k <= Len(front) THEN front[k] ELSE back[k - Len(front)]
  BY <1>1, <1>2, ConcatProperties
<1>5. \A k \in 1..(Len(s) - 1) :
         (front \o back)[k] = IF k < i THEN s[k] ELSE s[k + 1]
  <2> TAKE k \in 1..(Len(s) - 1)
  <2>1. CASE k < i
    <3>1. k \in 1..(i - 1) /\ k <= Len(front) /\ k \in 1..(Len(front) + Len(back))
      BY <1>0, <1>1, <1>2, <2>1
    <3> QED BY <1>1, <1>4, <2>1, <3>1
  <2>2. CASE ~(k < i)
    <3>1. k - (i - 1) \in 1..(Len(s) - i) /\ ~(k <= Len(front))
          /\ k \in 1..(Len(front) + Len(back))
      BY <1>0, <1>1, <1>2, <2>2
    <3>2. i + (k - (i - 1)) = k + 1
      BY <1>0
    <3>3. (front \o back)[k] = back[k - (i - 1)]
      BY <1>1, <1>4, <3>1
    <3> QED BY <1>2, <2>2, <3>1, <3>2, <3>3
  <2> QED BY <2>1, <2>2
<1> QED
  BY <1>0, <1>1, <1>2, <1>3, <1>4, <1>5

(* Putting back what was erased, where it was, restores the sequence.      *)
LEMMA InsertAtUndoesRemoveAt ==
  ASSUME NEW S, NEW s \in Seq(S), NEW i \in 1..Len(s)
  PROVE  InsertAt(RemoveAt(s, i), i, s[i]) = s
<1> DEFINE r == RemoveAt(s, i)
           front == SubSeq(r, 1, i - 1)
           back  == SubSeq(r, i, Len(r))
<1>0. Len(s) \in Nat
  BY LenProperties
<1>1. /\ r \in Seq(S)
      /\ Len(r) = Len(s) - 1
      /\ \A k \in 1..(Len(s) - 1) : r[k] = IF k < i THEN s[k] ELSE s[k + 1]
  BY RemoveAtProperties
<1>2. InsertAt(r, i, s[i]) = (front \o <<s[i]>>) \o back
  BY DEF InsertAt
<1> HIDE DEF r
<1>3. \A k \in 1..(Len(s) - 1) : r[k] \in S
  BY <1>0, <1>1, ElementOfSeq
<1>4. /\ front \in Seq(S) /\ Len(front) = i - 1
      /\ \A k \in 1..(i - 1) : front[k] = s[k]
  <2>1. \A k \in 1..(i - 1) : r[k] \in S /\ r[k] = s[k]
    BY <1>0, <1>1, <1>3
  <2>2. /\ front \in Seq(S)
        /\ Len(front) = IF 1 <= i - 1 THEN i - 1 - 1 + 1 ELSE 0
        /\ \A k \in 1..(i - 1 - 1 + 1) : front[k] = r[1 + k - 1]
    BY <1>0, <2>1, SubSeqProperties
  <2> QED BY <1>0, <2>1, <2>2
<1>5. /\ back \in Seq(S) /\ Len(back) = Len(s) - i
      /\ \A k \in 1..(Len(s) - i) : back[k] = s[i + k]
  <2>1. \A k \in i..Len(r) : r[k] \in S /\ r[k] = s[k + 1]
    BY <1>0, <1>1, <1>3
  <2>2. /\ back \in Seq(S)
        /\ Len(back) = IF i <= Len(r) THEN Len(r) - i + 1 ELSE 0
        /\ \A k \in 1..(Len(r) - i + 1) : back[k] = r[i + k - 1]
    BY <1>0, <1>1, <2>1, SubSeqProperties
  <2>3. Len(back) = Len(s) - i
    BY <1>0, <1>1, <2>2
  <2>4. ASSUME NEW k \in 1..(Len(s) - i) PROVE back[k] = s[i + k]
    <3>1. /\ k \in 1..(Len(r) - i + 1) /\ i + k - 1 \in i..Len(r)
          /\ i + k - 1 + 1 = i + k
      BY <1>0, <1>1
    <3> QED BY <2>1, <2>2, <3>1
  <2> QED BY <2>2, <2>3, <2>4
<1> HIDE DEF front, back
<1>6. s[i] \in S /\ <<s[i]>> \in Seq(S) /\ Len(<<s[i]>>) = 1 /\ <<s[i]>>[1] = s[i]
  BY ElementOfSeq
<1> DEFINE two == front \o <<s[i]>>
<1>7. /\ two \in Seq(S) /\ Len(two) = i
      /\ \A k \in 1..i : two[k] = s[k]
  <2>1. /\ two \in Seq(S) /\ Len(two) = Len(front) + 1
        /\ \A k \in 1..(Len(front) + 1) :
              two[k] = IF k <= Len(front) THEN front[k] ELSE <<s[i]>>[k - Len(front)]
    BY <1>4, <1>6, ConcatProperties
  <2>2. ASSUME NEW k \in 1..i PROVE two[k] = s[k]
    <3>1. ASSUME k # i PROVE two[k] = s[k]
      <4>1. k \in 1..(i - 1) /\ k \in 1..(Len(front) + 1) /\ k <= Len(front)
        BY <1>0, <1>4, <3>1
      <4> QED BY <1>4, <2>1, <4>1
    <3>2. ASSUME k = i PROVE two[k] = s[k]
      <4>1. k \in 1..(Len(front) + 1) /\ ~(k <= Len(front)) /\ k - Len(front) = 1
        BY <1>0, <1>4, <3>2
      <4> QED BY <1>6, <2>1, <3>2, <4>1
    <3> QED BY <3>1, <3>2
  <2> QED BY <1>0, <1>4, <2>1, <2>2
<1> HIDE DEF two
<1> DEFINE all == two \o back
<1>8. /\ all \in Seq(S) /\ Len(all) = Len(s)
      /\ \A k \in 1..Len(s) :
            all[k] = IF k <= Len(two) THEN two[k] ELSE back[k - Len(two)]
  <2>1. Len(two) + Len(back) = Len(s)
    BY <1>0, <1>5, <1>7
  <2>2. /\ all \in Seq(S) /\ Len(all) = Len(two) + Len(back)
        /\ \A k \in 1..(Len(two) + Len(back)) :
              all[k] = IF k <= Len(two) THEN two[k] ELSE back[k - Len(two)]
    BY <1>5, <1>7, ConcatProperties
  <2> HIDE DEF all
  <2> QED BY <2>1, <2>2
<1> HIDE DEF all
<1>9. ASSUME NEW k \in 1..Len(all) PROVE all[k] = s[k]
  <2>1. ASSUME k <= i PROVE all[k] = s[k]
    BY <1>0, <1>7, <1>8, <2>1
  <2>2. ASSUME ~(k <= i) PROVE all[k] = s[k]
    <3>1. k - i \in 1..(Len(s) - i) /\ i + (k - i) = k
      BY <1>0, <1>8, <2>2
    <3>2. back[k - i] = s[k]
      BY <1>5, <3>1
    <3> QED BY <1>7, <1>8, <2>2, <3>2
  <2> QED BY <2>1, <2>2
<1>10. all = s
  BY <1>8, <1>9, SeqEqual
<1> QED
  BY <1>2, <1>10 DEF all, two, r

(* What was appended is taken back from the end.                           *)
LEMMA FrontUndoesAppend ==
  ASSUME NEW S, NEW s \in Seq(S), NEW e \in S
  PROVE  Front(Append(s, e)) = s
<1> DEFINE a == Append(s, e)
           f == SubSeq(a, 1, Len(a) - 1)
<1>1. /\ a \in Seq(S) /\ Len(a) = Len(s) + 1
      /\ \A k \in 1..Len(s) : a[k] = s[k]
  BY AppendProperties
<1>2. Front(a) = f
  BY DEF Front
<1> HIDE DEF a
<1>3. Len(s) \in Nat /\ Len(a) - 1 = Len(s)
  BY <1>1, LenProperties
<1>4. \A k \in 1..(Len(a) - 1) : a[k] \in S /\ a[k] = s[k]
  BY <1>1, <1>3, ElementOfSeq
<1>5. /\ f \in Seq(S) /\ Len(f) = Len(s)
      /\ \A k \in 1..Len(s) : f[k] = s[k]
  <2>1. /\ f \in Seq(S)
        /\ Len(f) = IF 1 <= Len(a) - 1 THEN Len(a) - 1 - 1 + 1 ELSE 0
        /\ \A k \in 1..(Len(a) - 1 - 1 + 1) : f[k] = a[1 + k - 1]
    BY <1>1, <1>3, <1>4, SubSeqProperties
  <2> QED BY <1>3, <1>4, <2>1
<1> HIDE DEF f
<1>6. f = s
  BY <1>5, SeqEqual
<1> QED
  BY <1>2, <1>6 DEF a

-----------------------------------------------------------------------------
(* A set of naturals has a least element.                                  *)
LEMMA LeastNatural ==
  ASSUME NEW T \in SUBSET Nat, T # {}
  PROVE  /\ \E x \in T : \A y \in T : x <= y
         /\ Min(T) \in T
<1> DEFINE R == OpToRel(<, Nat)
<1>1. \A x, y \in Nat : <<x, y>> \in R <=> x < y
  BY DEF OpToRel
<1>2. IsWellFoundedOn(R, Nat)
  BY NatLessThanWellFounded
<1> HIDE DEF R
<1>3. PICK x \in T : \A y \in T : ~(<<y, x>> \in R)
  BY <1>2, WFMin
<1>4. ASSUME NEW y \in T PROVE x <= y
  <2>1. ~(y < x)
    BY <1>1, <1>3
  <2> QED BY <2>1
<1>5. \E z \in T : \A y \in T : z <= y
  BY <1>4
<1> QED
  BY <1>5 DEF Min

(* In a finite set of naturals every place of the order is taken: the      *)
(* first place that were not would come after the last one before it.      *)
LEMMA NthFacts ==
  ASSUME NEW S \in SUBSET Nat, IsFiniteSet(S)
  PROVE  /\ Cardinality(S) \in Nat
         /\ \A n \in 1..Cardinality(S) :
              Nth(S, n) \in S /\ Cardinality(UpTo(S, Nth(S, n))) = n
<1> DEFINE Taken(n) == \E k \in S : Cardinality(UpTo(S, k)) = n
           Missing == {n \in 1..Cardinality(S) : ~Taken(n)}
<1>1. Cardinality(S) \in Nat
  BY FS_CardinalityType
<1>2. \A k : UpTo(S, k) \subseteq S /\ IsFiniteSet(UpTo(S, k))
  <2> TAKE k
  <2>1. UpTo(S, k) \in SUBSET S
    BY DEF UpTo
  <2> QED
    BY <2>1, FS_Subset
<1>3. ASSUME NEW L \in SUBSET S, L # S, \A k \in S \ L, j \in L : j < k
      PROVE  \E k \in S \ L : UpTo(S, k) = L \cup {k}
  <2>1. S \ L \in SUBSET Nat /\ S \ L # {}
    BY <1>3
  <2>2. PICK k \in S \ L : \A j \in S \ L : k <= j
    BY <2>1, LeastNatural
  <2>3. \A j \in S : j \in L \cup {k} <=> j <= k
    <3> TAKE j \in S
    <3>1. j \in Nat /\ k \in Nat
      BY <2>2
    <3>2. CASE j \in L
      <4>1. j < k
        BY <1>3, <2>2, <3>2
      <4> QED BY <3>1, <3>2, <4>1
    <3>3. CASE j \notin L
      <4>1. k <= j
        BY <2>2, <3>3
      <4> QED BY <3>1, <3>3, <4>1
    <3> QED BY <3>2, <3>3
  <2> QED
    BY <2>2, <2>3 DEF UpTo
<1>4. ASSUME NEW L \in SUBSET S, L # S, \A k \in S \ L, j \in L : j < k
      PROVE  Taken(Cardinality(L) + 1)
  <2>1. PICK k \in S \ L : UpTo(S, k) = L \cup {k}
    BY <1>3, <1>4
  <2>2. IsFiniteSet(L)
    BY FS_Subset
  <2>3. Cardinality(L \cup {k}) = Cardinality(L) + 1
    BY <2>1, <2>2, FS_AddElement
  <2> QED
    BY <2>1, <2>3
<1>5. ASSUME Missing # {}
      PROVE  FALSE
  <2>1. Missing \in SUBSET Nat
    OBVIOUS
  <2>2. PICK n \in Missing : \A m \in Missing : n <= m
    <3> HIDE DEF Missing
    <3> QED BY <1>5, <2>1, LeastNatural
  <2>3. n \in 1..Cardinality(S) /\ ~Taken(n)
    BY <2>2
  <2>4. CASE n = 1
    <3>1. Cardinality({}) = 0 /\ {} # S
      BY <2>3, FS_EmptySet
    <3>2. Taken(Cardinality({}) + 1)
      BY <1>4, <3>1
    <3> QED BY <2>3, <2>4, <3>1, <3>2
  <2>5. CASE n # 1
    <3>1. n - 1 \in 1..Cardinality(S) /\ ~(n <= n - 1)
      BY <1>1, <2>3, <2>5
    <3>2. Taken(n - 1)
      BY <2>2, <3>1
    <3>3. PICK k \in S : Cardinality(UpTo(S, k)) = n - 1
      BY <3>2
    <3>4. UpTo(S, k) # S
      BY <1>1, <2>3, <3>3
    <3>5. \A i \in S \ UpTo(S, k), j \in UpTo(S, k) : j < i
      <4> TAKE i \in S \ UpTo(S, k), j \in UpTo(S, k)
      <4>1. i \in Nat /\ j \in Nat /\ k \in Nat /\ j <= k /\ ~(i <= k)
        BY DEF UpTo
      <4> QED BY <4>1
    <3>6. UpTo(S, k) \in SUBSET S
      BY <1>2
    <3> HIDE DEF Taken
    <3>7. Taken(Cardinality(UpTo(S, k)) + 1)
      BY <1>4, <3>4, <3>5, <3>6
    <3> QED BY <1>1, <2>3, <3>3, <3>7
  <2> QED BY <2>4, <2>5
<1>6. \A n \in 1..Cardinality(S) : Taken(n)
  BY <1>5
<1>7. \A n \in 1..Cardinality(S) : Nth(S, n) \in S /\ Cardinality(UpTo(S, Nth(S, n))) = n
  BY <1>6 DEF Nth
<1> QED
  BY <1>1, <1>7

(* A list of which some places are kept has nothing new and repeats no     *)
(* place.                                                                  *)
LEMMA PlacesKept ==
  ASSUME NEW E, NEW s \in Seq(E), NEW K \in SUBSET DOMAIN s
  PROVE  /\ Remaining(s, K) \in Seq(E)
         /\ \A n \in DOMAIN Remaining(s, K) :
              Nth(K, n) \in DOMAIN s /\ Remaining(s, K)[n] = s[Nth(K, n)]
         /\ \A m, n \in DOMAIN Remaining(s, K) : Nth(K, m) = Nth(K, n) => m = n
<1> DEFINE t == Remaining(s, K)
<1>1. Len(s) \in Nat /\ DOMAIN s = 1..Len(s) /\ \A i \in 1..Len(s) : s[i] \in E
  BY LenProperties, ElementOfSeq
<1>2. K \in SUBSET Nat /\ K \in SUBSET (1..Len(s))
  BY <1>1
<1>3. IsFiniteSet(K)
  <2>1. IsFiniteSet(1..Len(s))
    BY <1>1, FS_Interval
  <2> QED BY <1>2, <2>1, FS_Subset
<1>4. /\ Cardinality(K) \in Nat
      /\ \A n \in 1..Cardinality(K) : Nth(K, n) \in K /\ Cardinality(UpTo(K, Nth(K, n))) = n
  BY <1>2, <1>3, NthFacts
<1>5. DOMAIN t = 1..Cardinality(K) /\ \A n \in 1..Cardinality(K) : t[n] = s[Nth(K, n)]
  BY DEF Remaining
<1>6. t \in [1..Cardinality(K) -> E]
  BY <1>1, <1>2, <1>4 DEF Remaining
<1> HIDE DEF t
<1>7. /\ t \in Seq(E)
      /\ \A n \in DOMAIN t : Nth(K, n) \in DOMAIN s /\ t[n] = s[Nth(K, n)]
      /\ \A m, n \in DOMAIN t : Nth(K, m) = Nth(K, n) => m = n
  BY <1>4, <1>5, <1>6, SeqDef
<1> QED
  BY <1>7 DEF t

(* Only the places that are kept are taken, and every one of them is.      *)
LEMMA EveryPlaceKept ==
  ASSUME NEW E, NEW s \in Seq(E), NEW K \in SUBSET DOMAIN s
  PROVE  /\ \A n \in DOMAIN Remaining(s, K) : Nth(K, n) \in K
         /\ \A k \in K : \E n \in DOMAIN Remaining(s, K) : Nth(K, n) = k
<1>1. Len(s) \in Nat /\ DOMAIN s = 1..Len(s)
  BY LenProperties
<1>2. K \in SUBSET Nat /\ K \in SUBSET (1..Len(s))
  BY <1>1
<1>3. IsFiniteSet(K)
  <2>1. IsFiniteSet(1..Len(s))
    BY <1>1, FS_Interval
  <2> QED BY <1>2, <2>1, FS_Subset
<1>4. /\ Cardinality(K) \in Nat
      /\ \A n \in 1..Cardinality(K) : Nth(K, n) \in K /\ Cardinality(UpTo(K, Nth(K, n))) = n
  BY <1>2, <1>3, NthFacts
<1>5. DOMAIN Remaining(s, K) = 1..Cardinality(K)
  BY DEF Remaining
<1>6. \A k : UpTo(K, k) \in SUBSET K /\ IsFiniteSet(UpTo(K, k))
  <2> TAKE k
  <2>1. UpTo(K, k) \in SUBSET K
    BY DEF UpTo
  <2> QED BY <1>3, <2>1, FS_Subset
<1>7. ASSUME NEW j \in K, NEW k \in K, j < k
      PROVE  Cardinality(UpTo(K, j)) # Cardinality(UpTo(K, k))
  <2>1. j \in Nat /\ k \in Nat
    BY <1>2
  <2>2. UpTo(K, j) \in SUBSET UpTo(K, k) /\ UpTo(K, j) # UpTo(K, k)
    BY <1>2, <1>7, <2>1 DEF UpTo
  <2> QED
    BY <1>6, <2>2, FS_Subset
<1>8. ASSUME NEW k \in K PROVE \E n \in 1..Cardinality(K) : Nth(K, n) = k
  <2> DEFINE n == Cardinality(UpTo(K, k))
  <2>1. k \in UpTo(K, k)
    BY <1>2 DEF UpTo
  <2>2. n \in Nat /\ n # 0 /\ n <= Cardinality(K)
    <3>1. n \in Nat
      BY <1>6, FS_CardinalityType
    <3>2. n # 0
      BY <1>6, <2>1, FS_EmptySet
    <3>3. n <= Cardinality(K)
      BY <1>3, <1>6, FS_Subset
    <3> QED BY <3>1, <3>2, <3>3
  <2>3. n \in 1..Cardinality(K)
    BY <1>4, <2>2
  <2>4. Nth(K, n) \in K /\ Cardinality(UpTo(K, Nth(K, n))) = Cardinality(UpTo(K, k))
    BY <1>4, <2>3
  <2>5. ~(Nth(K, n) < k) /\ ~(k < Nth(K, n))
    BY <1>7, <2>4
  <2>6. Nth(K, n) = k
    BY <1>2, <2>4, <2>5
  <2> QED
    BY <2>3, <2>6
<1> QED
  BY <1>4, <1>5, <1>8

=============================================================================
