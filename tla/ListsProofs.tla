----------------------------- MODULE ListsProofs -----------------------------
(***************************************************************************)
(* What the operators of Lists compute, for lists of any length.  The      *)
(* library's induction theorems take an operator, which the provers cannot *)
(* instantiate; here induction is stated about a set of naturals, from the *)
(* library's fact that the strict subsets of a finite set are well-founded.*)
(***************************************************************************)
EXTENDS Lists, FiniteSetTheorems, SequenceTheorems, TLAPS

----------------------------------------------------------------------------
(* Induction and recursion                                                 *)

(* Every set of naturals that is not empty has a least element.            *)
LEMMA Least ==
  ASSUME NEW T \in SUBSET Nat, T # {}
  PROVE  \E x \in T : \A y \in T : x <= y
<1>1. PICK m \in T : TRUE OBVIOUS
<1> DEFINE U == {0..n : n \in T \cap 0..m}
           R == StrictSubsetOrdering(0..m)
<1>2. IsWellFoundedOn(R, SUBSET (0..m))
  <2>1. IsFiniteSet(0..m) BY FS_Interval
  <2>2. FiniteSubsetsOf(0..m) = SUBSET (0..m)
    <3> HIDE DEF R
    <3> QED BY <2>1, FS_Subset DEF FiniteSubsetsOf
  <2>3. IsWellFoundedOn(R, FiniteSubsetsOf(0..m))
    BY FS_StrictSubsetOrderingWellFounded
  <2> QED BY <2>2, <2>3
<1>3. U \subseteq SUBSET (0..m) /\ U # {}
  <2>1. m \in T \cap 0..m OBVIOUS
  <2>2. (0..m) \in U BY <2>1
  <2> QED BY <2>2
<1>4. \E x \in U : \A y \in U : <<y, x>> \notin R
  <2> HIDE DEF U, R
  <2> QED BY <1>2, <1>3, WFMin
<1>5. PICK n \in T \cap 0..m : \A y \in U : <<y, 0..n>> \notin R
  BY <1>4
<1>6. ASSUME NEW k \in T, k < n
      PROVE  FALSE
  <2>1. (0..k) \in U BY <1>6
  <2>2. (0..k) \subseteq 0..n /\ n \notin 0..k /\ n \in 0..n BY <1>6
  <2>3. 0..k # 0..n BY <2>2
  <2>4. <<0..k, 0..n>> \in R
    BY <2>2, <2>3, <1>3, <2>1 DEF StrictSubsetOrdering
  <2> QED BY <1>5, <2>1, <2>4
<1> QED BY <1>5, <1>6

(* Induction, about the set of the naturals that have a property.          *)
LEMMA Induction ==
  ASSUME NEW T, 0 \in T, \A n \in Nat : n \in T => n + 1 \in T
  PROVE  Nat \subseteq T
<1> SUFFICES ASSUME Nat \ T # {} PROVE FALSE
  OBVIOUS
<1>1. PICK x \in Nat \ T : \A y \in Nat \ T : x <= y
  BY Least
<1>2. x # 0 /\ x - 1 \in Nat /\ ~(x <= x - 1)
  BY <1>1
<1> QED BY <1>1, <1>2

(* The same up to a bound.                                                 *)
LEMMA BoundedInduction ==
  ASSUME NEW N \in Nat, NEW T, 0 \in T, \A n \in 1..N : n - 1 \in T => n \in T
  PROVE  0..N \subseteq T
<1> DEFINE U == {n \in Nat : n <= N => n \in T}
<1>1. 0 \in U OBVIOUS
<1>2. ASSUME NEW n \in Nat, n \in U PROVE n + 1 \in U
  <2>1. CASE n + 1 <= N
    <3>1. n + 1 \in 1..N /\ n <= N /\ (n + 1) - 1 = n BY <2>1
    <3> QED BY <3>1, <1>2
  <2> QED BY <2>1
<1>3. Nat \subseteq U
  <2> HIDE DEF U
  <2> QED BY <1>1, <1>2, Induction
<1> QED BY <1>3

(* The function behind FoldLeft: it takes the largest element away.        *)
IsFold(it, N, base, step) ==
  \A d \in SUBSET (1..N) :
    /\ d # {} => Max(d) \in d
    /\ it[d] = IF d = {} THEN base ELSE step[<<Max(d), it[d \ {Max(d)}]>>]

LEMMA FoldExists ==
  ASSUME NEW N \in Nat, NEW V, NEW base \in V, NEW step \in [(1..N) \X V -> V]
  PROVE  \E it \in [SUBSET (1..N) -> V] : IsFold(it, N, base, step)
<1> DEFINE Folds(it, n) == it \in [SUBSET (1..n) -> V] /\ IsFold(it, n, base, step)
           T == {n \in 0..N : \E it : Folds(it, n)}
<1>1. 0 \in T
  <2>1. SUBSET (1..0) = {{}} OBVIOUS
  <2>2. Folds([d \in SUBSET (1..0) |-> base], 0) BY <2>1 DEF IsFold
  <2> HIDE DEF Folds
  <2> QED BY <2>2
<1>2. ASSUME NEW n \in 1..N, n - 1 \in T PROVE n \in T
  <2>1. PICK it : Folds(it, n - 1) BY <1>2
  <2> DEFINE new == [d \in SUBSET (1..n) |->
                      IF n \in d THEN step[<<n, it[d \ {n}]>>] ELSE it[d]]
  <2>2. ASSUME NEW d \in SUBSET (1..n)
        PROVE  /\ d \ {n} \in SUBSET (1..(n - 1))
               /\ n \in d => Max(d) = n
               /\ n \notin d => d \in SUBSET (1..(n - 1))
    <3>1. d \ {n} \in SUBSET (1..(n - 1)) OBVIOUS
    <3>2. ASSUME n \in d PROVE Max(d) = n
      <4>1. \A x \in d : (\A y \in d : x >= y) <=> x = n BY <3>2
      <4> QED BY <4>1, <3>2 DEF Max
    <3> QED BY <3>1, <3>2
  <2>3. new \in [SUBSET (1..n) -> V]
    <3>1. ASSUME NEW d \in SUBSET (1..n) PROVE new[d] \in V
      BY <2>1, <2>2, n \in 1..N
    <3> QED BY <3>1
  <2>4. ASSUME NEW d \in SUBSET (1..n)
        PROVE  /\ d # {} => Max(d) \in d
               /\ new[d] = IF d = {} THEN base ELSE step[<<Max(d), new[d \ {Max(d)}]>>]
    <3>1. CASE n \in d
      <4>1. Max(d) = n /\ d # {} BY <3>1, <2>2
      <4>2. new[d] = step[<<n, it[d \ {n}]>>] BY <3>1
      <4>3. new[d \ {n}] = it[d \ {n}] OBVIOUS
      <4> QED BY <3>1, <4>1, <4>2, <4>3
    <3>2. CASE n \notin d /\ d # {}
      <4>1. d \in SUBSET (1..(n - 1)) BY <3>2, <2>2
      <4>2. new[d] = step[<<Max(d), it[d \ {Max(d)}]>>] BY <4>1, <2>1, <3>2 DEF IsFold
      <4>3. n \notin d \ {Max(d)} BY <3>2
      <4>4. new[d \ {Max(d)}] = it[d \ {Max(d)}] BY <4>3
      <4>5. Max(d) \in d BY <4>1, <2>1, <3>2 DEF IsFold
      <4> QED BY <4>2, <4>4, <4>5, <3>2
    <3>3. CASE d = {}
      BY <3>3, <2>1 DEF IsFold
    <3> QED BY <3>1, <3>2, <3>3
  <2>5. Folds(new, n)
    <3> HIDE DEF new
    <3> QED BY <2>3, <2>4 DEF IsFold
  <2> HIDE DEF Folds, new
  <2> QED BY <2>5
<1>3. N \in T
  <2> HIDE DEF T
  <2> QED BY <1>1, <1>2, BoundedInduction
<1>4. PICK it : Folds(it, N) BY <1>3
<1> QED BY <1>4

LEMMA MaxOfInterval ==
  ASSUME NEW n \in Nat \ {0}
  PROVE  Max(1..n) = n /\ (1..n) \ {n} = 1..(n - 1) /\ 1..n # {}
<1>1. \A x \in 1..n : (\A y \in 1..n : x >= y) <=> x = n OBVIOUS
<1> QED BY <1>1 DEF Max

LEMMA PutType ==
  ASSUME NEW S, NEW best \in Seq(S), NEW f \in S, NEW key, NEW beats
  PROVE  Put(best, f, key, beats) \in Seq(S)
<1> DEFINE hits == {i \in DOMAIN best : key[best[i]] = key[f]}
           i == CHOOSE i \in hits : TRUE
<1>1. CASE hits = {}
  BY <1>1 DEF Put
<1>2. CASE hits # {}
  <2>1. i \in hits BY <1>2
  <2>2. [best EXCEPT ![i] = f] \in Seq(S) BY <2>1, ExceptSeq
  <2> QED BY <1>2, <2>2 DEF Put
<1> QED BY <1>1, <1>2

(* The dict after each element of the list.                                *)
ArePuts(v, s, key, beats) ==
  /\ v[0] = <<>>
  /\ \A n \in 1..Len(s) : v[n] = Put(v[n - 1], s[n], key, beats)

LEMMA BestOfStates ==
  ASSUME NEW S, NEW s \in Seq(S), NEW key, NEW beats
  PROVE  \E v \in [0..Len(s) -> Seq(S)] :
           ArePuts(v, s, key, beats) /\ BestOf(s, key, beats) = v[Len(s)]
<1> DEFINE N == Len(s)
           step == [p \in (1..N) \X Seq(S) |-> Put(p[2], s[p[1]], key, beats)]
           Body(it, d) == IF d = {} THEN <<>>
                          ELSE Put(it[d \ {Max(d)}], s[Max(d)], key, beats)
           it == CHOOSE it : it = [d \in SUBSET (1..N) |-> Body(it, d)]
<1>1. N \in Nat /\ DOMAIN s = 1..N /\ <<>> \in Seq(S) BY LenProperties, EmptySeq
<1>2. step \in [(1..N) \X Seq(S) -> Seq(S)]
  <2>1. ASSUME NEW p \in (1..N) \X Seq(S) PROVE Put(p[2], s[p[1]], key, beats) \in Seq(S)
    BY <1>1, PutType, ElementOfSeq
  <2> QED BY <2>1
<1>3. BestOf(s, key, beats) = it[1..N]
  BY <1>1, Zenon DEF BestOf, FoldLeft, MapThenFoldSet
<1>4. PICK f \in [SUBSET (1..N) -> Seq(S)] :
IsFold(f, N, <<>>, step)
  <2> HIDE DEF N, step
  <2> QED BY <1>1, <1>2, FoldExists
<1>5. f = [d \in SUBSET (1..N) |-> Body(f, d)]
  <2>1. ASSUME NEW d \in SUBSET (1..N) PROVE f[d] = Body(f, d)
    <3>1. CASE d # {}
      <4>1. Max(d) \in 1..N /\ d \ {Max(d)} \in SUBSET (1..N) BY <3>1, <1>4 DEF IsFold
      <4>2. f[d \ {Max(d)}] \in Seq(S) BY <4>1
      <4>3. f[d] = step[<<Max(d), f[d \ {Max(d)}]>>] BY <1>4, <3>1 DEF IsFold
      <4>4. step[<<Max(d), f[d \ {Max(d)}]>>] = Put(f[d \ {Max(d)}], s[Max(d)], key, beats)
        BY <4>1, <4>2
      <4> QED BY <3>1, <4>3, <4>4
    <3>2. CASE d = {} BY <1>4, <3>2 DEF IsFold
    <3> QED BY <3>1, <3>2
  <2> QED BY <2>1
<1>6. it = [d \in SUBSET (1..N) |-> Body(it, d)]
  BY <1>5, Zenon
<1> DEFINE v == [n \in 0..N |-> it[1..n]]
<1>7. v[0] = <<>>
  <2>1. 1..0 = {} /\ v[0] = it[1..0] /\ {} \in SUBSET (1..N)
    BY <1>1
  <2>2. it[{}] = Body(it, {}) BY <1>6, <2>1
  <2> QED BY <2>1, <2>2
<1>8. ASSUME NEW n \in 1..N PROVE v[n] = Put(v[n - 1], s[n], key, beats)
  <2>1. (1..n) \in SUBSET (1..N) /\ n \in Nat \ {0} /\ n - 1 \in 0..N
    BY <1>1
  <2>2. it[1..n] = Body(it, 1..n) BY <1>6, <2>1
  <2>3. it[1..n] = Put(it[1..(n - 1)], s[n], key, beats)
    BY <2>1, <2>2, MaxOfInterval
  <2> QED BY <2>1, <2>3
<1>9. \A n \in 0..N : v[n] \in Seq(S)
  <2> HIDE DEF v, it, N
  <2> DEFINE T == {n \in 0..N : v[n] \in Seq(S)}
  <2>1. 0 \in T
    <3>1. v[0] \in Seq(S) BY <1>7, EmptySeq, Zenon
    <3>2. 0 \in 0..N BY <1>1
    <3> QED BY <3>1, <3>2
  <2>2. ASSUME NEW n \in 1..N, n - 1 \in T PROVE n \in T
    <3>1. s[n] \in S BY <1>1, ElementOfSeq
    <3>2. v[n - 1] \in Seq(S) BY <2>2
    <3>3. Put(v[n - 1], s[n], key, beats) \in Seq(S) BY <3>1, <3>2, PutType
    <3>4. v[n] \in Seq(S) BY <1>8, <3>3
    <3> QED BY <3>4
  <2>3. 0..N \subseteq T
    <3> HIDE DEF T
    <3> QED BY <1>1, <2>1, <2>2, BoundedInduction
  <2> QED BY <2>3
<1>10. BestOf(s, key, beats) = v[N] BY <1>1, <1>3
<1>11. v \in [0..N -> Seq(S)] BY <1>9
<1> QED
  <2> HIDE DEF v
  <2> QED BY <1>7, <1>8, <1>10, <1>11 DEF ArePuts

----------------------------------------------------------------------------
(* One element per key                                                     *)

\* b holds, of the first n elements of s, one per key: at pos[k], the earliest
\* of the highest rank, in the order of the first occurrences fst[k].
IsBest(b, s, n, key, rank, pos, fst) ==
  /\ pos \in [1..Len(b) -> 1..n] /\ fst \in [1..Len(b) -> 1..n]
  /\ \A k \in 1..Len(b) :
       /\ b[k] = s[pos[k]]
       /\ key[s[fst[k]]] = key[b[k]]
       /\ \A j \in 1..n : key[s[j]] = key[b[k]] =>
            /\ fst[k] <= j
            /\ rank[s[j]] <= rank[b[k]]
            /\ rank[s[j]] = rank[b[k]] => pos[k] <= j
  /\ \A k, l \in 1..Len(b) : k < l => fst[k] < fst[l]
  /\ \A j \in 1..n : \E k \in 1..Len(b) : key[b[k]] = key[s[j]]

BeatsByRank(beats, s, rank) ==
  \A x, y \in ToSet(s) : <<x, y>> \in beats <=> rank[x] > rank[y]

OnePerKey(b, key) == \A k, l \in 1..Len(b) : key[b[k]] = key[b[l]] => k = l

LEMMA BestUnique ==
  ASSUME NEW S, NEW b \in Seq(S), NEW s \in Seq(S), NEW n \in 0..Len(s),
         NEW key, NEW rank, NEW pos, NEW fst,
         IsBest(b, s, n, key, rank, pos, fst)
  PROVE  OnePerKey(b, key)
<1> SUFFICES ASSUME NEW k \in 1..Len(b), NEW l \in 1..Len(b), key[b[k]] = key[b[l]]
             PROVE  k = l
  BY DEF OnePerKey
<1>1. Len(b) \in Nat /\ fst[k] \in 1..n /\ fst[l] \in 1..n
  BY LenProperties DEF IsBest
<1>2. fst[k] <= fst[l] /\ fst[l] <= fst[k]
  BY <1>1 DEF IsBest
<1>3. ~ (k < l) /\ ~ (l < k)
  BY <1>1, <1>2 DEF IsBest
<1> QED BY <1>1, <1>3

LEMMA PutBest ==
  ASSUME NEW S, NEW b \in Seq(S), NEW s \in Seq(S), NEW n \in 1..Len(s),
         NEW key, NEW rank \in [S -> Nat], NEW beats, NEW pos, NEW fst,
         BeatsByRank(beats, s, rank),
         IsBest(b, s, n - 1, key, rank, pos, fst)
  PROVE  \E p, f : IsBest(Put(b, s[n], key, beats), s, n, key, rank, p, f)
<1> DEFINE hits == {i \in DOMAIN b : key[b[i]] = key[s[n]]}
           i == CHOOSE i \in hits : TRUE
<1>1. /\ Len(b) \in Nat /\ DOMAIN b = 1..Len(b)
      /\ Len(s) \in Nat /\ DOMAIN s = 1..Len(s) /\ n \in Nat \ {0} /\ n - 1 \in 0..Len(s)
  BY LenProperties
<1>2. s[n] \in S /\ s[n] \in ToSet(s)
  BY <1>1, ElementOfSeq DEF ToSet
<1>3. ASSUME NEW k \in 1..Len(b)
      PROVE  /\ pos[k] \in 1..(n - 1) /\ fst[k] \in 1..(n - 1)
             /\ b[k] \in ToSet(s) /\ b[k] \in S
  <2>1. pos[k] \in 1..(n - 1) /\ fst[k] \in 1..(n - 1) /\ b[k] = s[pos[k]]
    BY DEF IsBest
  <2>2. pos[k] \in 1..Len(s) BY <2>1, <1>1
  <2> QED BY <2>1, <2>2, <1>1, ElementOfSeq DEF ToSet
<1>4. ASSUME NEW j \in 1..(n - 1) PROVE s[j] \in S
  BY <1>1, ElementOfSeq
<1>5. CASE hits = {}
  <2> DEFINE c == Append(b, s[n])
             p == [k \in 1..(Len(b) + 1) |-> IF k <= Len(b) THEN pos[k] ELSE n]
             f == [k \in 1..(Len(b) + 1) |-> IF k <= Len(b) THEN fst[k] ELSE n]
  <2>1. Put(b, s[n], key, beats) = c BY <1>5 DEF Put
  <2>2. /\ Len(c) = Len(b) + 1 /\ c[Len(b) + 1] = s[n]
        /\ \A k \in 1..Len(b) : c[k] = b[k]
    BY <1>1, <1>2, AppendProperties
  <2>3. /\ \A k \in 1..Len(b) : p[k] = pos[k] /\ f[k] = fst[k]
        /\ p[Len(b) + 1] = n /\ f[Len(b) + 1] = n
        /\ DOMAIN p = 1..(Len(b) + 1) /\ DOMAIN f = 1..(Len(b) + 1)
        /\ p = [k \in 1..(Len(b) + 1) |-> p[k]] /\ f = [k \in 1..(Len(b) + 1) |-> f[k]]
    BY <1>1
  <2> HIDE DEF c, p, f
  <2>9. \A k \in 1..Len(c) : k \in 1..Len(b) \/ k = Len(b) + 1 BY <1>1, <2>2
  <2>10. \A k \in 1..Len(c) : p[k] \in 1..n /\ f[k] \in 1..n
    <3>1. 1..(n - 1) \subseteq 1..n /\ n \in 1..n BY <1>1
    <3> QED BY <1>3, <2>3, <2>9, <3>1
  <2>11. p \in [1..Len(c) -> 1..n] /\ f \in [1..Len(c) -> 1..n]
    BY <2>2, <2>3, <2>10
  <2>4. \A k \in 1..Len(b) : key[b[k]] # key[s[n]] BY <1>1, <1>5
  <2>5. ASSUME NEW k \in 1..Len(c)
        PROVE  /\ c[k] = s[p[k]]
               /\ key[s[f[k]]] = key[c[k]]
               /\ \A j \in 1..n : key[s[j]] = key[c[k]] =>
                    /\ f[k] <= j
                    /\ rank[s[j]] <= rank[c[k]]
                    /\ rank[s[j]] = rank[c[k]] => p[k] <= j
    <3>1. CASE k \in 1..Len(b)
      <4>1. c[k] = b[k] /\ p[k] = pos[k] /\ f[k] = fst[k] BY <2>2, <2>3, <3>1
      <4>2. \A j \in 1..n : j \in 1..(n - 1) \/ j = n BY <1>1
      <4> QED BY <2>4, <3>1, <4>1, <4>2 DEF IsBest
    <3>2. CASE k = Len(b) + 1
      <4>1. c[k] = s[n] /\ p[k] = n /\ f[k] = n BY <2>2, <2>3, <3>2
      <4>2. \A j \in 1..(n - 1) : key[s[j]] # key[s[n]]
        BY <2>4 DEF IsBest
      <4>3. \A j \in 1..n : j \in 1..(n - 1) \/ j = n BY <1>1
      <4>4. rank[s[n]] \in Nat BY <1>2
      <4> QED BY <1>1, <4>1, <4>2, <4>3, <4>4
    <3> QED BY <2>9, <3>1, <3>2
  <2>6. ASSUME NEW k \in 1..Len(c), NEW l \in 1..Len(c), k < l
        PROVE  f[k] < f[l]
    <3>1. k \in 1..Len(b) BY <1>1, <2>2, <2>6
    <3>4. f[k] = fst[k] /\ fst[k] \in 1..(n - 1) BY <1>3, <2>3, <3>1
    <3>2. CASE l \in 1..Len(b)
      <4>1. f[l] = fst[l] BY <2>3, <3>2
      <4> QED BY <2>6, <3>1, <3>2, <3>4, <4>1 DEF IsBest
    <3>3. CASE l = Len(b) + 1
      <4>1. f[l] = n BY <2>3, <3>3
      <4> QED BY <1>1, <3>4, <4>1
    <3> QED BY <2>9, <3>2, <3>3
  <2>7. ASSUME NEW j \in 1..n PROVE \E k \in 1..Len(c) : key[c[k]] = key[s[j]]
    <3>1. CASE j = n
      <4>1. Len(b) + 1 \in 1..Len(c) BY <1>1, <2>2
      <4> QED BY <2>2, <3>1, <4>1
    <3>2. CASE j \in 1..(n - 1)
      <4>1. PICK k \in 1..Len(b) : key[b[k]] = key[s[j]] BY <3>2 DEF IsBest
      <4>2. k \in 1..Len(c) BY <1>1, <2>2
      <4> QED BY <2>2, <4>1, <4>2
    <3>3. j \in 1..(n - 1) \/ j = n BY <1>1
    <3> QED BY <3>1, <3>2, <3>3
  <2>8. IsBest(c, s, n, key, rank, p, f)
    BY <2>11, <2>5, <2>6, <2>7 DEF IsBest
  <2> QED BY <2>1, <2>8
<1>6. CASE hits # {}
  <2>1. i \in 1..Len(b) /\ key[b[i]] = key[s[n]] BY <1>1, <1>6
  <2> HIDE DEF hits, i
  <2>2. \A k \in 1..Len(b) : key[b[k]] = key[s[n]] => k = i
    <3>1. n - 1 \in 0..Len(s) BY <1>1
    <3>2. OnePerKey(b, key) BY <3>1, BestUnique
    <3> QED BY <2>1, <3>2 DEF OnePerKey
  <2>3. \A j \in 1..n : j \in 1..(n - 1) \/ j = n BY <1>1
  <2>4. CASE <<s[n], b[i]>> \in beats
    <3> DEFINE c == [b EXCEPT ![i] = s[n]]
               p == [k \in 1..Len(b) |-> IF k = i THEN n ELSE pos[k]]
    <3>1. Put(b, s[n], key, beats) = c
      BY <1>6, <2>4 DEF Put, hits, i
    <3>2. /\ Len(c) = Len(b) /\ c[i] = s[n]
          /\ \A k \in 1..Len(b) : k # i => c[k] = b[k]
      BY <1>2, <2>1, ExceptSeq
    <3>3. rank[s[n]] > rank[b[i]] BY <1>2, <1>3, <2>1, <2>4 DEF BeatsByRank
    <3>4. p \in [1..Len(c) -> 1..n] /\ fst \in [1..Len(c) -> 1..n]
      <4>1. 1..(n - 1) \subseteq 1..n BY <1>1
      <4>2. fst \in [1..Len(b) -> 1..n] BY <4>1 DEF IsBest
      <4>3. \A k \in 1..Len(b) : pos[k] \in 1..n BY <4>1, <1>3
      <4>4. n \in 1..n BY <1>1
      <4> QED BY <3>2, <4>2, <4>3, <4>4
    <3>5. ASSUME NEW k \in 1..Len(c)
          PROVE  /\ c[k] = s[p[k]]
                 /\ key[s[fst[k]]] = key[c[k]]
                 /\ \A j \in 1..n : key[s[j]] = key[c[k]] =>
                      /\ fst[k] <= j
                      /\ rank[s[j]] <= rank[c[k]]
                      /\ rank[s[j]] = rank[c[k]] => p[k] <= j
      <4>1. CASE k = i
        <5>1. c[k] = s[n] /\ p[k] = n /\ key[c[k]] = key[b[i]]
          BY <2>1, <3>2, <4>1
        <5>2. rank[s[n]] \in Nat /\ rank[b[i]] \in Nat BY <1>2, <1>3, <2>1
        <5>3. ASSUME NEW j \in 1..(n - 1), key[s[j]] = key[b[i]]
              PROVE  fst[i] <= j /\ rank[s[j]] < rank[s[n]]
          <6>1. rank[s[j]] \in Nat BY <1>4
          <6>2. fst[i] <= j /\ rank[s[j]] <= rank[b[i]] BY <2>1, <5>3 DEF IsBest
          <6> QED BY <3>3, <5>2, <6>1, <6>2
        <5>4. key[s[fst[i]]] = key[b[i]] BY <2>1 DEF IsBest
        <5>5. fst[i] <= n
          <6>1. fst[i] \in 1..(n - 1) BY <1>3, <2>1
          <6> QED BY <1>1, <6>1
        <5>6. \A j \in 1..(n - 1) : rank[s[j]] \in Nat BY <1>4
        <5>7. ASSUME NEW j \in 1..n, key[s[j]] = key[c[k]]
              PROVE  /\ fst[k] <= j
                     /\ rank[s[j]] <= rank[c[k]]
                     /\ rank[s[j]] = rank[c[k]] => p[k] <= j
          <6>1. CASE j = n
            <7>1. n <= n BY <1>1
            <7> QED BY <4>1, <5>1, <5>2, <5>5, <6>1, <7>1
          <6>2. CASE j \in 1..(n - 1)
            <7>1. fst[i] <= j /\ rank[s[j]] < rank[s[n]] BY <5>1, <5>3, <5>7, <6>2
            <7>2. rank[s[j]] \in Nat BY <5>6, <6>2
            <7>3. fst[k] = fst[i] /\ rank[c[k]] = rank[s[n]] BY <4>1, <5>1
            <7> HIDE DEF c, p
            <7> QED BY <5>2, <7>1, <7>2, <7>3, SMTT(30)
          <6> QED BY <2>3, <6>1, <6>2
        <5> QED BY <4>1, <5>1, <5>4, <5>7
      <4>2. CASE k # i
        <5>1. k \in 1..Len(b) /\ c[k] = b[k] /\ p[k] = pos[k] /\ key[b[k]] # key[s[n]]
          BY <2>2, <3>2, <4>2
        <5> QED BY <2>3, <5>1 DEF IsBest
      <4> QED BY <4>1, <4>2
    <3>6. \A k, l \in 1..Len(c) : k < l => fst[k] < fst[l]
      BY <3>2 DEF IsBest
    <3>7. \A k \in 1..Len(b) : key[c[k]] = key[b[k]] BY <2>1, <3>2
    <3>8. ASSUME NEW j \in 1..n PROVE \E k \in 1..Len(c) : key[c[k]] = key[s[j]]
      <4>1. PICK k \in 1..Len(b) : key[b[k]] = key[s[j]] BY <2>1, <2>3 DEF IsBest
      <4> QED BY <3>2, <3>7, <4>1
    <3>9. IsBest(c, s, n, key, rank, p, fst)
      <4> HIDE DEF c, p
      <4> QED BY <3>4, <3>5, <3>6, <3>8 DEF IsBest
    <3> QED BY <3>1, <3>9
  <2>5. CASE <<s[n], b[i]>> \notin beats
    <3>1. Put(b, s[n], key, beats) = b
      BY <1>6, <2>5 DEF Put, hits, i
    <3>2. rank[s[n]] <= rank[b[i]] /\ pos[i] <= n /\ fst[i] <= n
      <4>1. rank[s[n]] \in Nat /\ rank[b[i]] \in Nat BY <1>2, <1>3, <2>1
      <4>2. ~ (rank[s[n]] > rank[b[i]]) BY <1>2, <1>3, <2>1, <2>5 DEF BeatsByRank
      <4>3. pos[i] \in 1..(n - 1) /\ fst[i] \in 1..(n - 1) BY <1>3, <2>1
      <4> QED BY <1>1, <4>1, <4>2, <4>3
    <3>3. pos \in [1..Len(b) -> 1..n] /\ fst \in [1..Len(b) -> 1..n]
      <4>1. 1..(n - 1) \subseteq 1..n BY <1>1
      <4> QED BY <4>1 DEF IsBest
    <3>4. ASSUME NEW k \in 1..Len(b), NEW j \in 1..n, key[s[j]] = key[b[k]]
          PROVE  /\ fst[k] <= j
                 /\ rank[s[j]] <= rank[b[k]]
                 /\ rank[s[j]] = rank[b[k]] => pos[k] <= j
      <4>1. CASE j = n BY <2>2, <3>2, <3>4, <4>1
      <4>2. CASE j \in 1..(n - 1) BY <3>4, <4>2 DEF IsBest
      <4> QED BY <2>3, <4>1, <4>2
    <3>5. \A j \in 1..n : \E k \in 1..Len(b) : key[b[k]] = key[s[j]]
      BY <2>1, <2>3 DEF IsBest
    <3>6. IsBest(b, s, n, key, rank, pos, fst)
      BY <3>3, <3>4, <3>5 DEF IsBest
    <3> QED BY <3>1, <3>6
  <2> QED BY <2>4, <2>5
<1> QED BY <1>5, <1>6

(* The dict ends with the earliest of the best elements of each key, in    *)
(* the order in which the keys were first met, for lists of any length     *)
(* (compatibility.py:65-70, deprecated_api.py:130-136).                    *)
THEOREM BestOfFacts ==
  ASSUME NEW S, NEW s \in Seq(S), NEW key, NEW beats, NEW rank \in [S -> Nat],
         BeatsByRank(beats, s, rank)
  PROVE  /\ BestOf(s, key, beats) \in Seq(S)
         /\ OnePerKey(BestOf(s, key, beats), key)
         /\ \E pos, fst : IsBest(BestOf(s, key, beats), s, Len(s), key, rank, pos, fst)
<1>1. PICK v \in [0..Len(s) -> Seq(S)] :
        ArePuts(v, s, key, beats) /\ BestOf(s, key, beats) = v[Len(s)]
  BY BestOfStates
<1> DEFINE N == Len(s)
           T == {n \in 0..N : \E pos, fst : IsBest(v[n], s, n, key, rank, pos, fst)}
<1>2. N \in Nat BY LenProperties
<1>3. 0 \in T
  <2>1. Len(v[0]) = 0 BY <1>1, EmptySeq DEF ArePuts
  <2>2. 1..Len(v[0]) = {} /\ 1..0 = {} BY <2>1
  <2>3. <<>> \in [1..Len(v[0]) -> 1..0]
    <3>1. <<>> \in Seq(S) BY EmptySeq
    <3>2. DOMAIN <<>> = {} /\ <<>> = [k \in {} |-> 0] BY <3>1
    <3> QED BY <2>2, <3>2
  <2>4. IsBest(v[0], s, 0, key, rank, <<>>, <<>>) BY <2>2, <2>3 DEF IsBest
  <2> QED BY <1>2, <2>4
<1>4. ASSUME NEW n \in 1..N, n - 1 \in T PROVE n \in T
  <2>1. PICK pos, fst : IsBest(v[n - 1], s, n - 1, key, rank, pos, fst) BY <1>4
  <2>2. v[n - 1] \in Seq(S)
    <3>1. n - 1 \in 0..N BY <1>2
    <3> QED BY <3>1
  <2>3. v[n] = Put(v[n - 1], s[n], key, beats) BY <1>1 DEF ArePuts
  <2>4. \E p, f : IsBest(Put(v[n - 1], s[n], key, beats), s, n, key, rank, p, f)
    BY <2>1, <2>2, PutBest
  <2> QED BY <1>2, <2>3, <2>4
<1>5. 0..N \subseteq T
  <2> HIDE DEF T, N
  <2> QED BY <1>2, <1>3, <1>4, BoundedInduction
<1>6. N \in T BY <1>2, <1>5
<1>7. PICK pos, fst : IsBest(v[N], s, N, key, rank, pos, fst) BY <1>6
<1>8. N \in 0..Len(s) /\ v[N] \in Seq(S) BY <1>2
<1>9. OnePerKey(v[N], key) BY <1>7, <1>8, BestUnique
<1> QED BY <1>1, <1>7, <1>8, <1>9

----------------------------------------------------------------------------
(* Lists of lists                                                          *)

AreJoins(v, seqs) ==
  /\ v[0] = <<>>
  /\ \A n \in 1..Len(seqs) : v[n] = v[n - 1] \o seqs[n]

(* What FlattenSeq has joined after each list.                             *)
LEMMA FlattenStates ==
  ASSUME NEW S, NEW seqs \in Seq(Seq(S))
  PROVE  \E v \in [0..Len(seqs) -> Seq(S)] :
           AreJoins(v, seqs) /\ FlattenSeq(seqs) = v[Len(seqs)]
<1> DEFINE N == Len(seqs)
<1>1. /\ N \in Nat /\ DOMAIN seqs = 1..N
      /\ <<>> \in Seq(S) /\ \A i \in 1..N : seqs[i] \in Seq(S)
  BY LenProperties, EmptySeq, ElementOfSeq
<1>2. CASE N = 0
  <2>1. seqs = <<>> BY <1>2, EmptySeq
  <2>2. FlattenSeq(seqs) = <<>> BY <1>2, <2>1 DEF FlattenSeq
  <2> DEFINE v == [n \in 0..N |-> <<>>]
  <2>3. v \in [0..N -> Seq(S)] /\ v[0] = <<>> /\ v[N] = <<>> /\ 1..N = {}
    BY <1>1, <1>2
  <2>4. AreJoins(v, seqs) BY <2>3 DEF AreJoins
  <2> QED BY <2>2, <2>3, <2>4
<1>3. CASE N # 0
  <2> DEFINE Body(f, i) == IF i = 1 THEN seqs[i] ELSE f[i - 1] \o seqs[i]
             Joined(f, n) == /\ f \in [1..n -> Seq(S)]
                             /\ \A i \in 1..n : f[i] = Body(f, i)
             T == {n \in 0..N : \E f : Joined(f, n)}
             flatten == CHOOSE f : f = [i \in 1..N |-> Body(f, i)]
  <2>1. 0 \in T
    <3>1. Joined([i \in 1..0 |-> <<>>], 0) OBVIOUS
    <3> HIDE DEF Joined
    <3> QED BY <1>1, <3>1
  <2>2. ASSUME NEW n \in 1..N, n - 1 \in T PROVE n \in T
    <3>1. PICK f : Joined(f, n - 1) BY <2>2
    <3> DEFINE g == [i \in 1..n |-> IF i = n THEN Body(f, n) ELSE f[i]]
    <3>2. n # 1 => n - 1 \in 1..(n - 1) BY <1>1
    <3>3. Body(f, n) \in Seq(S) BY <1>1, <3>1, <3>2, ConcatProperties
    <3>4. ASSUME NEW i \in 1..n PROVE g[i] \in Seq(S) /\ g[i] = Body(g, i)
      <4>1. CASE i = n BY <1>1, <3>2, <3>3, <4>1
      <4>2. CASE i # n
        <5>1. i \in 1..(n - 1) /\ (i # 1 => i - 1 \in 1..(n - 1)) /\ i - 1 # n
          BY <1>1, <4>2
        <5>2. f[i] \in Seq(S) /\ f[i] = Body(f, i) BY <3>1, <5>1
        <5>3. g[i] = f[i] BY <4>2
        <5>4. i # 1 => g[i - 1] = f[i - 1] BY <5>1
        <5> HIDE DEF g
        <5> QED BY <5>2, <5>3, <5>4
      <4> QED BY <4>1, <4>2
    <3>5. Joined(g, n)
      <4>1. g \in [1..n -> Seq(S)] BY <3>4
      <4> HIDE DEF g
      <4> QED BY <3>4, <4>1
    <3> HIDE DEF Joined, g
    <3> QED BY <1>1, <3>5
  <2>3. \E f : Joined(f, N)
    <3>1. 0..N \subseteq T
      <4> HIDE DEF T, N
      <4> QED BY <1>1, <2>1, <2>2, BoundedInduction
    <3>2. N \in T
      <4> HIDE DEF T, N
      <4> QED BY <1>1, <3>1
    <3> HIDE DEF Joined
    <3> QED BY <3>2
  <2>4. flatten = [i \in 1..N |-> Body(flatten, i)]
    <3>1. PICK f : Joined(f, N) BY <2>3
    <3>2. f = [i \in 1..N |-> Body(f, i)] BY <3>1
    <3> QED BY <3>2, Zenon
  <2>5. FlattenSeq(seqs) = flatten[N]
    BY <1>3, Zenon DEF FlattenSeq
  <2> HIDE DEF flatten
  <2> DEFINE v == [n \in 0..N |-> IF n = 0 THEN <<>> ELSE flatten[n]]
  <2>6. ASSUME NEW n \in 1..N PROVE v[n] = v[n - 1] \o seqs[n]
    <3>1. v[n] = Body(flatten, n)
      <4>1. v[n] = flatten[n] BY <1>1
      <4>2. flatten[n] = Body(flatten, n) BY <2>4
      <4> QED BY <4>1, <4>2
    <3>2. CASE n = 1
      <4>1. v[n - 1] = <<>> /\ seqs[n] \in Seq(S) BY <1>1, <3>2
      <4>2. <<>> \o seqs[n] = seqs[n] BY <4>1, ConcatEmptySeq
      <4> QED BY <3>1, <3>2, <4>1, <4>2
    <3>3. CASE n # 1
      <4>1. v[n - 1] = flatten[n - 1] BY <1>1, <3>3
      <4> QED BY <3>1, <3>3, <4>1
    <3> QED BY <3>2, <3>3
  <2>7. v[0] = <<>> /\ v[N] = flatten[N] BY <1>1, <1>3
  <2> HIDE DEF v
  <2>8. \A n \in 0..N : v[n] \in Seq(S)
    <3> DEFINE U == {n \in 0..N : v[n] \in Seq(S)}
    <3>1. 0 \in U
      <4>1. v[0] \in Seq(S) BY <2>7, EmptySeq, Zenon
      <4> QED BY <1>1, <4>1
    <3>2. ASSUME NEW n \in 1..N, n - 1 \in U PROVE n \in U
      <4>1. v[n - 1] \in Seq(S) /\ seqs[n] \in Seq(S) BY <1>1, <3>2
      <4>2. v[n - 1] \o seqs[n] \in Seq(S) BY <4>1, ConcatProperties
      <4>3. v[n] \in Seq(S) BY <2>6, <4>2
      <4> QED BY <1>1, <4>3
    <3>3. 0..N \subseteq U
      <4> HIDE DEF U, N
      <4> QED BY <1>1, <3>1, <3>2, BoundedInduction
    <3> QED BY <3>3
  <2>9. v \in [0..N -> Seq(S)] BY <2>8 DEF v
  <2>10. AreJoins(v, seqs) BY <2>6, <2>7 DEF AreJoins
  <2> QED BY <2>5, <2>7, <2>9, <2>10
<1> QED BY <1>2, <1>3

\* F holds the elements of the first n lists: F[k] is the element col[k] of
\* the list row[k], lists and elements in order.
IsFlat(F, seqs, n, row, col) ==
  /\ row \in [1..Len(F) -> 1..n] /\ col \in [1..Len(F) -> Nat]
  /\ \A k \in 1..Len(F) :
       col[k] \in 1..Len(seqs[row[k]]) /\ F[k] = seqs[row[k]][col[k]]
  /\ \A k, l \in 1..Len(F) : k < l =>
       row[k] < row[l] \/ (row[k] = row[l] /\ col[k] < col[l])
  /\ \A i \in 1..n : \A j \in 1..Len(seqs[i]) :
       \E k \in 1..Len(F) : row[k] = i /\ col[k] = j

LEMMA JoinFlat ==
  ASSUME NEW S, NEW seqs \in Seq(Seq(S)), NEW n \in 1..Len(seqs), NEW F \in Seq(S),
         NEW row, NEW col, IsFlat(F, seqs, n - 1, row, col)
  PROVE  \E r, c : IsFlat(F \o seqs[n], seqs, n, r, c)
<1> DEFINE s == seqs[n]
           G == F \o s
           a == Len(F)
           r == [k \in 1..(a + Len(s)) |-> IF k <= a THEN row[k] ELSE n]
           c == [k \in 1..(a + Len(s)) |-> IF k <= a THEN col[k] ELSE k - a]
<1>1. /\ Len(seqs) \in Nat /\ n \in Nat \ {0} /\ n - 1 \in Nat
      /\ s \in Seq(S) /\ Len(s) \in Nat /\ a \in Nat
  BY LenProperties, ElementOfSeq
<1>2. /\ Len(G) = a + Len(s)
      /\ \A k \in 1..a : G[k] = F[k]
      /\ \A k \in 1..Len(s) : G[a + k] = s[k]
  BY <1>1, ConcatProperties
<1>3. /\ \A k \in 1..a : r[k] = row[k] /\ c[k] = col[k]
      /\ \A k \in 1..Len(s) : r[a + k] = n /\ c[a + k] = k
  BY <1>1
<1>4. \A k \in 1..(a + Len(s)) : k \in 1..a \/ \E j \in 1..Len(s) : k = a + j
  <2> SUFFICES ASSUME NEW k \in 1..(a + Len(s)), k \notin 1..a
               PROVE  k - a \in 1..Len(s) /\ k = a + (k - a)
    OBVIOUS
  <2> QED BY <1>1
<1>5. \A k \in 1..a : row[k] \in 1..(n - 1) /\ col[k] \in Nat
  BY DEF IsFlat
<1>6. r = [k \in 1..Len(G) |-> r[k]] /\ c = [k \in 1..Len(G) |-> c[k]]
  BY <1>2
<1> HIDE DEF s, G, a, r, c
<1>7. ASSUME NEW k \in 1..Len(G) PROVE r[k] \in 1..n /\ c[k] \in Nat
  <2>1. CASE k \in 1..a
    <3>1. 1..(n - 1) \subseteq 1..n BY <1>1
    <3> QED BY <1>3, <1>5, <2>1, <3>1
  <2>2. CASE \E j \in 1..Len(s) : k = a + j
    <3>1. n \in 1..n /\ 1..Len(s) \subseteq Nat BY <1>1
    <3> QED BY <1>3, <2>2, <3>1
  <2> QED BY <1>2, <1>4, <2>1, <2>2
<1>8. ASSUME NEW k \in 1..Len(G)
      PROVE  c[k] \in 1..Len(seqs[r[k]]) /\ G[k] = seqs[r[k]][c[k]]
  <2>1. CASE k \in 1..a
    BY <1>2, <1>3, <2>1 DEF IsFlat, a
  <2>2. CASE \E j \in 1..Len(s) : k = a + j
    BY <1>2, <1>3, <2>2 DEF s
  <2> QED BY <1>2, <1>4, <2>1, <2>2
<1>9. ASSUME NEW k \in 1..Len(G), NEW l \in 1..Len(G), k < l
      PROVE  r[k] < r[l] \/ (r[k] = r[l] /\ c[k] < c[l])
  <2>1. CASE l \in 1..a
    <3>1. k \in 1..a BY <1>1, <1>9, <2>1
    <3> QED BY <1>3, <1>9, <2>1, <3>1 DEF IsFlat, a
  <2>2. ASSUME NEW j \in 1..Len(s), l = a + j
        PROVE  r[k] < r[l] \/ (r[k] = r[l] /\ c[k] < c[l])
    <3>1. r[l] = n /\ c[l] = j BY <1>3, <2>2
    <3>2. CASE k \in 1..a
      <4>1. r[k] \in 1..(n - 1) BY <1>3, <1>5, <3>2
      <4> QED BY <1>1, <3>1, <4>1
    <3>3. ASSUME NEW i \in 1..Len(s), k = a + i
          PROVE  r[k] = n /\ c[k] < j
      <4>1. c[k] = i /\ r[k] = n BY <1>3, <3>3
      <4> QED BY <1>1, <1>9, <2>2, <3>3, <4>1
    <3> QED BY <1>2, <1>4, <3>1, <3>2, <3>3
  <2> QED BY <1>2, <1>4, <2>1, <2>2
<1>10. ASSUME NEW i \in 1..n, NEW j \in 1..Len(seqs[i])
       PROVE  \E k \in 1..Len(G) : r[k] = i /\ c[k] = j
  <2>1. CASE i = n
    <3>1. j \in 1..Len(s) BY <2>1 DEF s
    <3>2. a + j \in 1..Len(G) BY <1>1, <1>2, <3>1
    <3> QED BY <1>3, <2>1, <3>1, <3>2
  <2>2. CASE i # n
    <3>1. i \in 1..(n - 1) BY <1>1, <2>2
    <3>2. PICK k \in 1..a : row[k] = i /\ col[k] = j BY <3>1 DEF IsFlat, a
    <3>3. k \in 1..Len(G) BY <1>1, <1>2
    <3> QED BY <1>3, <3>2, <3>3
  <2> QED BY <2>1, <2>2
<1>11. r \in [1..Len(G) -> 1..n] /\ c \in [1..Len(G) -> Nat]
  BY <1>6, <1>7
<1>12. IsFlat(G, seqs, n, r, c)
  BY <1>8, <1>9, <1>10, <1>11 DEF IsFlat
<1> QED BY <1>12 DEF G, s

(* FlattenSeq has every element of every list, and in their order.         *)
LEMMA FlattenFacts ==
  ASSUME NEW S, NEW seqs \in Seq(Seq(S))
  PROVE  /\ FlattenSeq(seqs) \in Seq(S)
         /\ \E row, col : IsFlat(FlattenSeq(seqs), seqs, Len(seqs), row, col)
<1>1. PICK v \in [0..Len(seqs) -> Seq(S)] :
        AreJoins(v, seqs) /\ FlattenSeq(seqs) = v[Len(seqs)]
  BY FlattenStates
<1> DEFINE N == Len(seqs)
           T == {n \in 0..N : \E row, col : IsFlat(v[n], seqs, n, row, col)}
<1>2. N \in Nat BY LenProperties
<1>3. 0 \in T
  <2>1. Len(v[0]) = 0 BY <1>1, EmptySeq DEF AreJoins
  <2>2. 1..Len(v[0]) = {} /\ 1..0 = {} BY <2>1
  <2>3. <<>> = [k \in {} |-> 0]
    <3>1. <<>> \in Seq(S) BY EmptySeq
    <3> QED BY <3>1
  <2>4. <<>> \in [1..Len(v[0]) -> 1..0] /\ <<>> \in [1..Len(v[0]) -> Nat]
    BY <2>2, <2>3
  <2>5. IsFlat(v[0], seqs, 0, <<>>, <<>>) BY <2>2, <2>4 DEF IsFlat
  <2> QED BY <1>2, <2>5
<1>4. ASSUME NEW n \in 1..N, n - 1 \in T PROVE n \in T
  <2>1. PICK row, col : IsFlat(v[n - 1], seqs, n - 1, row, col) BY <1>4
  <2>2. v[n - 1] \in Seq(S)
    <3>1. n - 1 \in 0..N BY <1>2
    <3> QED BY <3>1
  <2>3. v[n] = v[n - 1] \o seqs[n] BY <1>1 DEF AreJoins
  <2>4. \E r, c : IsFlat(v[n - 1] \o seqs[n], seqs, n, r, c)
    BY <2>1, <2>2, JoinFlat
  <2>5. \E r, c : IsFlat(v[n], seqs, n, r, c) BY <2>3, <2>4
  <2> QED BY <1>2, <2>5
<1>5. 0..N \subseteq T
  <2> HIDE DEF T, N
  <2> QED BY <1>2, <1>3, <1>4, BoundedInduction
<1>6. N \in T BY <1>2, <1>5
<1> QED BY <1>1, <1>2, <1>6

(* The elements of a list, as a set.                                       *)
LEMMA ToSetFacts ==
  ASSUME NEW S, NEW s \in Seq(S)
  PROVE  /\ ToSet(s) \subseteq S
         /\ s \in Seq(ToSet(s))
         /\ \A i \in 1..Len(s) : s[i] \in ToSet(s)
         /\ \A x \in ToSet(s) : \E i \in 1..Len(s) : s[i] = x
<1>1. DOMAIN s = 1..Len(s) /\ Len(s) \in Nat BY LenProperties
<1>2. ToSet(s) = {s[i] : i \in 1..Len(s)} BY <1>1 DEF ToSet
<1>3. \A i \in 1..Len(s) : s[i] \in S BY ElementOfSeq
<1>4. s \in Seq(ToSet(s))
  <2>1. \A i \in 1..Len(s) : s[i] \in ToSet(s) BY <1>2
  <2>2. s = [i \in 1..Len(s) |-> s[i]] BY SeqDef
  <2> QED BY <1>1, <2>1, <2>2, SeqDef
<1> QED BY <1>2, <1>3, <1>4

LEMMA FlattenedSet ==
  ASSUME NEW S, NEW seqs \in Seq(Seq(S))
  PROVE  /\ \A x \in ToSet(FlattenSeq(seqs)) :
              \E i \in 1..Len(seqs) : \E j \in 1..Len(seqs[i]) : x = seqs[i][j]
         /\ \A i \in 1..Len(seqs) : \A j \in 1..Len(seqs[i]) :
              seqs[i][j] \in ToSet(FlattenSeq(seqs))
<1> DEFINE F == FlattenSeq(seqs)
<1>1. F \in Seq(S) BY FlattenFacts
<1>2. PICK row, col : IsFlat(F, seqs, Len(seqs), row, col) BY FlattenFacts
<1> HIDE DEF F
<1>3. ASSUME NEW x \in ToSet(F)
      PROVE  \E i \in 1..Len(seqs) : \E j \in 1..Len(seqs[i]) : x = seqs[i][j]
  <2>1. PICK k \in 1..Len(F) : F[k] = x BY <1>1, ToSetFacts
  <2>2. row[k] \in 1..Len(seqs) /\ col[k] \in 1..Len(seqs[row[k]])
    BY <1>2, <2>1 DEF IsFlat
  <2>3. x = seqs[row[k]][col[k]] BY <1>2, <2>1 DEF IsFlat
  <2> QED BY <2>2, <2>3
<1>4. ASSUME NEW i \in 1..Len(seqs), NEW j \in 1..Len(seqs[i])
      PROVE  seqs[i][j] \in ToSet(F)
  <2>1. PICK k \in 1..Len(F) : row[k] = i /\ col[k] = j BY <1>2 DEF IsFlat
  <2>2. F[k] = seqs[i][j] BY <1>2, <2>1 DEF IsFlat
  <2> QED BY <1>1, <2>1, <2>2, ToSetFacts
<1> QED BY <1>3, <1>4 DEF F

----------------------------------------------------------------------------
(* What passes a test                                                      *)

\* K holds the elements of s that are in T: K[k] is the one at at[k].
IsKept(K, s, T, at) ==
  /\ at \in [1..Len(K) -> 1..Len(s)]
  /\ \A k \in 1..Len(K) : K[k] = s[at[k]] /\ K[k] \in T
  /\ \A k, l \in 1..Len(K) : k < l => at[k] < at[l]
  /\ \A i \in 1..Len(s) : s[i] \in T => \E k \in 1..Len(K) : at[k] = i

LEMMA KeepInFacts ==
  ASSUME NEW S, NEW s \in Seq(S), NEW T
  PROVE  KeepIn(s, T) \in Seq(S) /\ \E at : IsKept(KeepIn(s, T), s, T, at)
<1> DEFINE seqs == [i \in DOMAIN s |-> IF s[i] \in T THEN <<s[i]>> ELSE <<>>]
           F == FlattenSeq(seqs)
<1>1. DOMAIN s = 1..Len(s) /\ Len(s) \in Nat BY LenProperties
<1>2. ASSUME NEW i \in 1..Len(s)
      PROVE  /\ seqs[i] \in Seq(S)
             /\ s[i] \in T => Len(seqs[i]) = 1 /\ seqs[i][1] = s[i]
             /\ s[i] \notin T => Len(seqs[i]) = 0
  <2>1. seqs[i] = IF s[i] \in T THEN <<s[i]>> ELSE <<>> BY <1>1
  <2>2. s[i] \in S BY ElementOfSeq
  <2>3. CASE s[i] \in T BY <2>1, <2>2, <2>3
  <2>4. CASE s[i] \notin T BY <2>1, <2>4, EmptySeq
  <2> QED BY <2>3, <2>4
<1>3. seqs \in Seq(Seq(S)) /\ Len(seqs) = Len(s)
  <2>1. seqs = [i \in 1..Len(s) |-> seqs[i]] BY <1>1
  <2> HIDE DEF seqs
  <2>2. seqs \in [1..Len(s) -> Seq(S)] BY <1>2, <2>1
  <2> QED BY <1>1, <2>2, SeqDef, LenProperties
<1> HIDE DEF seqs
<1>4. F \in Seq(S) BY <1>3, FlattenFacts
<1>5. PICK row, col : IsFlat(F, seqs, Len(s), row, col) BY <1>3, FlattenFacts
<1> HIDE DEF F
<1>6. ASSUME NEW k \in 1..Len(F)
      PROVE  /\ row[k] \in 1..Len(s) /\ col[k] = 1
             /\ F[k] = s[row[k]] /\ F[k] \in T
  <2>1. /\ row[k] \in 1..Len(s) /\ col[k] \in 1..Len(seqs[row[k]])
        /\ F[k] = seqs[row[k]][col[k]]
    BY <1>5 DEF IsFlat
  <2>2. s[row[k]] \in T BY <1>2, <2>1
  <2>3. col[k] \in 1..1 BY <1>2, <2>1, <2>2
  <2>4. col[k] = 1 BY <2>3
  <2> QED BY <1>2, <2>1, <2>2, <2>4
<1>7. ASSUME NEW k \in 1..Len(F), NEW l \in 1..Len(F), k < l
      PROVE  row[k] < row[l]
  <2>1. col[k] = 1 /\ col[l] = 1 BY <1>6
  <2> QED BY <1>5, <1>7, <2>1 DEF IsFlat
<1>8. ASSUME NEW i \in 1..Len(s), s[i] \in T
      PROVE  \E k \in 1..Len(F) : row[k] = i
  <2>1. 1 \in 1..Len(seqs[i]) BY <1>2, <1>8
  <2> QED BY <1>5, <2>1 DEF IsFlat
<1>9. IsKept(F, s, T, row)
  <2>1. row \in [1..Len(F) -> 1..Len(s)] BY <1>5 DEF IsFlat
  <2> QED BY <1>6, <1>7, <1>8, <2>1 DEF IsKept
<1> QED BY <1>4, <1>9 DEF KeepIn, F, seqs

LEMMA KeepInSet ==
  ASSUME NEW S, NEW s \in Seq(S), NEW T
  PROVE  ToSet(KeepIn(s, T)) = ToSet(s) \cap T
<1> DEFINE K == KeepIn(s, T)
<1>1. K \in Seq(S) BY KeepInFacts
<1>2. PICK at : IsKept(K, s, T, at) BY KeepInFacts
<1> HIDE DEF K
<1>3. ASSUME NEW x \in ToSet(K) PROVE x \in ToSet(s) \cap T
  <2>1. PICK k \in 1..Len(K) : K[k] = x BY <1>1, ToSetFacts
  <2>2. at[k] \in 1..Len(s) /\ x = s[at[k]] /\ x \in T BY <1>2, <2>1 DEF IsKept
  <2> QED BY <2>2, ToSetFacts
<1>4. ASSUME NEW x \in ToSet(s) \cap T PROVE x \in ToSet(K)
  <2>1. PICK i \in 1..Len(s) : s[i] = x BY ToSetFacts
  <2>2. PICK k \in 1..Len(K) : at[k] = i BY <1>2, <2>1 DEF IsKept
  <2>3. K[k] = x BY <1>2, <2>1, <2>2 DEF IsKept
  <2> QED BY <1>1, <2>3, ToSetFacts
<1> QED BY <1>3, <1>4 DEF K

(* If one element passes, at one place, it is all that is kept.            *)
LEMMA KeepInOne ==
  ASSUME NEW S, NEW s \in Seq(S), NEW T, NEW i \in 1..Len(s), s[i] \in T,
         \A j \in 1..Len(s) : s[j] \in T => j = i
  PROVE  Len(KeepIn(s, T)) = 1 /\ KeepIn(s, T)[1] = s[i]
<1> DEFINE K == KeepIn(s, T)
<1>1. K \in Seq(S) /\ Len(K) \in Nat BY KeepInFacts, LenProperties
<1>2. PICK at : IsKept(K, s, T, at) BY KeepInFacts
<1> HIDE DEF K
<1>3. \A k \in 1..Len(K) : at[k] = i /\ K[k] = s[i]
  BY <1>2 DEF IsKept
<1>4. PICK k \in 1..Len(K) : at[k] = i BY <1>2 DEF IsKept
<1>5. ASSUME 1 < Len(K) PROVE FALSE
  <2>1. 1 \in 1..Len(K) /\ Len(K) \in 1..Len(K) BY <1>1, <1>5
  <2>2. at[1] < at[Len(K)] BY <1>2, <1>5, <2>1 DEF IsKept
  <2> QED BY <1>3, <2>1, <2>2
<1>6. Len(K) = 1 BY <1>1, <1>4, <1>5
<1>7. K[1] = s[i] BY <1>3, <1>6
<1> QED BY <1>6, <1>7 DEF K

----------------------------------------------------------------------------
(* Sums                                                                    *)

(* A sum of naturals is at least each of them.                             *)
LEMMA TotalFacts ==
  ASSUME NEW w \in Seq(Nat)
  PROVE  Total(w) \in Nat /\ \A i \in 1..Len(w) : w[i] <= Total(w)
<1> DEFINE N == Len(w)
           step == [p \in (1..N) \X Nat |-> p[2] + w[p[1]]]
           Body(it, d) == IF d = {} THEN 0 ELSE it[d \ {Max(d)}] + w[Max(d)]
           it == CHOOSE it : it = [d \in SUBSET (1..N) |-> Body(it, d)]
<1>1. N \in Nat /\ DOMAIN w = 1..N /\ \A i \in 1..N : w[i] \in Nat
  BY LenProperties, ElementOfSeq
<1>2. step \in [(1..N) \X Nat -> Nat]
  <2>1. ASSUME NEW p \in (1..N) \X Nat PROVE p[2] + w[p[1]] \in Nat
    BY <1>1
  <2> QED BY <2>1
<1>3. Total(w) = it[1..N]
  BY <1>1, Zenon DEF Total, FoldLeft, MapThenFoldSet
<1>4. PICK f \in [SUBSET (1..N) -> Nat] : IsFold(f, N, 0, step)
  <2> HIDE DEF N, step
  <2> QED BY <1>1, <1>2, FoldExists
<1>5. f = [d \in SUBSET (1..N) |-> Body(f, d)]
  <2>1. ASSUME NEW d \in SUBSET (1..N) PROVE f[d] = Body(f, d)
    <3>1. CASE d # {}
      <4>1. Max(d) \in 1..N /\ d \ {Max(d)} \in SUBSET (1..N) BY <3>1, <1>4 DEF IsFold
      <4>2. f[d \ {Max(d)}] \in Nat BY <4>1
      <4>3. f[d] = step[<<Max(d), f[d \ {Max(d)}]>>] BY <1>4, <3>1 DEF IsFold
      <4>4. step[<<Max(d), f[d \ {Max(d)}]>>] = f[d \ {Max(d)}] + w[Max(d)]
        BY <4>1, <4>2
      <4> QED BY <3>1, <4>3, <4>4
    <3>2. CASE d = {} BY <1>4, <3>2 DEF IsFold
    <3> QED BY <3>1, <3>2
  <2> QED BY <2>1
<1>6. it = [d \in SUBSET (1..N) |-> Body(it, d)]
  BY <1>5, Zenon
<1> HIDE DEF it
<1>7. it[1..0] = 0
  <2>1. 1..0 = {} /\ {} \in SUBSET (1..N) BY <1>1
  <2>2. it[{}] = Body(it, {}) BY <1>6, <2>1
  <2> QED BY <2>1, <2>2
<1>8. ASSUME NEW n \in 1..N PROVE it[1..n] = it[1..(n - 1)] + w[n]
  <2>1. (1..n) \in SUBSET (1..N) /\ n \in Nat \ {0}
    BY <1>1
  <2>2. it[1..n] = Body(it, 1..n) BY <1>6, <2>1
  <2> QED BY <2>1, <2>2, MaxOfInterval
<1> DEFINE T == {n \in 0..N : it[1..n] \in Nat /\ \A i \in 1..n : w[i] <= it[1..n]}
<1>9. 0 \in T
  <2>1. 1..0 = {} OBVIOUS
  <2> QED BY <1>1, <1>7, <2>1
<1>10. ASSUME NEW n \in 1..N, n - 1 \in T PROVE n \in T
  <2>1. it[1..(n - 1)] \in Nat /\ \A i \in 1..(n - 1) : w[i] <= it[1..(n - 1)]
    BY <1>10
  <2>2. it[1..n] = it[1..(n - 1)] + w[n] /\ w[n] \in Nat BY <1>1, <1>8
  <2>3. ASSUME NEW i \in 1..n PROVE w[i] <= it[1..n]
    <3>1. i = n \/ i \in 1..(n - 1) BY <1>1
    <3>2. w[i] \in Nat BY <1>1
    <3> QED BY <2>1, <2>2, <3>1, <3>2
  <2> QED BY <1>1, <2>1, <2>2, <2>3
<1>11. 0..N \subseteq T
  <2> HIDE DEF T, N
  <2> QED BY <1>1, <1>9, <1>10, BoundedInduction
<1>12. N \in T
  <2> HIDE DEF T
  <2> QED BY <1>1, <1>11
<1> QED BY <1>3, <1>12

----------------------------------------------------------------------------
(* The same facts about a list of whatever elements                        *)

LEMMA SeqIsSeq ==
  ASSUME NEW S, NEW s \in Seq(S)
  PROVE  IsSeq(s)
BY ToSetFacts DEF IsSeq

LEMMA ListFacts ==
  ASSUME NEW s, IsSeq(s)
  PROVE  /\ s \in Seq(ToSet(s)) /\ Len(s) \in Nat /\ DOMAIN s = 1..Len(s)
         /\ \A i \in 1..Len(s) : s[i] \in ToSet(s)
         /\ \A x \in ToSet(s) : \E i \in 1..Len(s) : s[i] = x
BY ToSetFacts, LenProperties DEF IsSeq

LEMMA FunctionIsSeq ==
  ASSUME NEW n \in Nat, NEW g, g = [i \in 1..n |-> g[i]]
  PROVE  IsSeq(g) /\ Len(g) = n
<1> DEFINE S == {g[i] : i \in 1..n}
<1>1. g \in [1..n -> S] OBVIOUS
<1>2. g \in Seq(S)
  <2> HIDE DEF S
  <2> QED BY <1>1, SeqDef
<1>3. Len(g) = n BY <1>1, <1>2, LenProperties
<1> QED BY <1>2, <1>3, SeqIsSeq

LEMMA ConcatIsSeq ==
  ASSUME NEW s, NEW t, IsSeq(s), IsSeq(t)
  PROVE  /\ IsSeq(s \o t) /\ Len(s \o t) = Len(s) + Len(t)
         /\ \A i \in 1..Len(s) : (s \o t)[i] = s[i]
         /\ \A i \in 1..Len(t) : (s \o t)[Len(s) + i] = t[i]
         /\ ToSet(s \o t) = ToSet(s) \cup ToSet(t)
<1> DEFINE S == ToSet(s) \cup ToSet(t)
           c == s \o t
<1>1. s \in Seq(S) /\ t \in Seq(S) /\ Len(s) \in Nat /\ Len(t) \in Nat
  <2>1. s \in Seq(ToSet(s)) /\ t \in Seq(ToSet(t)) BY ListFacts
  <2> QED BY <2>1, SeqDef, ListFacts
<1>2. /\ c \in Seq(S) /\ Len(c) = Len(s) + Len(t)
      /\ \A i \in 1..Len(s) : c[i] = s[i]
      /\ \A i \in 1..Len(t) : c[Len(s) + i] = t[i]
  BY <1>1, ConcatProperties
<1> HIDE DEF c
<1>3. ASSUME NEW x \in ToSet(s) PROVE x \in ToSet(c)
  <2>1. PICK i \in 1..Len(s) : s[i] = x BY ListFacts
  <2>2. i \in 1..Len(c) /\ c[i] = x BY <1>1, <1>2, <2>1
  <2> QED BY <1>2, <2>2, ToSetFacts
<1>4. ASSUME NEW x \in ToSet(t) PROVE x \in ToSet(c)
  <2>1. PICK i \in 1..Len(t) : t[i] = x BY ListFacts
  <2>2. Len(s) + i \in 1..Len(c) /\ c[Len(s) + i] = x BY <1>1, <1>2, <2>1
  <2> QED BY <1>2, <2>2, ToSetFacts
<1>5. ToSet(c) \subseteq S BY <1>2, ToSetFacts
<1>6. IsSeq(c) BY <1>2, SeqIsSeq
<1>7. ToSet(c) = ToSet(s) \cup ToSet(t) BY <1>3, <1>4, <1>5
<1> QED BY <1>2, <1>6, <1>7 DEF c

LEMMA KeptList ==
  ASSUME NEW s, IsSeq(s), NEW T
  PROVE  /\ IsSeq(KeepIn(s, T)) /\ ToSet(KeepIn(s, T)) = ToSet(s) \cap T
         /\ \E at : IsKept(KeepIn(s, T), s, T, at)
<1>1. s \in Seq(ToSet(s)) BY ListFacts
<1>2. KeepIn(s, T) \in Seq(ToSet(s)) BY <1>1, KeepInFacts
<1> QED BY <1>1, <1>2, KeepInFacts, KeepInSet, SeqIsSeq

LEMMA FlattenedList ==
  ASSUME NEW seqs, IsSeq(seqs), \A i \in 1..Len(seqs) : IsSeq(seqs[i])
  PROVE  /\ IsSeq(FlattenSeq(seqs))
         /\ \E row, col : IsFlat(FlattenSeq(seqs), seqs, Len(seqs), row, col)
         /\ \A x \in ToSet(FlattenSeq(seqs)) :
              \E i \in 1..Len(seqs) : \E j \in 1..Len(seqs[i]) : x = seqs[i][j]
         /\ \A i \in 1..Len(seqs) : \A j \in 1..Len(seqs[i]) :
              seqs[i][j] \in ToSet(FlattenSeq(seqs))
<1> DEFINE S == UNION {ToSet(seqs[i]) : i \in 1..Len(seqs)}
<1>1. ASSUME NEW i \in 1..Len(seqs) PROVE seqs[i] \in Seq(S)
  <2>1. seqs[i] \in Seq(ToSet(seqs[i])) /\ ToSet(seqs[i]) \subseteq S BY ListFacts
  <2> HIDE DEF S
  <2> QED BY <2>1, SeqDef
<1> HIDE DEF S
<1>2. seqs \in Seq(Seq(S))
  <2>1. Len(seqs) \in Nat /\ seqs \in Seq(ToSet(seqs)) BY ListFacts
  <2>2. seqs = [i \in 1..Len(seqs) |-> seqs[i]] BY <2>1, SeqDef
  <2>3. seqs \in [1..Len(seqs) -> Seq(S)] BY <1>1, <2>2
  <2> QED BY <2>1, <2>3, SeqDef
<1>3. FlattenSeq(seqs) \in Seq(S) BY <1>2, FlattenFacts
<1> QED BY <1>2, <1>3, FlattenFacts, FlattenedSet, SeqIsSeq

LEMMA BestOfList ==
  ASSUME NEW s, IsSeq(s), NEW key, NEW beats, NEW rank \in [ToSet(s) -> Nat],
         BeatsByRank(beats, s, rank)
  PROVE  /\ IsSeq(BestOf(s, key, beats))
         /\ OnePerKey(BestOf(s, key, beats), key)
         /\ \E pos, fst : IsBest(BestOf(s, key, beats), s, Len(s), key, rank, pos, fst)
<1>1. s \in Seq(ToSet(s)) BY ListFacts
<1>2. BestOf(s, key, beats) \in Seq(ToSet(s)) BY <1>1, BestOfFacts
<1> QED BY <1>1, <1>2, BestOfFacts, SeqIsSeq

LEMMA SmallSeqs == IsSeq(<<>>) /\ \A x : IsSeq(<<x>>) /\ ToSet(<<x>>) = {x}
<1>1. ASSUME NEW x PROVE IsSeq(<<x>>) /\ ToSet(<<x>>) = {x}
  <2>1. <<x>> \in Seq({x}) OBVIOUS
  <2>2. ToSet(<<x>>) = {x} BY DEF ToSet
  <2> QED BY <2>1, <2>2 DEF IsSeq
<1>2. <<>> \in Seq(ToSet(<<>>)) BY EmptySeq
<1> QED BY <1>1, <1>2 DEF IsSeq

(* With setdefault the first element of each key is kept.                  *)
LEMMA FirstPerKey ==
  ASSUME NEW s, IsSeq(s), NEW key, NEW b, b = BestOf(s, key, {})
  PROVE  /\ IsSeq(b) /\ OnePerKey(b, key) /\ ToSet(b) \subseteq ToSet(s)
         /\ \A i \in 1..Len(s) : \E k \in 1..Len(b) : \E p \in 1..i :
              b[k] = s[p] /\ key[s[p]] = key[s[i]]
         /\ \A x \in ToSet(s) : \E y \in ToSet(b) : key[y] = key[x]
<1> DEFINE rank == [x \in ToSet(s) |-> 0]
<1>1. rank \in [ToSet(s) -> Nat] /\ \A x \in ToSet(s) : rank[x] = 0 OBVIOUS
<1> HIDE DEF rank
<1>2. BeatsByRank({}, s, rank) BY <1>1 DEF BeatsByRank
<1>3. IsSeq(b) /\ OnePerKey(b, key) BY <1>1, <1>2, BestOfList
<1>4. PICK pos, fst : IsBest(b, s, Len(s), key, rank, pos, fst) BY <1>1, <1>2, BestOfList
<1>5. Len(s) \in Nat /\ \A i \in 1..Len(s) : s[i] \in ToSet(s) BY ListFacts
<1>6. ASSUME NEW i \in 1..Len(s)
      PROVE  \E k \in 1..Len(b) : \E p \in 1..i : b[k] = s[p] /\ key[s[p]] = key[s[i]]
  <2>1. PICK k \in 1..Len(b) : key[b[k]] = key[s[i]] BY <1>4 DEF IsBest
  <2>2. /\ pos[k] \in 1..Len(s) /\ b[k] = s[pos[k]]
        /\ rank[s[i]] = rank[b[k]] => pos[k] <= i
    BY <1>4, <2>1 DEF IsBest
  <2>3. pos[k] <= i BY <1>1, <1>5, <2>2
  <2>4. pos[k] \in 1..i BY <2>2, <2>3
  <2> QED BY <2>1, <2>2, <2>4
<1>7. ASSUME NEW x \in ToSet(b) PROVE x \in ToSet(s)
  <2>1. PICK k \in 1..Len(b) : b[k] = x BY <1>3, ListFacts
  <2> QED BY <1>4, <1>5, <2>1 DEF IsBest
<1>8. ASSUME NEW x \in ToSet(s) PROVE \E y \in ToSet(b) : key[y] = key[x]
  <2>1. PICK i \in 1..Len(s) : s[i] = x BY ListFacts
  <2>2. PICK k \in 1..Len(b) : key[b[k]] = key[x] BY <1>4, <2>1 DEF IsBest
  <2> QED BY <1>3, <2>2, ListFacts
<1> QED BY <1>3, <1>6, <1>7, <1>8
=============================================================================
