--------------------------- MODULE RetrievalProofs --------------------------
(***************************************************************************)
(* What the hybrid search and the splitting of documents of apps/ai-service*)
(* return, for any chunks, lists, texts and sizes.  Their loops are        *)
(* functions of the number of rounds; what a loop returns follows from     *)
(* what each round does by CountUp, after Rounds has shown that the        *)
(* function exists.                                                        *)
(***************************************************************************)
EXTENDS HybridSearch, DocumentSplit, FiniteSetTheorems, SequenceTheorems,
        WellFoundedInduction, TLAPS

-----------------------------------------------------------------------------
(* Minima and maxima                                                       *)

Below == {p \in Nat \X Nat : p[1] < p[2]}

LEMMA BelowWellFounded == IsWellFoundedOn(Below, Nat)
<1>1. Below \cap (Nat \X Nat) \subseteq OpToRel(<, Nat)
  BY DEF OpToRel, Below
<1> QED
  BY <1>1, NatLessThanWellFounded, IsWellFoundedOnSubrelation

\* What Min chooses.
LEMMA MinIs ==
  ASSUME NEW S, S \subseteq Nat, S # {}
  PROVE  Min(S) \in S /\ \A y \in S : Min(S) <= y
<1>1. PICK x \in S : \A y \in S : <<y, x>> \notin Below
  BY BelowWellFounded, WFMin
<1>2. ASSUME NEW y \in S PROVE x <= y
  <2>1. x \in Nat /\ y \in Nat
    OBVIOUS
  <2>2. ~(y < x)
    BY <1>1, <2>1 DEF Below
  <2> QED
    BY <2>1, <2>2
<1> QED
  BY <1>1, <1>2 DEF Min

\* A bounded set of numbers has the maximum that Max chooses.
LEMMA MaxOfBounded ==
  ASSUME NEW n \in Nat, NEW S, S \subseteq 1..n, S # {}
  PROVE  Max(S) \in S /\ \A y \in S : y =< Max(S)
<1> DEFINE D == {n - y : y \in S}
<1>1. D \subseteq Nat /\ D # {}
  <2>1. \A y \in S : y \in 1..n /\ n - y \in Nat
    OBVIOUS
  <2> QED
    BY <2>1
<1>2. PICK d \in D : \A e \in D : <<e, d>> \notin Below
  BY <1>1, BelowWellFounded, WFMin
<1>3. PICK x \in S : d = n - x
  OBVIOUS
<1>4. ASSUME NEW y \in S PROVE x >= y
  <2>1. n - y \in D /\ n - y \in Nat /\ n - x \in Nat
    BY <1>1
  <2>2. ~(n - y < n - x)
    BY <1>2, <1>3, <2>1 DEF Below
  <2> QED
    BY <2>1, <2>2
<1>5. \E z \in S : \A y \in S : z >= y
  BY <1>4
<1>6. Max(S) \in S /\ \A y \in S : Max(S) >= y
  BY <1>5 DEF Max
<1> QED
  BY <1>6

-----------------------------------------------------------------------------
(* Induction on numbers, for a set of them                                 *)

LEMMA CountUp ==
  ASSUME NEW m \in Nat, NEW S, 0 \in S, \A n \in 0..(m - 1) : n \in S => n + 1 \in S
  PROVE  \A n \in 0..m : n \in S
<1> SUFFICES ASSUME NEW k \in 0..m, k \notin S PROVE FALSE
  OBVIOUS
<1> DEFINE Out == {n \in 0..m : n \notin S}
<1>1. Out \subseteq Nat /\ Out # {}
  OBVIOUS
<1>2. PICK x \in Out : \A y \in Out : <<y, x>> \notin Below
  BY <1>1, BelowWellFounded, WFMin
<1>3. x \in 1..m
  OBVIOUS
<1>4. x - 1 \in 0..(m - 1) /\ x - 1 + 1 = x
  BY <1>3
<1>5. x - 1 \notin S
  BY <1>4
<1>6. x - 1 \in Out /\ x - 1 < x
  BY <1>3, <1>5
<1> QED
  BY <1>1, <1>2, <1>6 DEF Below

\* A loop of m rounds, and its history: the values of its variable after each round.
IsLoop(A, first, m, step) == first \in A /\ m \in Nat /\ step \in [1..m -> [A -> A]]

HasHistory(A, first, m, step) ==
  \E after \in [0..m -> A] :
    after[0] = first /\ \A i \in 1..m : after[i] = step[i][after[i - 1]]

LEMMA Rounds ==
  ASSUME NEW A, NEW first, NEW m, NEW step, IsLoop(A, first, m, step)
  PROVE  HasHistory(A, first, m, step)
<1>0. first \in A /\ m \in Nat /\ step \in [1..m -> [A -> A]]
  BY DEF IsLoop
<1> DEFINE Is(f, n) == f[0] = first /\ \A i \in 1..n : f[i] = step[i][f[i - 1]]
           Has(n) == \E f \in [0..n -> A] : Is(f, n)
           S == {n \in 0..m : Has(n)}
<1>1. 0 \in S
  <2>1. [i \in 0..0 |-> first] \in [0..0 -> A] /\ Is([i \in 0..0 |-> first], 0)
    BY <1>0
  <2>2. Has(0)
    BY <2>1
  <2> HIDE DEF Has
  <2> QED
    BY <1>0, <2>2
<1>2. ASSUME NEW n \in 0..(m - 1), n \in S PROVE n + 1 \in S
  <2>1. PICK f \in [0..n -> A] : Is(f, n)
    BY <1>2
  <2>9. n \in Nat
    BY <1>0
  <2> DEFINE g == [i \in 0..(n + 1) |-> IF i = n + 1 THEN step[n + 1][f[n]] ELSE f[i]]
  <2>2. n + 1 \in 1..m /\ f[n] \in A /\ n \in 0..n
    BY <1>0, <2>9
  <2>3. step[n + 1][f[n]] \in A
    BY <1>0, <2>2
  <2>4. g \in [0..(n + 1) -> A]
    BY <2>3, <2>9
  <2>5. g[0] = first
    BY <2>1, <2>9
  <2>6. ASSUME NEW i \in 1..(n + 1) PROVE g[i] = step[i][g[i - 1]]
    <3>1. CASE i = n + 1
      BY <3>1, <2>2, <2>9
    <3>2. CASE i # n + 1
      <4>1. i \in 1..n /\ i - 1 \in 0..n /\ i \in 0..(n + 1) /\ i - 1 \in 0..(n + 1) /\ i - 1 # n + 1
        BY <3>2, <2>9
      <4>2. g[i] = f[i] /\ g[i - 1] = f[i - 1]
        BY <4>1, <3>2
      <4> QED
        BY <4>1, <4>2, <2>1
    <3> QED
      BY <3>1, <3>2
  <2>7. Is(g, n + 1)
    BY <2>5, <2>6
  <2> HIDE DEF g, Is
  <2>8. Has(n + 1)
    BY <2>4, <2>7
  <2> HIDE DEF Has
  <2> QED
    BY <2>2, <2>8
<1> HIDE DEF S
<1>3. m \in S
  <2>1. \A k \in 0..m : k \in S
    BY <1>0, <1>1, <1>2, CountUp
  <2> QED
    BY <1>0, <2>1
<1> QED
  BY <1>3 DEF S, HasHistory

-----------------------------------------------------------------------------
(* Ordering a finite set                                                   *)

\* Of two elements of S one is before the other by R, and R is transitive.
Orders(R, S) ==
  /\ \A x, y \in S : x = y \/ <<x, y>> \in R \/ <<y, x>> \in R
  /\ \A x, y, z \in S : <<x, y>> \in R /\ <<y, z>> \in R => <<x, z>> \in R

\* The last of a finite set.
LEMMA LastExists ==
  ASSUME NEW S, NEW R, Orders(R, S)
  PROVE  \A n \in Nat : \A T \in SUBSET S :
           IsFiniteSet(T) /\ Cardinality(T) = n + 1 =>
             \E x \in T : \A y \in T \ {x} : <<y, x>> \in R
<1> DEFINE Has(T) == \E x \in T : \A y \in T \ {x} : <<y, x>> \in R
           N == {n \in Nat : \A T \in SUBSET S : IsFiniteSet(T) /\ Cardinality(T) = n + 1 => Has(T)}
<1>1. 0 \in N
  <2> SUFFICES ASSUME NEW T \in SUBSET S, IsFiniteSet(T), Cardinality(T) = 0 + 1 PROVE Has(T)
    OBVIOUS
  <2>1. Cardinality(T) = 1
    OBVIOUS
  <2>2. PICK x : T = {x}
    BY <2>1, FS_Singleton
  <2> QED
    BY <2>2
<1>2. ASSUME NEW n \in Nat, n \in N PROVE n + 1 \in N
  <2> SUFFICES ASSUME NEW T \in SUBSET S, IsFiniteSet(T), Cardinality(T) = n + 1 + 1 PROVE Has(T)
    OBVIOUS
  <2>1. T # {}
    BY FS_EmptySet
  <2>2. PICK t \in T : TRUE
    BY <2>1
  <2>3. IsFiniteSet(T \ {t}) /\ Cardinality(T \ {t}) = n + 1
    BY <2>2, FS_RemoveElement
  <2>4. Has(T \ {t})
    BY <1>2, <2>3
  <2>5. PICK x \in T \ {t} : \A y \in (T \ {t}) \ {x} : <<y, x>> \in R
    BY <2>4
  <2>6. CASE <<t, x>> \in R
    BY <2>5, <2>6
  <2>7. CASE <<x, t>> \in R
    <3>1. ASSUME NEW y \in T \ {t} PROVE <<y, t>> \in R
      BY <2>5, <2>7, <3>1 DEF Orders
    <3> QED
      BY <2>2, <3>1
  <2> QED
    BY <2>2, <2>5, <2>6, <2>7 DEF Orders
<1> HIDE DEF N
<1>3. ASSUME NEW n \in Nat PROVE n \in N
  <2>1. \A k \in 0..n : k \in N
    BY <1>1, <1>2, CountUp
  <2> QED
    BY <2>1
<1> QED
  BY <1>3 DEF N

\* The elements of a finite set can be put in order.
LEMMA OrderExists ==
  ASSUME NEW S, NEW R, Orders(R, S)
  PROVE  \A n \in Nat : \A T \in SUBSET S :
           IsFiniteSet(T) /\ Cardinality(T) = n =>
             \E s \in Bijection(1..n, T) : \A i, j \in DOMAIN s : i < j => <<s[i], s[j]>> \in R
<1> DEFINE Has(T, n) == \E s \in Bijection(1..n, T) :
                          \A i, j \in DOMAIN s : i < j => <<s[i], s[j]>> \in R
           N == {n \in Nat : \A T \in SUBSET S : IsFiniteSet(T) /\ Cardinality(T) = n => Has(T, n)}
<1>1. 0 \in N
  <2> SUFFICES ASSUME NEW T \in SUBSET S, IsFiniteSet(T), Cardinality(T) = 0 PROVE Has(T, 0)
    OBVIOUS
  <2>1. T = {}
    BY FS_EmptySet
  <2> DEFINE s == [i \in 1..0 |-> 0]
  <2>2. s \in Bijection(1..0, T)
    BY <2>1 DEF Bijection, Injection, Surjection, IsInjective
  <2>3. \A i, j \in DOMAIN s : i < j => <<s[i], s[j]>> \in R
    OBVIOUS
  <2> QED
    BY <2>2, <2>3
<1>2. ASSUME NEW n \in Nat, n \in N PROVE n + 1 \in N
  <2> SUFFICES ASSUME NEW T \in SUBSET S, IsFiniteSet(T), Cardinality(T) = n + 1 PROVE Has(T, n + 1)
    OBVIOUS
  <2>1. PICK x \in T : \A y \in T \ {x} : <<y, x>> \in R
    BY LastExists
  <2>2. IsFiniteSet(T \ {x}) /\ Cardinality(T \ {x}) = n
    BY <2>1, FS_RemoveElement
  <2>3. Has(T \ {x}, n)
    BY <1>2, <2>2
  <2>4. PICK s \in Bijection(1..n, T \ {x}) : \A i, j \in DOMAIN s : i < j => <<s[i], s[j]>> \in R
    BY <2>3
  <2>5. /\ s \in [1..n -> T \ {x}]
        /\ \A i, j \in 1..n : s[i] = s[j] => i = j
        /\ \A y \in T \ {x} : \E i \in 1..n : s[i] = y
    BY <2>4 DEF Bijection, Injection, Surjection, IsInjective
  <2> DEFINE r == [i \in 1..(n + 1) |-> IF i = n + 1 THEN x ELSE s[i]]
  <2>6. \A i \in 1..(n + 1) : i = n + 1 \/ i \in 1..n
    OBVIOUS
  <2>7. \A i \in 1..n : i \in 1..(n + 1) /\ i # n + 1 /\ r[i] = s[i] /\ s[i] \in T \ {x}
    BY <2>5
  <2>8. r[n + 1] = x /\ n + 1 \in 1..(n + 1) /\ DOMAIN r = 1..(n + 1)
    OBVIOUS
  <2> HIDE DEF r
  <2>9. \A i \in 1..(n + 1) : r[i] \in T
    BY <2>6, <2>7, <2>8
  <2>10. r \in [1..(n + 1) -> T]
    BY <2>9 DEF r
  <2>11. \A i, j \in 1..(n + 1) : r[i] = r[j] => i = j
    BY <2>5, <2>6, <2>7, <2>8
  <2>12. \A y \in T : \E i \in 1..(n + 1) : r[i] = y
    BY <2>5, <2>7, <2>8
  <2>13. r \in Bijection(1..(n + 1), T)
    BY <2>8, <2>10, <2>11, <2>12 DEF Bijection, Injection, Surjection, IsInjective
  <2>14. ASSUME NEW i \in DOMAIN r, NEW j \in DOMAIN r, i < j PROVE <<r[i], r[j]>> \in R
    <3>1. i \in 1..n
      BY <2>8, <2>14
    <3>2. CASE j = n + 1
      BY <2>1, <2>7, <2>8, <3>1, <3>2
    <3>3. CASE j # n + 1
      <4>1. j \in 1..n
        BY <2>6, <2>8, <3>3
      <4>2. DOMAIN s = 1..n
        BY <2>5
      <4> QED
        BY <2>4, <2>7, <2>14, <3>1, <4>1, <4>2
    <3> QED
      BY <3>2, <3>3
  <2> QED
    BY <2>13, <2>14
<1> HIDE DEF N
<1>3. ASSUME NEW n \in Nat PROVE n \in N
  <2>1. \A k \in 0..n : k \in N
    BY <1>1, <1>2, CountUp
  <2> QED
    BY <2>1
<1> QED
  BY <1>3 DEF N

\* What Ordered chooses: all the elements, in order.
LEMMA OrderedIs ==
  ASSUME NEW S, IsFiniteSet(S), NEW R, Orders(R, S)
  PROVE  LET s == Ordered(S, R) IN
         /\ Cardinality(S) \in Nat /\ s \in Bijection(1..Cardinality(S), S)
         /\ \A i, j \in DOMAIN s : i < j => <<s[i], s[j]>> \in R
<1>1. Cardinality(S) \in Nat
  BY FS_CardinalityType
<1>2. \E s \in Bijection(1..Cardinality(S), S) : \A i, j \in DOMAIN s : i < j => <<s[i], s[j]>> \in R
  BY <1>1, OrderExists
<1> QED
  BY <1>1, <1>2 DEF Ordered

-----------------------------------------------------------------------------
(***************************************************************************)
(* HybridSearch: the fused list holds the chunks of the lists by the       *)
(* sums of their reciprocal ranks, the siblings follow the hits, the       *)
(* prompt has one source per parent.                                       *)
(***************************************************************************)
Scored == [chunk : Stored, score : Nat]

\* Lists of chunks, none twice.
Distinct == {l \in Seq(Stored) : IsInjective(l)}

\* What a Map with chunks as keys may be.
IsScoreMap(s) == s \in Seq(Scored) /\ \A i, j \in DOMAIN s : s[i].chunk = s[j].chunk => i = j

ChunksIn(s) == {s[i].chunk : i \in DOMAIN s}

LEMMA RrfScoreNat == \A rank \in Nat : RrfScore(rank) \in Nat
<1>1. RrfK \in Nat \ {0} /\ Denominator \in Nat
  BY SearchAssumption
<1> SUFFICES ASSUME NEW rank \in Nat PROVE RrfScore(rank) \in Nat
  OBVIOUS
<1>2. RrfK + rank \in Nat \ {0}
  BY <1>1
<1> QED
  BY <1>1, <1>2 DEF RrfScore

LEMMA HitScored ==
  ASSUME NEW list \in Distinct, NEW i \in 1..Len(list)
  PROVE  /\ Hit(list, i) \in Scored /\ list[i] \in Stored /\ Hit(list, i).chunk = list[i]
         /\ Hit(list, i).score = RrfScore(i) /\ Hit(list, i).score \in Nat
<1>1. list[i] \in Stored /\ i \in Nat
  BY DEF Distinct
<1>2. RrfScore(i) \in Nat
  BY <1>1, RrfScoreNat
<1> QED
  BY <1>1, <1>2 DEF Hit, Scored

LEMMA AddScoreIs ==
  ASSUME NEW s, IsScoreMap(s), NEW h \in Scored
  PROVE  LET r == AddScore(s, h) IN
         /\ IsScoreMap(r)
         /\ DOMAIN s \subseteq DOMAIN r
         /\ ChunksIn(r) = ChunksIn(s) \cup {h.chunk}
         /\ \A i \in DOMAIN s :
              /\ r[i].chunk = s[i].chunk
              /\ r[i].score = s[i].score + (IF s[i].chunk = h.chunk THEN h.score ELSE 0)
         /\ \A i \in (DOMAIN r) \ (DOMAIN s) :
              r[i] = h /\ h.chunk \notin ChunksIn(s) /\ \A j \in DOMAIN r : j <= i
<1>1. /\ s \in Seq(Scored) /\ DOMAIN s = 1..Len(s) /\ Len(s) \in Nat
      /\ \A i \in DOMAIN s : s[i] \in Scored /\ s[i].score \in Nat /\ s[i].chunk \in Stored
      /\ h.score \in Nat /\ h.chunk \in Stored
  <2>1. s \in Seq(Scored)
    BY DEF IsScoreMap
  <2>2. DOMAIN s = 1..Len(s) /\ Len(s) \in Nat /\ \A i \in DOMAIN s : s[i] \in Scored
    BY <2>1
  <2>3. \A g \in Scored : g.score \in Nat /\ g.chunk \in Stored
    BY DEF Scored
  <2> QED
    BY <2>1, <2>2, <2>3
<1>2. CASE \E i \in DOMAIN s : s[i].chunk = h.chunk
  <2> DEFINE r == [i \in DOMAIN s |->
                     IF s[i].chunk # h.chunk THEN s[i] ELSE [s[i] EXCEPT !.score = @ + h.score]]
  <2>1. AddScore(s, h) = r
    BY <1>2 DEF AddScore
  <2>2. ASSUME NEW i \in DOMAIN s
        PROVE  /\ r[i] \in Scored /\ r[i].chunk = s[i].chunk
               /\ r[i].score = s[i].score + (IF s[i].chunk = h.chunk THEN h.score ELSE 0)
    <3>1. r[i] = IF s[i].chunk # h.chunk THEN s[i] ELSE [s[i] EXCEPT !.score = @ + h.score]
      OBVIOUS
    <3>2. s[i] \in Scored /\ s[i].score \in Nat /\ s[i].score + 0 = s[i].score
          /\ s[i].score + h.score \in Nat
      BY <1>1
    <3> QED
      BY <1>1, <3>1, <3>2 DEF Scored
  <2>3. DOMAIN r = DOMAIN s
    OBVIOUS
  <2> HIDE DEF r
  <2>4. r \in [1..Len(s) -> Scored]
    BY <1>1, <2>2, <2>3 DEF r
  <2>5. r \in Seq(Scored)
    BY <1>1, <2>4
  <2>6. IsScoreMap(r)
    BY <2>2, <2>3, <2>5 DEF IsScoreMap
  <2>7. ChunksIn(r) = ChunksIn(s)
    BY <2>2, <2>3 DEF ChunksIn
  <2>8. h.chunk \in ChunksIn(s)
    BY <1>2 DEF ChunksIn
  <2> QED
    BY <2>1, <2>2, <2>3, <2>6, <2>7, <2>8
<1>3. CASE ~\E i \in DOMAIN s : s[i].chunk = h.chunk
  <2> DEFINE r == Append(s, h)
  <2>1. AddScore(s, h) = r
    BY <1>3 DEF AddScore
  <2>2. /\ r \in Seq(Scored) /\ DOMAIN r = 1..(Len(s) + 1)
        /\ \A i \in DOMAIN s : r[i] = s[i]
        /\ r[Len(s) + 1] = h
    BY <1>1, AppendProperties
  <2> HIDE DEF r
  <2>3. /\ \A i \in DOMAIN r : i \in DOMAIN s \/ i = Len(s) + 1
        /\ DOMAIN s \subseteq DOMAIN r /\ Len(s) + 1 \in DOMAIN r
        /\ \A j \in DOMAIN r : j <= Len(s) + 1
    BY <1>1, <2>2
  <2>4. IsScoreMap(r)
    BY <1>3, <2>2, <2>3 DEF IsScoreMap
  <2>5. ChunksIn(r) = ChunksIn(s) \cup {h.chunk}
    BY <2>2, <2>3 DEF ChunksIn
  <2>6. h.chunk \notin ChunksIn(s)
    BY <1>3 DEF ChunksIn
  <2>7. \A i \in DOMAIN s : s[i].score = s[i].score + 0
    BY <1>1
  <2> QED
    BY <1>3, <2>1, <2>2, <2>3, <2>4, <2>5, <2>6, <2>7
<1> QED
  BY <1>2, <1>3

\* What the first k entries of a list add to the score of a chunk.
RankAmong(list, k, n) == IF \E i \in 1..k : list[i] = n THEN ReciprocalRank(list, n) ELSE 0

LEMMA RankIs ==
  ASSUME NEW list \in Distinct, NEW i \in 1..Len(list)
  PROVE  ReciprocalRank(list, list[i]) = RrfScore(i)
<1>1. DOMAIN list = 1..Len(list) /\ list[i] \in ToSet(list)
  BY DEF Distinct, ToSet
<1>2. (CHOOSE j \in DOMAIN list : list[j] = list[i]) = i
  BY <1>1 DEF Distinct, IsInjective
<1> QED
  BY <1>1, <1>2 DEF ReciprocalRank

LEMMA RankNat ==
  ASSUME NEW list \in Distinct, NEW n
  PROVE  ReciprocalRank(list, n) \in Nat
<1>1. CASE n \in ToSet(list)
  <2>1. PICK i \in 1..Len(list) : list[i] = n
    BY <1>1 DEF ToSet, Distinct
  <2> QED
    BY <2>1, RankIs, RrfScoreNat
<1>2. CASE n \notin ToSet(list)
  BY <1>2 DEF ReciprocalRank
<1> QED
  BY <1>1, <1>2

\* The chunks of a list are added one after the other.
LEMMA AddHitsRounds ==
  ASSUME NEW s, IsScoreMap(s), NEW list \in Distinct
  PROVE  \E after :
           /\ AddHits(s, list) = after[Len(list)]
           /\ after[0] = s
           /\ \A i \in 1..Len(list) : after[i] = AddScore(after[i - 1], Hit(list, i))
<1> DEFINE m == Len(list)
           Map == {t \in Seq(Scored) : IsScoreMap(t)}
           step == [i \in 1..m |-> [t \in Map |-> AddScore(t, Hit(list, i))]]
<1>1. m \in Nat /\ s \in Map
  BY DEF Distinct, IsScoreMap
<1>2. \A i \in 1..m : \A t \in Map : AddScore(t, Hit(list, i)) \in Map
  BY HitScored, AddScoreIs DEF IsScoreMap
<1>3. step \in [1..m -> [Map -> Map]]
  BY <1>2
<1>4. PICK f \in [0..m -> Map] : f[0] = s /\ \A i \in 1..m : f[i] = step[i][f[i - 1]]
  <2>1. IsLoop(Map, s, m, step)
    BY <1>1, <1>3 DEF IsLoop
  <2> HIDE DEF step, Map, m
  <2> QED
    BY <2>1, Rounds DEF HasHistory
<1>5. f = [i \in 0..m |-> IF i = 0 THEN s ELSE AddScore(f[i - 1], Hit(list, i))]
  <2>1. ASSUME NEW i \in 1..m PROVE f[i] = AddScore(f[i - 1], Hit(list, i))
    <3>1. i - 1 \in 0..m
      BY <1>1
    <3>2. f[i - 1] \in Map
      BY <1>4, <3>1
    <3> QED
      BY <1>4, <3>2
  <2>4. ASSUME NEW i \in 0..m PROVE f[i] = IF i = 0 THEN s ELSE AddScore(f[i - 1], Hit(list, i))
    BY <1>1, <1>4, <2>1
  <2> HIDE DEF Map
  <2> QED
    BY <1>4, <2>4
<1>6. \E g : /\ g = [i \in 0..m |-> IF i = 0 THEN s ELSE AddScore(g[i - 1], Hit(list, i))]
             /\ AddHits(s, list) = g[m]
  BY <1>5 DEF AddHits
<1>7. PICK g : /\ g = [i \in 0..m |-> IF i = 0 THEN s ELSE AddScore(g[i - 1], Hit(list, i))]
               /\ AddHits(s, list) = g[m]
  BY <1>6
<1>8. \A i \in 0..m : g[i] = IF i = 0 THEN s ELSE AddScore(g[i - 1], Hit(list, i))
  BY <1>7, Zenon
<1>9. g[0] = s /\ \A i \in 1..m : g[i] = AddScore(g[i - 1], Hit(list, i))
  BY <1>1, <1>8
<1> QED
  BY <1>7, <1>9

\* After k entries of list, r is s with their scores added.
HasAdded(s, list, k, r) ==
  /\ IsScoreMap(r)
  /\ DOMAIN s \subseteq DOMAIN r
  /\ ChunksIn(r) = ChunksIn(s) \cup {list[i] : i \in 1..k}
  /\ \A i \in DOMAIN s :
       /\ r[i].chunk = s[i].chunk
       /\ r[i].score = s[i].score + RankAmong(list, k, s[i].chunk)
  /\ \A i \in (DOMAIN r) \ (DOMAIN s) :
       /\ r[i].chunk \in {list[j] : j \in 1..k} /\ r[i].chunk \notin ChunksIn(s)
       /\ r[i].score = RankAmong(list, k, r[i].chunk)

LEMMA RankAmongNext ==
  ASSUME NEW list \in Distinct, NEW k \in 0..(Len(list) - 1), NEW n
  PROVE  RankAmong(list, k + 1, n)
           = RankAmong(list, k, n) + (IF n = list[k + 1] THEN RrfScore(k + 1) ELSE 0)
         /\ RankAmong(list, k, n) \in Nat
<1>1. Len(list) \in Nat /\ k + 1 \in 1..Len(list) /\ DOMAIN list = 1..Len(list)
  BY DEF Distinct
<1>2. RankAmong(list, k, n) \in Nat
  BY RankNat DEF RankAmong
<1>3. CASE n = list[k + 1]
  <2>1. \A i \in 1..k : list[i] # n
    <3>1. \A i \in 1..k : i \in DOMAIN list /\ i # k + 1
      BY <1>1
    <3> QED
      BY <1>1, <1>3, <3>1 DEF Distinct, IsInjective
  <2>2. RankAmong(list, k, n) = 0
    BY <2>1 DEF RankAmong
  <2>3. k + 1 \in 1..(k + 1)
    BY <1>1
  <2>4. RankAmong(list, k + 1, n) = ReciprocalRank(list, n)
    BY <1>3, <2>3 DEF RankAmong
  <2>5. ReciprocalRank(list, n) = RrfScore(k + 1) /\ RrfScore(k + 1) \in Nat
    <3>1. ReciprocalRank(list, list[k + 1]) = RrfScore(k + 1)
      BY <1>1, RankIs
    <3>2. k + 1 \in Nat
      BY <1>1
    <3> QED
      BY <1>3, <3>1, <3>2, RrfScoreNat
  <2> QED
    BY <1>2, <1>3, <2>2, <2>4, <2>5
<1>4. CASE n # list[k + 1]
  <2>1. \A i \in 1..(k + 1) : i \in 1..k \/ i = k + 1
    BY <1>1
  <2>2. 1..k \subseteq 1..(k + 1)
    BY <1>1
  <2>3. (\E i \in 1..(k + 1) : list[i] = n) <=> (\E i \in 1..k : list[i] = n)
    BY <1>4, <2>1, <2>2
  <2>4. RankAmong(list, k + 1, n) = RankAmong(list, k, n)
    BY <2>3 DEF RankAmong
  <2> QED
    BY <1>2, <1>4, <2>4
<1> QED
  BY <1>2, <1>3, <1>4

LEMMA HasAddedNext ==
  ASSUME NEW s, IsScoreMap(s), NEW list \in Distinct, NEW k \in 0..(Len(list) - 1),
         NEW r, HasAdded(s, list, k, r)
  PROVE  HasAdded(s, list, k + 1, AddScore(r, Hit(list, k + 1)))
<1> DEFINE h == Hit(list, k + 1)
           q == AddScore(r, h)
           n == list[k + 1]
<1>1. /\ Len(list) \in Nat /\ k \in Nat /\ k + 1 \in 1..Len(list)
      /\ h \in Scored /\ n \in Stored /\ h.chunk = n /\ h.score = RrfScore(k + 1) /\ h.score \in Nat
  <2>1. Len(list) \in Nat
    BY DEF Distinct
  <2>2. k \in Nat /\ k + 1 \in 1..Len(list)
    BY <2>1
  <2> QED
    BY <2>1, <2>2, HitScored
<1>2. IsScoreMap(r)
  BY DEF HasAdded
<1>3. /\ IsScoreMap(q) /\ DOMAIN r \subseteq DOMAIN q /\ ChunksIn(q) = ChunksIn(r) \cup {n}
      /\ \A i \in DOMAIN r :
           /\ q[i].chunk = r[i].chunk
           /\ q[i].score = r[i].score + (IF r[i].chunk = n THEN h.score ELSE 0)
      /\ \A i \in (DOMAIN q) \ (DOMAIN r) : q[i] = h /\ n \notin ChunksIn(r)
  BY <1>1, <1>2, AddScoreIs
<1>4. \A m : /\ RankAmong(list, k + 1, m)
                  = RankAmong(list, k, m) + (IF m = n THEN h.score ELSE 0)
             /\ RankAmong(list, k, m) \in Nat
  BY <1>1, RankAmongNext
<1>5. {list[i] : i \in 1..(k + 1)} = {list[i] : i \in 1..k} \cup {n}
  <2>1. \A i \in 1..(k + 1) : i \in 1..k \/ i = k + 1
    BY <1>1
  <2>2. 1..k \subseteq 1..(k + 1) /\ k + 1 \in 1..(k + 1)
    BY <1>1
  <2> QED
    BY <2>1, <2>2
<1>6. \A i \in DOMAIN s : s[i].score \in Nat
  <2>1. \A i \in DOMAIN s : s[i] \in Scored
    BY DEF IsScoreMap
  <2> QED
    BY <2>1 DEF Scored
<1> HIDE DEF h, q, n
<1>7. DOMAIN s \subseteq DOMAIN q /\ ChunksIn(q) = ChunksIn(s) \cup {list[i] : i \in 1..(k + 1)}
  BY <1>3, <1>5 DEF HasAdded
<1>8. ASSUME NEW i \in DOMAIN s
      PROVE  q[i].chunk = s[i].chunk /\ q[i].score = s[i].score + RankAmong(list, k + 1, s[i].chunk)
  <2>1. /\ i \in DOMAIN r /\ r[i].chunk = s[i].chunk
        /\ r[i].score = s[i].score + RankAmong(list, k, s[i].chunk)
    BY DEF HasAdded
  <2>2. q[i].chunk = s[i].chunk
    BY <1>3, <2>1
  <2>3. q[i].score = s[i].score + RankAmong(list, k, s[i].chunk)
                     + (IF s[i].chunk = n THEN h.score ELSE 0)
    BY <1>3, <2>1
  <2>4. /\ RankAmong(list, k + 1, s[i].chunk)
             = RankAmong(list, k, s[i].chunk) + (IF s[i].chunk = n THEN h.score ELSE 0)
        /\ RankAmong(list, k, s[i].chunk) \in Nat
    BY <1>4
  <2>5. (IF s[i].chunk = n THEN h.score ELSE 0) \in Nat
    BY <1>1 DEF h
  <2> QED
    BY <1>6, <2>2, <2>3, <2>4, <2>5
<1>9. ASSUME NEW i \in (DOMAIN q) \ (DOMAIN s)
      PROVE  /\ q[i].chunk \in {list[j] : j \in 1..(k + 1)} /\ q[i].chunk \notin ChunksIn(s)
             /\ q[i].score = RankAmong(list, k + 1, q[i].chunk)
  <2>1. CASE i \in DOMAIN r
    <3>1. /\ r[i].chunk \in {list[j] : j \in 1..k} /\ r[i].chunk \notin ChunksIn(s)
          /\ r[i].score = RankAmong(list, k, r[i].chunk)
      BY <2>1 DEF HasAdded
    <3>2. /\ q[i].chunk = r[i].chunk
          /\ q[i].score = r[i].score + (IF r[i].chunk = n THEN h.score ELSE 0)
      BY <1>3, <2>1
    <3>3. RankAmong(list, k + 1, r[i].chunk)
            = RankAmong(list, k, r[i].chunk) + (IF r[i].chunk = n THEN h.score ELSE 0)
      BY <1>4
    <3>4. q[i].score = RankAmong(list, k + 1, q[i].chunk)
      BY <3>1, <3>2, <3>3
    <3> QED
      BY <1>5, <3>1, <3>2, <3>4
  <2>2. CASE i \notin DOMAIN r
    <3>1. q[i] = h /\ n \notin ChunksIn(r)
      BY <1>3, <2>2
    <3>2. h.chunk = n
      BY <1>1 DEF h, n
    <3>3. n \notin ChunksIn(s) /\ n \notin {list[j] : j \in 1..k}
      BY <3>1 DEF HasAdded
    <3>4. RankAmong(list, k, n) = 0
      BY <3>3 DEF RankAmong
    <3>5. RankAmong(list, k + 1, n) = h.score
      BY <1>1, <1>4, <3>4 DEF h
    <3> QED
      BY <1>5, <3>1, <3>2, <3>3, <3>5
  <2> QED
    BY <2>1, <2>2
<1> QED
  BY <1>3, <1>7, <1>8, <1>9 DEF HasAdded, h, q

\* What a list adds.
LEMMA AddHitsIs ==
  ASSUME NEW s, IsScoreMap(s), NEW list \in Distinct
  PROVE  LET r == AddHits(s, list) IN
         /\ IsScoreMap(r)
         /\ DOMAIN s \subseteq DOMAIN r
         /\ ChunksIn(r) = ChunksIn(s) \cup ToSet(list)
         /\ \A i \in DOMAIN s :
              /\ r[i].chunk = s[i].chunk
              /\ r[i].score = s[i].score + ReciprocalRank(list, s[i].chunk)
         /\ \A i \in (DOMAIN r) \ (DOMAIN s) :
              /\ r[i].chunk \in ToSet(list) /\ r[i].chunk \notin ChunksIn(s)
              /\ r[i].score = ReciprocalRank(list, r[i].chunk)
<1> DEFINE m == Len(list)
<1>1. m \in Nat /\ DOMAIN list = 1..m
  BY DEF Distinct
<1>2. PICK after :
        /\ AddHits(s, list) = after[m] /\ after[0] = s
        /\ \A i \in 1..m : after[i] = AddScore(after[i - 1], Hit(list, i))
  BY AddHitsRounds
<1> DEFINE S == {k \in Nat : HasAdded(s, list, k, after[k])}
<1>3. 0 \in S
  <2>1. \A n : RankAmong(list, 0, n) = 0
    BY DEF RankAmong
  <2>2. \A i \in DOMAIN s : s[i].score + 0 = s[i].score
    <3>1. \A i \in DOMAIN s : s[i] \in Scored
      BY DEF IsScoreMap
    <3> QED
      BY <3>1 DEF Scored
  <2>3. {list[i] : i \in 1..0} = {}
    OBVIOUS
  <2>4. HasAdded(s, list, 0, s)
    BY <2>1, <2>2, <2>3 DEF HasAdded
  <2> QED
    BY <1>2, <2>4
<1>4. ASSUME NEW k \in 0..(m - 1), k \in S PROVE k + 1 \in S
  <2>1. k + 1 \in 1..m /\ k + 1 - 1 = k /\ k \in Nat /\ k + 1 \in Nat
    BY <1>1
  <2>2. after[k + 1] = AddScore(after[k], Hit(list, k + 1))
    BY <1>2, <2>1
  <2>3. HasAdded(s, list, k + 1, AddScore(after[k], Hit(list, k + 1)))
    BY <1>4, HasAddedNext
  <2> QED
    BY <2>1, <2>2, <2>3
<1>5. HasAdded(s, list, m, after[m])
  <2> HIDE DEF S
  <2>1. \A k \in 0..m : k \in S
    BY <1>1, <1>3, <1>4, CountUp
  <2> QED
    BY <1>1, <2>1 DEF S
<1>6. {list[i] : i \in 1..m} = ToSet(list)
  BY <1>1 DEF ToSet
<1>7. \A n : RankAmong(list, m, n) = ReciprocalRank(list, n)
  BY <1>1 DEF RankAmong, ReciprocalRank, ToSet
<1> QED
  BY <1>2, <1>5, <1>6, <1>7 DEF HasAdded

\* The lists are fused one after the other.
LEMMA ScoreMapRounds ==
  ASSUME NEW lists \in Seq(Distinct)
  PROVE  \E after :
           /\ ScoreMap(lists) = after[Len(lists)]
           /\ after[0] = <<>>
           /\ \A l \in 1..Len(lists) : after[l] = AddHits(after[l - 1], lists[l])
<1> DEFINE m == Len(lists)
           Map == {t \in Seq(Scored) : IsScoreMap(t)}
           step == [l \in 1..m |-> [t \in Map |-> AddHits(t, lists[l])]]
<1>1. m \in Nat /\ <<>> \in Map /\ \A l \in 1..m : lists[l] \in Distinct
  BY DEF IsScoreMap
<1>2. \A l \in 1..m : \A t \in Map : AddHits(t, lists[l]) \in Map
  BY <1>1, AddHitsIs DEF IsScoreMap
<1>3. step \in [1..m -> [Map -> Map]]
  BY <1>2
<1>4. PICK f \in [0..m -> Map] : f[0] = <<>> /\ \A l \in 1..m : f[l] = step[l][f[l - 1]]
  <2>1. IsLoop(Map, <<>>, m, step)
    BY <1>1, <1>3 DEF IsLoop
  <2> HIDE DEF step, Map, m
  <2> QED
    BY <2>1, Rounds DEF HasHistory
<1>5. f = [l \in 0..m |-> IF l = 0 THEN <<>> ELSE AddHits(f[l - 1], lists[l])]
  <2>1. ASSUME NEW l \in 1..m PROVE f[l] = AddHits(f[l - 1], lists[l])
    <3>1. l - 1 \in 0..m
      BY <1>1
    <3>2. f[l - 1] \in Map
      BY <1>4, <3>1
    <3> QED
      BY <1>4, <3>2
  <2>4. ASSUME NEW l \in 0..m PROVE f[l] = IF l = 0 THEN <<>> ELSE AddHits(f[l - 1], lists[l])
    BY <1>1, <1>4, <2>1
  <2> HIDE DEF Map
  <2> QED
    BY <1>4, <2>4
<1>6. PICK g : /\ g = [l \in 0..m |-> IF l = 0 THEN <<>> ELSE AddHits(g[l - 1], lists[l])]
               /\ ScoreMap(lists) = g[m]
  BY <1>5 DEF ScoreMap
<1>7. \A l \in 0..m : g[l] = IF l = 0 THEN <<>> ELSE AddHits(g[l - 1], lists[l])
  BY <1>6, Zenon
<1>8. g[0] = <<>> /\ \A l \in 1..m : g[l] = AddHits(g[l - 1], lists[l])
  BY <1>1, <1>7
<1> QED
  BY <1>6, <1>8

\* The sum that defines the score of a chunk.
LEMMA SumRounds ==
  ASSUME NEW lists \in Seq(Distinct), NEW n
  PROVE  \E sum :
           /\ ReciprocalRanks(lists, n) = sum[Len(lists)]
           /\ sum[0] = 0
           /\ \A l \in 1..Len(lists) : sum[l] = sum[l - 1] + ReciprocalRank(lists[l], n)
<1> DEFINE m == Len(lists)
           step == [l \in 1..m |-> [t \in Nat |-> t + ReciprocalRank(lists[l], n)]]
<1>1. m \in Nat /\ \A l \in 1..m : ReciprocalRank(lists[l], n) \in Nat
  BY RankNat
<1>2. step \in [1..m -> [Nat -> Nat]]
  BY <1>1
<1>3. PICK f \in [0..m -> Nat] : f[0] = 0 /\ \A l \in 1..m : f[l] = step[l][f[l - 1]]
  <2>1. IsLoop(Nat, 0, m, step)
    BY <1>1, <1>2 DEF IsLoop
  <2> HIDE DEF step, m
  <2> QED
    BY <2>1, Rounds DEF HasHistory
<1>4. f = [l \in 0..m |-> IF l = 0 THEN 0 ELSE f[l - 1] + ReciprocalRank(lists[l], n)]
  <2>1. ASSUME NEW l \in 1..m PROVE f[l] = f[l - 1] + ReciprocalRank(lists[l], n)
    <3>1. l - 1 \in 0..m
      BY <1>1
    <3>2. f[l - 1] \in Nat
      BY <1>3, <3>1
    <3> QED
      BY <1>3, <3>2
  <2>4. ASSUME NEW l \in 0..m
        PROVE f[l] = IF l = 0 THEN 0 ELSE f[l - 1] + ReciprocalRank(lists[l], n)
    BY <1>1, <1>3, <2>1
  <2> QED
    BY <1>3, <2>4
<1>5. PICK g : /\ g = [l \in 0..m |-> IF l = 0 THEN 0 ELSE g[l - 1] + ReciprocalRank(lists[l], n)]
               /\ ReciprocalRanks(lists, n) = g[m]
  BY <1>4 DEF ReciprocalRanks
<1>6. \A l \in 0..m : g[l] = IF l = 0 THEN 0 ELSE g[l - 1] + ReciprocalRank(lists[l], n)
  BY <1>5, Zenon
<1>7. g[0] = 0 /\ \A l \in 1..m : g[l] = g[l - 1] + ReciprocalRank(lists[l], n)
  BY <1>1, <1>6
<1> QED
  BY <1>5, <1>7

\* The first list that has chunk n.
FirstList(lists, n) == Min({l \in DOMAIN lists : n \in ToSet(lists[l])})

LEMMA FirstListIs ==
  ASSUME NEW lists \in Seq(Distinct), NEW n, NEW l \in DOMAIN lists, n \in ToSet(lists[l])
  PROVE  /\ FirstList(lists, n) \in DOMAIN lists /\ FirstList(lists, n) \in Nat
         /\ n \in ToSet(lists[FirstList(lists, n)])
         /\ FirstList(lists, n) <= l
<1> DEFINE S == {k \in DOMAIN lists : n \in ToSet(lists[k])}
<1>1. DOMAIN lists = 1..Len(lists) /\ Len(lists) \in Nat
  OBVIOUS
<1>2. S \subseteq Nat /\ l \in S
  BY <1>1
<1>3. Min(S) \in S /\ Min(S) <= l
  BY <1>2, MinIs
<1> QED
  BY <1>1, <1>3 DEF FirstList

\* What the map has after the first l lists.
HasFused(lists, l, r) ==
  /\ IsScoreMap(r)
  /\ \A n : n \in ChunksIn(r) <=> \E k \in 1..l : n \in ToSet(lists[k])
  /\ \A i, j \in DOMAIN r :
       i < j => FirstList(lists, r[i].chunk) <= FirstList(lists, r[j].chunk)

LEMMA HasFusedNext ==
  ASSUME NEW lists \in Seq(Distinct), NEW l \in 0..(Len(lists) - 1), NEW r, HasFused(lists, l, r)
  PROVE  HasFused(lists, l + 1, AddHits(r, lists[l + 1]))
<1> DEFINE list == lists[l + 1]
           q == AddHits(r, list)
<1>1. /\ Len(lists) \in Nat /\ l \in Nat /\ l + 1 \in 1..Len(lists) /\ DOMAIN lists = 1..Len(lists)
      /\ list \in Distinct
  OBVIOUS
<1>2. IsScoreMap(r)
  BY DEF HasFused
<1>3. /\ IsScoreMap(q) /\ DOMAIN r \subseteq DOMAIN q
      /\ ChunksIn(q) = ChunksIn(r) \cup ToSet(list)
      /\ \A i \in DOMAIN r : q[i].chunk = r[i].chunk
      /\ \A i \in (DOMAIN q) \ (DOMAIN r) :
           q[i].chunk \in ToSet(list) /\ q[i].chunk \notin ChunksIn(r)
  BY <1>1, <1>2, AddHitsIs
<1>4. \A k \in 1..(l + 1) : k \in 1..l \/ k = l + 1
  BY <1>1
<1>5. 1..l \subseteq 1..(l + 1) /\ l + 1 \in 1..(l + 1) /\ 1..l \subseteq DOMAIN lists
  BY <1>1
<1> HIDE DEF q
<1>6. \A n : n \in ChunksIn(q) <=> \E k \in 1..(l + 1) : n \in ToSet(lists[k])
  BY <1>3, <1>4, <1>5 DEF HasFused
\* What is new is in no earlier list, what is old in one of them.
<1>7. ASSUME NEW i \in (DOMAIN q) \ (DOMAIN r) PROVE FirstList(lists, q[i].chunk) = l + 1
  <2> DEFINE n == q[i].chunk
             f == FirstList(lists, n)
  <2>1. n \in ToSet(lists[l + 1]) /\ n \notin ChunksIn(r)
    BY <1>3
  <2>2. f \in DOMAIN lists /\ f \in Nat /\ n \in ToSet(lists[f]) /\ f <= l + 1
    BY <1>1, <2>1, FirstListIs
  <2>3. f \notin 1..l
    BY <2>1, <2>2 DEF HasFused
  <2> QED
    BY <1>1, <2>2, <2>3
<1>8. ASSUME NEW i \in DOMAIN r
      PROVE  FirstList(lists, q[i].chunk) = FirstList(lists, r[i].chunk)
             /\ FirstList(lists, r[i].chunk) <= l /\ FirstList(lists, r[i].chunk) \in Nat
  <2>1. r[i].chunk \in ChunksIn(r)
    BY DEF ChunksIn
  <2>2. PICK k \in 1..l : r[i].chunk \in ToSet(lists[k])
    BY <2>1 DEF HasFused
  <2>3. k \in DOMAIN lists /\ k \in Nat /\ k <= l
    BY <1>1, <1>5
  <2>4. FirstList(lists, r[i].chunk) \in Nat /\ FirstList(lists, r[i].chunk) <= k
    BY <2>2, <2>3, FirstListIs
  <2>5. FirstList(lists, r[i].chunk) <= l
    BY <1>1, <2>3, <2>4
  <2> QED
    BY <1>3, <2>4, <2>5
<1>9. ASSUME NEW i \in DOMAIN q, NEW j \in DOMAIN q, i < j
      PROVE  FirstList(lists, q[i].chunk) <= FirstList(lists, q[j].chunk)
  <2>1. DOMAIN r = 1..Len(r) /\ DOMAIN q = 1..Len(q) /\ Len(r) \in Nat /\ Len(q) \in Nat
    BY <1>2, <1>3 DEF IsScoreMap
  <2>2. CASE j \in DOMAIN r
    <3>1. i \in DOMAIN r
      BY <1>9, <2>1, <2>2
    <3> QED
      BY <1>8, <1>9, <2>2, <3>1 DEF HasFused
  <2>3. CASE j \notin DOMAIN r /\ i \in DOMAIN r
    <3>1. FirstList(lists, q[j].chunk) = l + 1
      BY <1>7, <2>3
    <3>2. /\ FirstList(lists, q[i].chunk) = FirstList(lists, r[i].chunk)
          /\ FirstList(lists, r[i].chunk) <= l /\ FirstList(lists, r[i].chunk) \in Nat
      BY <1>8, <2>3
    <3> QED
      BY <1>1, <3>1, <3>2
  <2>4. CASE j \notin DOMAIN r /\ i \notin DOMAIN r
    BY <1>1, <1>7, <2>4
  <2> QED
    BY <2>2, <2>3, <2>4
<1> QED
  BY <1>3, <1>6, <1>9 DEF HasFused, q

\* The map that the lists make.
LEMMA ScoreMapIs ==
  ASSUME NEW lists \in Seq(Distinct)
  PROVE  HasFused(lists, Len(lists), ScoreMap(lists))
<1> DEFINE m == Len(lists)
<1>1. m \in Nat
  OBVIOUS
<1>2. PICK after :
        /\ ScoreMap(lists) = after[m] /\ after[0] = <<>>
        /\ \A l \in 1..m : after[l] = AddHits(after[l - 1], lists[l])
  BY ScoreMapRounds
<1> DEFINE S == {l \in Nat : HasFused(lists, l, after[l])}
<1>3. 0 \in S
  <2>1. HasFused(lists, 0, <<>>)
    BY DEF HasFused, IsScoreMap, ChunksIn
  <2> QED
    BY <1>2, <2>1
<1>4. ASSUME NEW l \in 0..(m - 1), l \in S PROVE l + 1 \in S
  <2>1. l + 1 \in 1..m /\ l + 1 - 1 = l /\ l + 1 \in Nat
    BY <1>1
  <2>2. after[l + 1] = AddHits(after[l], lists[l + 1])
    BY <1>2, <2>1
  <2>3. HasFused(lists, l + 1, AddHits(after[l], lists[l + 1]))
    BY <1>4, HasFusedNext
  <2> QED
    BY <2>1, <2>2, <2>3
<1> HIDE DEF S
<1>5. \A l \in 0..m : l \in S
  BY <1>1, <1>3, <1>4, CountUp
<1>6. HasFused(lists, m, after[m])
  BY <1>1, <1>5 DEF S
<1> QED
  BY <1>2, <1>6

\* The score of a chunk is the sum of its reciprocal ranks.
LEMMA ScoreIsSum ==
  ASSUME NEW lists \in Seq(Distinct), NEW i \in DOMAIN ScoreMap(lists)
  PROVE  ScoreMap(lists)[i].score = ReciprocalRanks(lists, ScoreMap(lists)[i].chunk)
<1> DEFINE m == Len(lists)
           n == ScoreMap(lists)[i].chunk
<1>1. m \in Nat /\ \A l \in 1..m : lists[l] \in Distinct
  OBVIOUS
<1>2. PICK after :
        /\ ScoreMap(lists) = after[m] /\ after[0] = <<>>
        /\ \A l \in 1..m : after[l] = AddHits(after[l - 1], lists[l])
  BY ScoreMapRounds
<1>3. PICK sum :
        /\ ReciprocalRanks(lists, n) = sum[m] /\ sum[0] = 0
        /\ \A l \in 1..m : sum[l] = sum[l - 1] + ReciprocalRank(lists[l], n)
  BY SumRounds
<1> HIDE DEF n
<1> DEFINE Summed(l) ==
             /\ IsScoreMap(after[l]) /\ sum[l] \in Nat
             /\ \A j \in DOMAIN after[l] : after[l][j].chunk = n => after[l][j].score = sum[l]
             /\ n \notin ChunksIn(after[l]) => sum[l] = 0
           S == {l \in Nat : Summed(l)}
<1>4. 0 \in S
  <2>1. IsScoreMap(<<>>) /\ DOMAIN <<>> = {}
    BY DEF IsScoreMap
  <2>2. Summed(0)
    BY <1>2, <1>3, <2>1
  <2> QED
    BY <2>2
<1>5. ASSUME NEW l \in 0..(m - 1), l \in S PROVE l + 1 \in S
  <2> DEFINE r == after[l]
             q == after[l + 1]
             list == lists[l + 1]
  <2>1. l + 1 \in 1..m /\ l + 1 - 1 = l /\ l + 1 \in Nat /\ list \in Distinct
    BY <1>1
  <2>2. q = AddHits(r, list) /\ sum[l + 1] = sum[l] + ReciprocalRank(list, n)
    BY <1>2, <1>3, <2>1
  <2>3. IsScoreMap(r) /\ sum[l] \in Nat /\ ReciprocalRank(list, n) \in Nat
    BY <1>5, <2>1, RankNat
  <2>4. /\ IsScoreMap(q) /\ DOMAIN r \subseteq DOMAIN q
        /\ ChunksIn(q) = ChunksIn(r) \cup ToSet(list)
        /\ \A j \in DOMAIN r :
             /\ q[j].chunk = r[j].chunk
             /\ q[j].score = r[j].score + ReciprocalRank(list, r[j].chunk)
        /\ \A j \in (DOMAIN q) \ (DOMAIN r) :
             q[j].chunk \notin ChunksIn(r) /\ q[j].score = ReciprocalRank(list, q[j].chunk)
    <3>1. q = AddHits(r, list) /\ IsScoreMap(r) /\ list \in Distinct
      BY <2>1, <2>2, <2>3
    <3> HIDE DEF q, r, list
    <3> QED
      BY <3>1, AddHitsIs
  <2>5. sum[l + 1] \in Nat
    BY <2>2, <2>3
  <2>6. ASSUME NEW j \in DOMAIN q, q[j].chunk = n PROVE q[j].score = sum[l + 1]
    <3>1. CASE j \in DOMAIN r
      <4>1. r[j].chunk = n
        BY <2>4, <2>6, <3>1
      <4>2. r[j].score = sum[l]
        BY <1>5, <3>1, <4>1
      <4> QED
        BY <2>2, <2>4, <3>1, <4>1, <4>2
    <3>2. CASE j \notin DOMAIN r
      <4>1. n \notin ChunksIn(r) /\ q[j].score = ReciprocalRank(list, n)
        BY <2>4, <2>6, <3>2
      <4>2. sum[l] = 0
        BY <1>5, <4>1
      <4> QED
        BY <2>2, <2>3, <4>1, <4>2
    <3> QED
      BY <3>1, <3>2
  <2>7. ASSUME n \notin ChunksIn(q) PROVE sum[l + 1] = 0
    <3>1. n \notin ChunksIn(r) /\ n \notin ToSet(list)
      BY <2>4, <2>7
    <3>2. sum[l] = 0 /\ ReciprocalRank(list, n) = 0
      BY <1>5, <3>1 DEF ReciprocalRank
    <3> QED
      BY <2>2, <3>2
  <2>8. Summed(l + 1)
    BY <2>4, <2>5, <2>6, <2>7
  <2> HIDE DEF Summed
  <2> QED
    BY <2>1, <2>8
<1> HIDE DEF S
<1>6. \A l \in 0..m : l \in S
  BY <1>1, <1>4, <1>5, CountUp
<1>7. Summed(m)
  BY <1>1, <1>6 DEF S
<1>8. i \in DOMAIN after[m] /\ after[m][i].chunk = n
  BY <1>2 DEF n
<1> QED
  BY <1>2, <1>3, <1>7, <1>8 DEF n

LEMMA ByScoreOrders == ASSUME NEW s, IsScoreMap(s) PROVE Orders(ByScore(s), DOMAIN s)
<1>1. \A i \in DOMAIN s : s[i].score \in Nat /\ i \in Nat
  <2>1. s \in Seq(Scored) /\ DOMAIN s = 1..Len(s)
    BY DEF IsScoreMap
  <2>2. \A i \in DOMAIN s : s[i] \in Scored /\ i \in Nat
    BY <2>1
  <2> QED
    BY <2>2 DEF Scored
<1>2. \A x, y \in DOMAIN s :
        <<x, y>> \in ByScore(s) <=>
          s[x].score > s[y].score \/ (s[x].score = s[y].score /\ x < y)
  BY DEF ByScore
<1>3. ASSUME NEW x \in DOMAIN s, NEW y \in DOMAIN s
      PROVE  x = y \/ <<x, y>> \in ByScore(s) \/ <<y, x>> \in ByScore(s)
  <2>1. \/ s[x].score > s[y].score \/ s[y].score > s[x].score
        \/ s[x].score = s[y].score /\ (x < y \/ y < x \/ x = y)
    BY <1>1
  <2> QED
    BY <1>2, <2>1
<1>4. \A x, y, z \in DOMAIN s :
        <<x, y>> \in ByScore(s) /\ <<y, z>> \in ByScore(s) => <<x, z>> \in ByScore(s)
  BY <1>1, <1>2
<1> QED
  BY <1>3, <1>4 DEF Orders

\* A bijection from 1..n is a list of its range, none twice.
LEMMA BijectionIsList ==
  ASSUME NEW S, NEW n \in Nat, NEW s \in Bijection(1..n, S)
  PROVE  /\ s \in Seq(S) /\ Len(s) = n /\ DOMAIN s = 1..n
         /\ IsInjective(s)
         /\ ToSet(s) = S
<1>1. /\ s \in [1..n -> S]
      /\ \A i, j \in 1..n : s[i] = s[j] => i = j
      /\ \A y \in S : \E i \in 1..n : s[i] = y
  BY DEF Bijection, Injection, Surjection, IsInjective
<1>2. s \in Seq(S) /\ Len(s) = n /\ DOMAIN s = 1..n
  BY <1>1
<1> QED
  BY <1>1, <1>2 DEF IsInjective, ToSet

\* What the fusion of lists is.
LEMMA FuseIs ==
  ASSUME NEW lists \in Seq(Distinct)
  PROVE  LET c == Fuse(lists) IN
         /\ c \in Distinct
         /\ ToSet(c) = UNION {ToSet(lists[l]) : l \in DOMAIN lists}
         /\ \A i, j \in DOMAIN c : i < j =>
              LET m == ReciprocalRanks(lists, c[i])
                  n == ReciprocalRanks(lists, c[j])
              IN  m > n \/ (m = n /\ FirstList(lists, c[i]) <= FirstList(lists, c[j]))
<1> DEFINE s == ScoreMap(lists)
           k == Cardinality(DOMAIN s)
           order == Ordered(DOMAIN s, ByScore(s))
           c == [i \in DOMAIN order |-> s[order[i]].chunk]
<1>1. Fuse(lists) = c
  BY DEF Fuse
<1>2. HasFused(lists, Len(lists), s)
  BY ScoreMapIs
<1>3. IsScoreMap(s) /\ s \in Seq(Scored) /\ DOMAIN s = 1..Len(s) /\ Len(s) \in Nat
  BY <1>2 DEF HasFused, IsScoreMap
<1>4. \A i \in DOMAIN s : s[i] \in Scored /\ s[i].chunk \in Stored /\ s[i].score \in Nat
  <2>1. \A i \in DOMAIN s : s[i] \in Scored
    BY <1>3
  <2> QED
    BY <2>1 DEF Scored
<1>5. IsFiniteSet(DOMAIN s)
  BY <1>3, FS_Interval
<1>6. /\ k \in Nat /\ order \in Bijection(1..k, DOMAIN s)
      /\ \A i, j \in DOMAIN order : i < j => <<order[i], order[j]>> \in ByScore(s)
  <2> HIDE DEF s
  <2> QED
    BY <1>3, <1>5, ByScoreOrders, OrderedIs
<1> HIDE DEF s, k
<1>7. /\ order \in Seq(DOMAIN s) /\ DOMAIN order = 1..k /\ IsInjective(order)
      /\ ToSet(order) = DOMAIN s
  <2> HIDE DEF order
  <2> QED
    BY <1>6, BijectionIsList
<1> HIDE DEF order
<1>8. \A i \in 1..k : order[i] \in DOMAIN s /\ c[i] = s[order[i]].chunk
  <2>1. \A i \in 1..k : order[i] \in DOMAIN s
    BY <1>7 DEF ToSet
  <2>2. \A i \in DOMAIN order : c[i] = s[order[i]].chunk
    OBVIOUS
  <2> QED
    BY <1>7, <2>1, <2>2
<1>9. DOMAIN c = 1..k
  BY <1>7
<1> HIDE DEF c
<1>10. c \in Distinct
  <2>1. \A i \in 1..k : c[i] \in Stored
    BY <1>4, <1>8
  <2>2. c \in [1..k -> Stored]
    BY <1>7, <2>1, <1>8 DEF c
  <2>3. c \in Seq(Stored)
    BY <1>6, <2>2
  <2>4. ASSUME NEW i \in DOMAIN c, NEW j \in DOMAIN c, c[i] = c[j] PROVE i = j
    <3>1. s[order[i]].chunk = s[order[j]].chunk /\ order[i] \in DOMAIN s /\ order[j] \in DOMAIN s
      BY <1>8, <1>9, <2>4
    <3>2. order[i] = order[j]
      BY <1>3, <3>1 DEF IsScoreMap
    <3> QED
      BY <1>7, <1>9, <2>4, <3>2 DEF IsInjective
  <2> QED
    BY <2>3, <2>4 DEF Distinct, IsInjective
<1>11. ToSet(c) = ChunksIn(s)
  <2>1. \A j \in DOMAIN s : \E i \in 1..k : order[i] = j
    BY <1>7 DEF ToSet
  <2> QED
    BY <1>8, <1>9, <2>1 DEF ToSet, ChunksIn
<1>12. ToSet(c) = UNION {ToSet(lists[l]) : l \in DOMAIN lists}
  <2>1. DOMAIN lists = 1..Len(lists)
    OBVIOUS
  <2>2. \A n : n \in ChunksIn(s) <=> \E l \in 1..Len(lists) : n \in ToSet(lists[l])
    BY <1>2 DEF HasFused
  <2> QED
    BY <1>11, <2>1, <2>2
<1>13. ASSUME NEW i \in DOMAIN c, NEW j \in DOMAIN c, i < j
       PROVE  LET m == ReciprocalRanks(lists, c[i])
                  n == ReciprocalRanks(lists, c[j])
              IN  m > n \/ (m = n /\ FirstList(lists, c[i]) <= FirstList(lists, c[j]))
  <2> DEFINE a == order[i]
             b == order[j]
  <2>1. /\ a \in DOMAIN s /\ b \in DOMAIN s /\ c[i] = s[a].chunk /\ c[j] = s[b].chunk
    BY <1>8, <1>9
  <2>2. <<a, b>> \in ByScore(s)
    BY <1>6, <1>7, <1>9, <1>13
  <2>3. s[a].score > s[b].score \/ (s[a].score = s[b].score /\ a < b)
    BY <2>2 DEF ByScore
  <2>4. \A x \in DOMAIN s : s[x].score = ReciprocalRanks(lists, s[x].chunk)
    BY ScoreIsSum DEF s
  <2>5. a < b => FirstList(lists, s[a].chunk) <= FirstList(lists, s[b].chunk)
    BY <1>2, <2>1 DEF HasFused
  <2> QED
    BY <2>1, <2>3, <2>4, <2>5
<1> QED
  BY <1>1, <1>10, <1>12, <1>13

-----------------------------------------------------------------------------
(* The first elements of a list                                            *)

LEMMA TakeIsList ==
  ASSUME NEW c \in Distinct, NEW n \in Nat
  PROVE  Take(c, n) \in Distinct /\ Len(Take(c, n)) \in Nat /\ ToSet(Take(c, n)) \subseteq ToSet(c)
<1>1. c \in Seq(Stored) /\ Len(c) \in Nat /\ DOMAIN c = 1..Len(c)
      /\ \A i, j \in 1..Len(c) : c[i] = c[j] => i = j
  BY DEF Distinct, IsInjective
<1>2. CASE Len(c) <= n
  BY <1>1, <1>2 DEF Take
<1>3. CASE ~(Len(c) <= n)
  <2> DEFINE t == SubSeq(c, 1, n)
  <2>1. t \in Seq(Stored) /\ Len(t) = n /\ DOMAIN t = 1..n /\ \A i \in 1..n : t[i] = c[i] /\ i \in 1..Len(c)
    BY <1>1, <1>3
  <2>2. Take(c, n) = t
    BY <1>3 DEF Take
  <2> HIDE DEF t
  <2>3. t \in Distinct
    BY <1>1, <2>1 DEF Distinct, IsInjective
  <2>4. ToSet(t) \subseteq ToSet(c)
    BY <1>1, <2>1 DEF ToSet
  <2> QED
    BY <2>1, <2>2, <2>3, <2>4
<1> QED
  BY <1>2, <1>3

-----------------------------------------------------------------------------
(* The siblings of the hits                                                *)

\* The chunks beside n under its parent.
Near(n) == {s \in Stored : Adjacent(s, n) /\ Parent[n] # "none" /\ Parent[s] = Parent[n]}

Rising == {p \in Stored \X Stored : p[1] < p[2]}

LEMMA RisingOrders == ASSUME NEW S \in SUBSET Stored PROVE Orders(Rising, S)
<1>1. Stored \subseteq Nat
  BY SearchAssumption DEF Stored
<1>2. \A x, y \in S : x \in Nat /\ y \in Nat /\ (<<x, y>> \in Rising <=> x < y)
  BY <1>1 DEF Rising
<1> QED
  BY <1>2 DEF Orders

LEMMA ExpandIs ==
  ASSUME NEW hits \in Distinct, NEW stored \in SUBSET Stored
  PROVE  LET c == ExpandWithSiblings(hits, stored) IN
         /\ c \in Distinct
         /\ IsPrefix(hits, c)
         /\ \A i \in DOMAIN c : i > Len(hits) => \E n \in ToSet(hits) : c[i] \in Near(n)
         /\ \A i \in DOMAIN hits : \A s \in Near(hits[i]) \cap stored :
              \/ s \in ToSet(c)
              \/ \E j \in DOMAIN hits : j > i /\ Parent[hits[j]] = Parent[hits[i]]
<1> DEFINE parents == {Parent[n] : n \in ToSet(hits)} \ {"none"}
           Sibling(s) == /\ Parent[s] \in parents
                         /\ Adjacent(s, hits[HitIndex(hits, Parent[s])])
           siblings == {s \in stored \ ToSet(hits) : Sibling(s)}
           rest == Ordered(siblings, Rising)
           c == hits \o rest
           k == Cardinality(siblings)
<1>1. ExpandWithSiblings(hits, stored) = c
  BY DEF ExpandWithSiblings, Rising
<1>2. /\ hits \in Seq(Stored) /\ Len(hits) \in Nat /\ DOMAIN hits = 1..Len(hits)
      /\ \A i, j \in 1..Len(hits) : hits[i] = hits[j] => i = j
      /\ \A i \in DOMAIN hits : hits[i] \in Stored /\ i \in Nat
  BY DEF Distinct, IsInjective
<1>3. siblings \subseteq Stored /\ siblings \cap ToSet(hits) = {}
  OBVIOUS
<1>4. IsFiniteSet(siblings)
  <2>1. IsFiniteSet(Stored)
    BY SearchAssumption, FS_Interval DEF Stored
  <2> HIDE DEF siblings
  <2> QED
    BY <1>3, <2>1, FS_Subset
<1>5. \* The last hit under the parent of a chunk.
      ASSUME NEW s, Parent[s] \in parents
      PROVE  LET h == HitIndex(hits, Parent[s]) IN
             /\ h \in DOMAIN hits /\ Parent[hits[h]] = Parent[s]
             /\ \A i \in DOMAIN hits : Parent[hits[i]] = Parent[s] => i <= h
  <2> DEFINE I == {i \in DOMAIN hits : Parent[hits[i]] = Parent[s]}
  <2>1. PICK n \in ToSet(hits) : Parent[n] = Parent[s]
    BY <1>5
  <2>2. PICK i \in DOMAIN hits : hits[i] = n
    BY DEF ToSet
  <2>3. I \subseteq 1..Len(hits) /\ I # {}
    BY <1>2, <2>1, <2>2
  <2>4. Max(I) \in I /\ \A y \in I : y =< Max(I)
    BY <1>2, <2>3, MaxOfBounded
  <2>5. HitIndex(hits, Parent[s]) = Max(I)
    BY DEF HitIndex
  <2> QED
    BY <2>4, <2>5
<1> HIDE DEF parents
<1>6. \A s \in siblings : \E n \in ToSet(hits) : s \in Near(n)
  <2> SUFFICES ASSUME NEW s \in siblings PROVE \E n \in ToSet(hits) : s \in Near(n)
    OBVIOUS
  <2> DEFINE h == HitIndex(hits, Parent[s])
  <2>1. Parent[s] \in parents /\ Adjacent(s, hits[h]) /\ s \in Stored
    BY <1>3
  <2>2. h \in DOMAIN hits /\ Parent[hits[h]] = Parent[s]
    BY <1>5, <2>1
  <2>3. Parent[s] # "none"
    BY <2>1 DEF parents
  <2>4. hits[h] \in ToSet(hits)
    BY <2>2 DEF ToSet
  <2> QED
    BY <2>1, <2>2, <2>3, <2>4 DEF Near
<1>7. /\ k \in Nat /\ rest \in Bijection(1..k, siblings)
  <2> HIDE DEF siblings
  <2> QED
    BY <1>3, <1>4, RisingOrders, OrderedIs
<1>8. rest \in Seq(siblings) /\ Len(rest) = k /\ DOMAIN rest = 1..k /\ IsInjective(rest)
      /\ ToSet(rest) = siblings
  <2> HIDE DEF siblings, rest, k
  <2> QED
    BY <1>7, BijectionIsList
<1>9. \A s : s \in siblings <=> s \in stored /\ s \notin ToSet(hits) /\ Sibling(s)
  OBVIOUS
<1> HIDE DEF siblings, rest, k, Sibling
<1>10. rest \in Seq(Stored) /\ \A i \in 1..k : rest[i] \in siblings
  BY <1>3, <1>7, <1>8 DEF ToSet
<1>11. /\ c \in Seq(Stored) /\ Len(c) = Len(hits) + k /\ DOMAIN c = 1..(Len(hits) + k)
       /\ \A i \in 1..Len(hits) : c[i] = hits[i]
       /\ \A i \in (Len(hits) + 1)..(Len(hits) + k) : c[i] = rest[i - Len(hits)]
  BY <1>2, <1>7, <1>8, <1>10
<1>12. \A i \in DOMAIN c : i \in 1..Len(hits) \/ i \in (Len(hits) + 1)..(Len(hits) + k)
  BY <1>2, <1>7, <1>11
<1>13. \A i \in 1..Len(hits) : i \in DOMAIN c /\ c[i] \in ToSet(hits)
  BY <1>2, <1>7, <1>11 DEF ToSet
<1>14. \A i \in (Len(hits) + 1)..(Len(hits) + k) :
         i - Len(hits) \in 1..k /\ c[i] \in siblings
  BY <1>2, <1>7, <1>10, <1>11
<1> HIDE DEF c
<1>15. c \in Distinct
  <2> SUFFICES ASSUME NEW i \in DOMAIN c, NEW j \in DOMAIN c, c[i] = c[j] PROVE i = j
    BY <1>11 DEF Distinct, IsInjective
  <2>1. CASE i \in 1..Len(hits) /\ j \in 1..Len(hits)
    BY <1>2, <1>11, <2>1
  <2>2. CASE i \in (Len(hits) + 1)..(Len(hits) + k) /\ j \in (Len(hits) + 1)..(Len(hits) + k)
    <3>1. i - Len(hits) \in DOMAIN rest /\ j - Len(hits) \in DOMAIN rest
      BY <1>8, <1>14, <2>2
    <3>2. i - Len(hits) = j - Len(hits)
      BY <1>8, <1>11, <2>2, <3>1 DEF IsInjective
    <3> QED
      BY <1>2, <2>2, <3>2
  <2> QED
    BY <1>3, <1>12, <1>13, <1>14, <2>1, <2>2
<1>16. IsPrefix(hits, c)
  <2>1. Len(hits) <= Len(c)
    BY <1>2, <1>7, <1>11
  <2>2. SubSeq(hits, 1, Len(hits)) = SubSeq(c, 1, Len(hits))
    BY <1>2, <1>7, <1>11, <2>1
  <2> QED
    BY <2>1, <2>2 DEF IsPrefix
<1>17. ASSUME NEW i \in DOMAIN c, i > Len(hits) PROVE \E n \in ToSet(hits) : c[i] \in Near(n)
  <2>1. i \in (Len(hits) + 1)..(Len(hits) + k)
    BY <1>2, <1>12, <1>17
  <2> QED
    BY <1>6, <1>14, <2>1
<1>18. ASSUME NEW i \in DOMAIN hits, NEW s \in Near(hits[i]) \cap stored
       PROVE  \/ s \in ToSet(c)
              \/ \E j \in DOMAIN hits : j > i /\ Parent[hits[j]] = Parent[hits[i]]
  <2> DEFINE h == HitIndex(hits, Parent[s])
  <2>1. s \in ToSet(hits) => s \in ToSet(c)
    BY <1>2, <1>11, <1>13 DEF ToSet
  <2>2. /\ Adjacent(s, hits[i]) /\ Parent[hits[i]] # "none" /\ Parent[s] = Parent[hits[i]]
        /\ hits[i] \in ToSet(hits)
    BY DEF Near, ToSet
  <2>3. Parent[s] \in parents
    BY <2>2 DEF parents
  <2>4. h \in DOMAIN hits /\ Parent[hits[h]] = Parent[s] /\ i <= h
    BY <1>5, <2>2, <2>3
  <2>5. CASE h = i /\ s \notin ToSet(hits)
    <3>1. s \in siblings
      BY <1>9, <2>2, <2>3, <2>5 DEF Sibling
    <3>2. PICK j \in 1..k : rest[j] = s
      BY <1>8, <3>1 DEF ToSet
    <3>3. j + Len(hits) \in (Len(hits) + 1)..(Len(hits) + k) /\ j + Len(hits) - Len(hits) = j
          /\ j + Len(hits) \in DOMAIN c
      BY <1>2, <1>7, <1>11
    <3>4. c[j + Len(hits)] = s
      BY <1>11, <3>2, <3>3
    <3> QED
      BY <3>3, <3>4 DEF ToSet
  <2>6. CASE h # i
    <3>1. h > i
      BY <1>2, <2>4, <2>6
    <3> QED
      BY <2>2, <2>4, <3>1
  <2> QED
    BY <2>1, <2>5, <2>6
<1> QED
  BY <1>1, <1>15, <1>16, <1>17, <1>18

\* The place of the first of the chunks with the parent of n.
FirstUnder(c, n) == Min({i \in DOMAIN c : ParentKey(c[i]) = ParentKey(n)})

LEMMA FirstUnderIs ==
  ASSUME NEW c \in Distinct, NEW n, NEW i \in DOMAIN c, ParentKey(c[i]) = ParentKey(n)
  PROVE  /\ FirstUnder(c, n) \in DOMAIN c /\ FirstUnder(c, n) \in Nat
         /\ ParentKey(c[FirstUnder(c, n)]) = ParentKey(n)
         /\ FirstUnder(c, n) <= i
<1> DEFINE S == {j \in DOMAIN c : ParentKey(c[j]) = ParentKey(n)}
<1>1. DOMAIN c = 1..Len(c) /\ Len(c) \in Nat
  BY DEF Distinct
<1>2. S \subseteq Nat /\ i \in S
  BY <1>1
<1>3. Min(S) \in S /\ Min(S) <= i
  BY <1>2, MinIs
<1> QED
  BY <1>1, <1>3 DEF FirstUnder

\* What is seen of the first k chunks.
HasSeen(c, k, r) ==
  /\ r \in Seq(Stored)
  /\ {ParentKey(c[i]) : i \in 1..k} = {ParentKey(r[j]) : j \in DOMAIN r}
  /\ \A j \in DOMAIN r : FirstUnder(c, r[j]) \in 1..k /\ c[FirstUnder(c, r[j])] = r[j]
  /\ \A i, j \in DOMAIN r : i < j => FirstUnder(c, r[i]) < FirstUnder(c, r[j])

LEMMA HasSeenNext ==
  ASSUME NEW c \in Distinct, NEW k \in 0..(Len(c) - 1), NEW r, HasSeen(c, k, r)
  PROVE  HasSeen(c, k + 1, AddParent(r, c[k + 1]))
<1> DEFINE n == c[k + 1]
           q == AddParent(r, n)
<1>1. /\ c \in Seq(Stored) /\ Len(c) \in Nat /\ DOMAIN c = 1..Len(c) /\ k \in Nat
      /\ k + 1 \in 1..Len(c) /\ k + 1 \in DOMAIN c
      /\ r \in Seq(Stored) /\ Len(r) \in Nat /\ DOMAIN r = 1..Len(r)
  BY DEF Distinct, HasSeen
<1>2. n \in Stored
  BY <1>1
<1>3. /\ \A i \in 1..(k + 1) : i \in 1..k \/ i = k + 1
      /\ \A i \in 1..k : i \in 1..(k + 1) /\ i # k + 1 /\ i < k + 1 /\ i \in Nat
      /\ k + 1 \in 1..(k + 1)
  BY <1>1
<1>4. {ParentKey(c[i]) : i \in 1..(k + 1)} = {ParentKey(c[i]) : i \in 1..k} \cup {ParentKey(n)}
  BY <1>3
<1> HIDE DEF n
<1>5. CASE \E i \in DOMAIN r : ParentKey(r[i]) = ParentKey(n)
  <2>1. q = r
    BY <1>5 DEF AddParent
  <2>2. {ParentKey(c[i]) : i \in 1..(k + 1)} = {ParentKey(r[j]) : j \in DOMAIN r}
    BY <1>4, <1>5 DEF HasSeen
  <2>3. HasSeen(c, k + 1, r)
    BY <1>3, <2>2 DEF HasSeen
  <2> QED
    BY <2>1, <2>3 DEF n
<1>6. CASE ~\E i \in DOMAIN r : ParentKey(r[i]) = ParentKey(n)
  <2>1. q = Append(r, n)
    BY <1>6 DEF AddParent
  <2>2. /\ q \in Seq(Stored) /\ DOMAIN q = 1..(Len(r) + 1) /\ q[Len(r) + 1] = n
        /\ \A j \in DOMAIN r : q[j] = r[j]
    BY <1>1, <1>2, <2>1
  <2>3. \A j \in DOMAIN q : j \in DOMAIN r \/ j = Len(r) + 1
    BY <1>1, <2>2
  <2>4. DOMAIN r \subseteq DOMAIN q /\ Len(r) + 1 \in DOMAIN q
        /\ \A j \in DOMAIN r : j < Len(r) + 1 /\ j # Len(r) + 1
    BY <1>1, <2>2
  <2> HIDE DEF q
  <2>5. {ParentKey(c[i]) : i \in 1..(k + 1)} = {ParentKey(q[j]) : j \in DOMAIN q}
    <3>1. {ParentKey(q[j]) : j \in DOMAIN q} = {ParentKey(r[j]) : j \in DOMAIN r} \cup {ParentKey(n)}
      BY <2>2, <2>3, <2>4
    <3> QED
      BY <1>4, <3>1 DEF HasSeen
  <2>6. FirstUnder(c, n) = k + 1
    <3> DEFINE f == FirstUnder(c, n)
    <3>1. f \in DOMAIN c /\ f \in Nat /\ ParentKey(c[f]) = ParentKey(n) /\ f <= k + 1
      BY <1>1, FirstUnderIs DEF n
    <3>2. f \notin 1..k
      BY <1>6, <3>1 DEF HasSeen
    <3> QED
      BY <1>1, <3>1, <3>2
  <2>7. \A j \in DOMAIN q : FirstUnder(c, q[j]) \in 1..(k + 1) /\ c[FirstUnder(c, q[j])] = q[j]
    BY <1>3, <2>2, <2>3, <2>6 DEF HasSeen, n
  <2>8. ASSUME NEW i \in DOMAIN q, NEW j \in DOMAIN q, i < j
        PROVE  FirstUnder(c, q[i]) < FirstUnder(c, q[j])
    <3>1. i \in DOMAIN r
      BY <1>1, <2>2, <2>8
    <3>2. CASE j \in DOMAIN r
      BY <2>2, <2>8, <3>1, <3>2 DEF HasSeen
    <3>3. CASE j = Len(r) + 1
      BY <1>3, <2>2, <2>6, <3>1, <3>3 DEF HasSeen
    <3> QED
      BY <2>3, <3>2, <3>3
  <2>9. HasSeen(c, k + 1, q)
    BY <2>2, <2>5, <2>7, <2>8 DEF HasSeen
  <2> QED
    BY <2>9 DEF q, n
<1> QED
  BY <1>5, <1>6

\* The chunks are looked at one after the other.
LEMMA PromptRounds ==
  ASSUME NEW c \in Distinct
  PROVE  \E after :
           /\ PromptSources(c) = after[Len(c)]
           /\ after[0] = <<>>
           /\ \A i \in 1..Len(c) : after[i] = AddParent(after[i - 1], c[i])
<1> DEFINE m == Len(c)
           Lst == Seq(Stored)
           step == [i \in 1..m |-> [t \in Lst |-> AddParent(t, c[i])]]
<1>1. m \in Nat /\ <<>> \in Lst /\ \A i \in 1..m : c[i] \in Stored
  BY DEF Distinct
<1>2. step \in [1..m -> [Lst -> Lst]]
  <2>1. \A i \in 1..m : \A t \in Lst : AddParent(t, c[i]) \in Lst
    BY <1>1 DEF AddParent
  <2> QED
    BY <2>1
<1>3. PICK f \in [0..m -> Lst] : f[0] = <<>> /\ \A i \in 1..m : f[i] = step[i][f[i - 1]]
  <2>1. IsLoop(Lst, <<>>, m, step)
    BY <1>1, <1>2 DEF IsLoop
  <2> HIDE DEF step, Lst, m
  <2> QED
    BY <2>1, Rounds DEF HasHistory
<1>4. f = [i \in 0..m |-> IF i = 0 THEN <<>> ELSE AddParent(f[i - 1], c[i])]
  <2>1. ASSUME NEW i \in 1..m PROVE f[i] = AddParent(f[i - 1], c[i])
    <3>1. i - 1 \in 0..m
      BY <1>1
    <3>2. f[i - 1] \in Lst
      BY <1>3, <3>1
    <3> QED
      BY <1>3, <3>2
  <2>2. ASSUME NEW i \in 0..m PROVE f[i] = IF i = 0 THEN <<>> ELSE AddParent(f[i - 1], c[i])
    BY <1>1, <1>3, <2>1
  <2> HIDE DEF Lst
  <2> QED
    BY <1>3, <2>2
<1>5. PICK g : /\ g = [i \in 0..m |-> IF i = 0 THEN <<>> ELSE AddParent(g[i - 1], c[i])]
               /\ PromptSources(c) = g[m]
  BY <1>4 DEF PromptSources
<1>6. \A i \in 0..m : g[i] = IF i = 0 THEN <<>> ELSE AddParent(g[i - 1], c[i])
  BY <1>5, Zenon
<1>7. g[0] = <<>> /\ \A i \in 1..m : g[i] = AddParent(g[i - 1], c[i])
  BY <1>1, <1>6
<1> QED
  BY <1>5, <1>7

LEMMA PromptSourcesIs ==
  ASSUME NEW c \in Distinct
  PROVE  HasSeen(c, Len(c), PromptSources(c)) /\ PromptSources(c) \in Distinct
<1> DEFINE m == Len(c)
<1>1. m \in Nat
  BY DEF Distinct
<1>2. PICK after :
        /\ PromptSources(c) = after[m] /\ after[0] = <<>>
        /\ \A i \in 1..m : after[i] = AddParent(after[i - 1], c[i])
  BY PromptRounds
<1> DEFINE S == {k \in Nat : HasSeen(c, k, after[k])}
<1>3. 0 \in S
  <2>1. HasSeen(c, 0, <<>>)
    BY DEF HasSeen
  <2> QED
    BY <1>2, <2>1
<1>4. ASSUME NEW k \in 0..(m - 1), k \in S PROVE k + 1 \in S
  <2>1. k + 1 \in 1..m /\ k + 1 - 1 = k /\ k + 1 \in Nat
    BY <1>1
  <2>2. after[k + 1] = AddParent(after[k], c[k + 1])
    BY <1>2, <2>1
  <2>3. HasSeen(c, k + 1, AddParent(after[k], c[k + 1]))
    BY <1>4, HasSeenNext
  <2> QED
    BY <2>1, <2>2, <2>3
<1> HIDE DEF S
<1>5. \A k \in 0..m : k \in S
  BY <1>1, <1>3, <1>4, CountUp
<1>6. HasSeen(c, m, after[m])
  BY <1>1, <1>5 DEF S
<1> DEFINE r == after[m]
<1>7. r \in Seq(Stored) /\ DOMAIN r = 1..Len(r) /\ Len(r) \in Nat
  BY <1>6 DEF HasSeen
<1>8. ASSUME NEW i \in DOMAIN r, NEW j \in DOMAIN r, r[i] = r[j] PROVE i = j
  <2>1. FirstUnder(c, r[i]) \in Nat
    BY <1>6 DEF HasSeen
  <2>2. ~(i < j) /\ ~(j < i)
    BY <1>6, <1>8, <2>1 DEF HasSeen
  <2> QED
    BY <1>7, <2>2
<1> QED
  BY <1>2, <1>6, <1>7, <1>8 DEF Distinct, IsInjective

-----------------------------------------------------------------------------
(* The steps of the search                                                 *)

SearchPoints == {"search", "rerank", "expand", "expanded", "fused", "done", "prompt"}

\* Lists without repetition, wherever the search stands.
Searches ==
  [pc : SearchPoints, subQueries : 0..MaxSubQueries, lists : Seq(Distinct), chunks : Distinct,
   stored : SUBSET Stored, parts : Seq(Distinct)]

\* The invariant that the steps keep.
SearchIInv ==
  /\ search \in Searches
  /\ Len(search.parts) < MaxSubQueries
  /\ FusedByReciprocalRanks /\ NeighboursFollowHits /\ SourcesOfPrompt

LEMMA NoneIsDistinct == <<>> \in Distinct /\ <<>> \in Seq(Distinct) /\ Len(<<>>) = 0
BY DEF Distinct, IsInjective

LEMMA NewSearch ==
  ASSUME NEW pc \in SearchPoints, NEW n \in 0..MaxSubQueries
  PROVE  Search(pc, n) \in Searches
BY NoneIsDistinct DEF Search, Searches

LEMMA SearchFields ==
  ASSUME search \in Searches
  PROVE  /\ search.pc \in SearchPoints /\ search.subQueries \in 0..MaxSubQueries
         /\ search.lists \in Seq(Distinct) /\ search.chunks \in Distinct
         /\ search.stored \in SUBSET Stored /\ search.parts \in Seq(Distinct)
BY DEF Searches

LEMMA ListsAreDistinct ==
  ASSUME NEW S \in SUBSET Stored, NEW n \in Nat
  PROVE  /\ Injection(1..n, S) \subseteq Distinct
         /\ Lists(S, n) \subseteq Distinct
<1>1. ASSUME NEW k \in Nat, NEW l \in Injection(1..k, S) PROVE l \in Distinct
  <2>1. l \in [1..k -> S] /\ \A i, j \in 1..k : l[i] = l[j] => i = j
    BY DEF Injection, IsInjective
  <2>2. l \in Seq(Stored) /\ DOMAIN l = 1..k
    BY <2>1
  <2> QED
    BY <2>1, <2>2 DEF Distinct, IsInjective
<1>2. \A l \in Lists(S, n) : \E k \in 0..n : l \in Injection(1..k, S)
  BY DEF Lists
<1> QED
  BY <1>1, <1>2

LEMMA FusedIsDefined ==
  ASSUME NEW lists \in Seq(Distinct), search'.lists = lists, search'.chunks = Fuse(lists)
  PROVE  FusedByReciprocalRanks'
<1> DEFINE c == Fuse(lists)
<1>1. /\ ToSet(c) = UNION {ToSet(lists[l]) : l \in DOMAIN lists}
      /\ \A i, j \in DOMAIN c : i < j =>
           LET m == ReciprocalRanks(lists, c[i])
               n == ReciprocalRanks(lists, c[j])
           IN  m > n \/ (m = n /\ FirstList(lists, c[i]) <= FirstList(lists, c[j]))
  BY FuseIs
<1> HIDE DEF c
<1>2. search'.chunks = c /\ search'.lists = lists
  BY DEF c
<1> QED
  BY <1>1, <1>2 DEF FusedByReciprocalRanks, FirstList

LEMMA ExpandIsDefined ==
  ASSUME NEW hits \in Distinct, NEW stored \in SUBSET Stored,
         search'.lists = <<hits>>, search'.stored = stored,
         search'.chunks = ExpandWithSiblings(hits, stored)
  PROVE  NeighboursFollowHits'
<1> DEFINE c == ExpandWithSiblings(hits, stored)
<1>1. /\ IsPrefix(hits, c)
      /\ \A i \in DOMAIN c : i > Len(hits) => \E n \in ToSet(hits) : c[i] \in Near(n)
      /\ \A i \in DOMAIN hits : \A s \in Near(hits[i]) \cap stored :
           \/ s \in ToSet(c)
           \/ \E j \in DOMAIN hits : j > i /\ Parent[hits[j]] = Parent[hits[i]]
  BY ExpandIs
<1> HIDE DEF c
<1>2. search'.chunks = c /\ search'.lists[1] = hits /\ search'.stored = stored
  BY DEF c
<1> QED
  BY <1>1, <1>2 DEF NeighboursFollowHits, Near

LEMMA SourcesAreDefined ==
  ASSUME NEW c \in Distinct, search'.lists = <<c>>, search'.chunks = PromptSources(c)
  PROVE  SourcesOfPrompt'
<1> DEFINE r == PromptSources(c)
<1>1. HasSeen(c, Len(c), r) /\ DOMAIN c = 1..Len(c)
  BY PromptSourcesIs DEF Distinct
<1> HIDE DEF r
<1>2. search'.chunks = r /\ search'.lists[1] = c
  BY DEF r
<1>3. {ParentKey(n) : n \in ToSet(c)} = {ParentKey(n) : n \in ToSet(r)}
  <2>1. {ParentKey(n) : n \in ToSet(c)} = {ParentKey(c[i]) : i \in 1..Len(c)}
    BY <1>1 DEF ToSet
  <2>2. {ParentKey(n) : n \in ToSet(r)} = {ParentKey(r[i]) : i \in DOMAIN r}
    BY DEF ToSet
  <2> QED
    BY <1>1, <2>1, <2>2 DEF HasSeen
<1>4. \A i \in DOMAIN r : c[FirstUnder(c, r[i])] = r[i]
  BY <1>1 DEF HasSeen
<1>5. \A i, j \in DOMAIN r : i < j => FirstUnder(c, r[i]) < FirstUnder(c, r[j])
  BY <1>1 DEF HasSeen
<1> QED
  BY <1>2, <1>3, <1>4, <1>5 DEF SourcesOfPrompt, FirstUnder

-----------------------------------------------------------------------------
(* Every step keeps the invariant                                          *)

LEMMA SearchInitIInv == SearchInit => SearchIInv
<1> SUFFICES ASSUME SearchInit PROVE SearchIInv
  OBVIOUS
<1>1. PICK n \in 0..MaxSubQueries : search = Search("search", n)
  BY DEF SearchInit
<1>2. search \in Searches
  BY <1>1, NewSearch DEF SearchPoints
<1>3. search.pc = "search" /\ Len(search.parts) = 0
  BY <1>1 DEF Search
<1>4. Len(search.parts) < MaxSubQueries
  BY <1>3, SearchAssumption
<1> QED
  BY <1>2, <1>3, <1>4
     DEF SearchIInv, FusedByReciprocalRanks, NeighboursFollowHits, SourcesOfPrompt

LEMMA FuseSafe == ASSUME SearchIInv, FuseResults PROVE SearchIInv'
<1>1. PICK dense \in SimilaritySearch, lexical \in LexicalSearch :
        search' = [search EXCEPT !.pc = "rerank", !.lists = <<dense, lexical>>,
                                 !.chunks = Fuse(<<dense, lexical>>)]
  BY DEF FuseResults
<1> DEFINE lists == <<dense, lexical>>
<1>2. dense \in Distinct /\ lexical \in Distinct
  BY SearchAssumption, ListsAreDistinct DEF SimilaritySearch, LexicalSearch
<1>3. lists \in Seq(Distinct)
  BY <1>2
<1>4. search \in Searches /\ Len(search.parts) < MaxSubQueries
  BY DEF SearchIInv
<1> HIDE DEF lists
<1>5. Fuse(lists) \in Distinct
  BY <1>3, FuseIs
<1>6. search' = [search EXCEPT !.pc = "rerank", !.lists = lists, !.chunks = Fuse(lists)]
  BY <1>1 DEF lists
<1>7. search' \in Searches /\ search'.parts = search.parts /\ search'.pc = "rerank"
      /\ search'.lists = lists /\ search'.chunks = Fuse(lists)
  BY <1>3, <1>4, <1>5, <1>6 DEF Searches, SearchPoints
<1>8. FusedByReciprocalRanks'
  BY <1>3, <1>7, FusedIsDefined
<1> QED
  BY <1>4, <1>7, <1>8 DEF SearchIInv, NeighboursFollowHits, SourcesOfPrompt

LEMMA RerankSafe == ASSUME SearchIInv, Rerank PROVE SearchIInv'
<1> DEFINE top == Take(search.chunks, RerankerTopN)
<1>1. PICK ranked \in Injection(1..Len(top), ToSet(search.chunks)) \cup {search.chunks, top} :
        search' = [search EXCEPT !.pc = "expand", !.lists = <<>>, !.chunks = Take(ranked, TopK)]
  BY DEF Rerank
<1>2. search \in Searches /\ search.chunks \in Distinct /\ Len(search.parts) < MaxSubQueries
  BY SearchFields DEF SearchIInv
<1>3. ToSet(search.chunks) \in SUBSET Stored
  BY <1>2 DEF Distinct, ToSet
<1>4. top \in Distinct /\ Len(top) \in Nat
  BY <1>2, SearchAssumption, TakeIsList
<1>5. ranked \in Distinct
  BY <1>2, <1>3, <1>4, ListsAreDistinct
<1>6. Take(ranked, TopK) \in Distinct
  BY <1>5, SearchAssumption, TakeIsList
<1>7. search' \in Searches /\ search'.parts = search.parts /\ search'.pc = "expand"
  BY <1>1, <1>2, <1>6, NoneIsDistinct DEF Searches, SearchPoints
<1> QED
  BY <1>2, <1>7 DEF SearchIInv, FusedByReciprocalRanks, NeighboursFollowHits, SourcesOfPrompt

LEMMA ExpandSafe == ASSUME SearchIInv, Expand PROVE SearchIInv'
<1>1. PICK stored \in SUBSET Stored :
        search' = [search EXCEPT !.pc = "expanded", !.lists = <<search.chunks>>, !.stored = stored,
                                 !.chunks = ExpandWithSiblings(search.chunks, stored)]
  BY DEF Expand
<1>2. search \in Searches /\ search.chunks \in Distinct /\ Len(search.parts) < MaxSubQueries
  BY SearchFields DEF SearchIInv
<1>3. ExpandWithSiblings(search.chunks, stored) \in Distinct /\ <<search.chunks>> \in Seq(Distinct)
  BY <1>2, ExpandIs
<1>4. /\ search' \in Searches /\ search'.parts = search.parts /\ search'.pc = "expanded"
      /\ search'.lists = <<search.chunks>> /\ search'.stored = stored
      /\ search'.chunks = ExpandWithSiblings(search.chunks, stored)
  BY <1>1, <1>2, <1>3 DEF Searches, SearchPoints
<1>5. NeighboursFollowHits'
  BY <1>2, <1>4, ExpandIsDefined
<1> QED
  BY <1>2, <1>4, <1>5 DEF SearchIInv, FusedByReciprocalRanks, SourcesOfPrompt

LEMMA NextPartSafe == ASSUME SearchIInv, NextPart PROVE SearchIInv'
<1> DEFINE parts == Append(search.parts, search.chunks)
<1>1. /\ search \in Searches /\ search.chunks \in Distinct /\ search.parts \in Seq(Distinct)
      /\ search.subQueries \in 0..MaxSubQueries
  BY SearchFields DEF SearchIInv
<1>2. parts \in Seq(Distinct) /\ Len(parts) \in Nat
  BY <1>1
<1>3. MaxSubQueries \in Nat \ {0} /\ 0 \in 0..MaxSubQueries
  BY SearchAssumption
<1>4. search' = IF search.subQueries = 0 THEN [Search("done", 0) EXCEPT !.chunks = search.chunks]
                ELSE IF Len(parts) < search.subQueries
                THEN [Search("search", search.subQueries) EXCEPT !.parts = parts]
                ELSE [Search("fused", 0) EXCEPT !.lists = parts, !.chunks = Fuse(parts)]
  BY DEF NextPart
<1> HIDE DEF parts
<1>5. CASE search.subQueries = 0
  <2>1. search' \in Searches /\ Len(search'.parts) = 0 /\ search'.pc = "done"
    BY <1>1, <1>3, <1>4, <1>5, NoneIsDistinct DEF Search, Searches, SearchPoints
  <2> QED
    BY <1>3, <2>1 DEF SearchIInv, FusedByReciprocalRanks, NeighboursFollowHits, SourcesOfPrompt
<1>6. CASE search.subQueries # 0 /\ Len(parts) < search.subQueries
  <2>1. search' \in Searches /\ search'.parts = parts /\ search'.pc = "search"
    BY <1>1, <1>2, <1>4, <1>6, NoneIsDistinct DEF Search, Searches, SearchPoints
  <2>2. Len(search'.parts) < MaxSubQueries
    BY <1>1, <1>2, <1>3, <1>6, <2>1
  <2> QED
    BY <2>1, <2>2 DEF SearchIInv, FusedByReciprocalRanks, NeighboursFollowHits, SourcesOfPrompt
<1>7. CASE search.subQueries # 0 /\ ~(Len(parts) < search.subQueries)
  <2>1. Fuse(parts) \in Distinct
    BY <1>2, FuseIs
  <2>2. /\ search' \in Searches /\ Len(search'.parts) = 0 /\ search'.pc = "fused"
        /\ search'.lists = parts /\ search'.chunks = Fuse(parts)
    BY <1>2, <1>3, <1>4, <1>7, <2>1, NoneIsDistinct DEF Search, Searches, SearchPoints
  <2>3. FusedByReciprocalRanks'
    BY <1>2, <2>2, FusedIsDefined
  <2> QED
    BY <1>3, <2>2, <2>3 DEF SearchIInv, NeighboursFollowHits, SourcesOfPrompt
<1> QED
  BY <1>5, <1>6, <1>7

LEMMA TakePartsSafe == ASSUME SearchIInv, TakeParts PROVE SearchIInv'
<1>1. search.chunks \in Distinct
  BY SearchFields DEF SearchIInv
<1>2. Take(search.chunks, TopK) \in Distinct
  BY <1>1, SearchAssumption, TakeIsList
<1>3. MaxSubQueries \in Nat \ {0} /\ 0 \in 0..MaxSubQueries
  BY SearchAssumption
<1>4. search' \in Searches /\ Len(search'.parts) = 0 /\ search'.pc = "done"
  BY <1>2, <1>3, NoneIsDistinct DEF TakeParts, Search, Searches, SearchPoints
<1> QED
  BY <1>3, <1>4 DEF SearchIInv, FusedByReciprocalRanks, NeighboursFollowHits, SourcesOfPrompt

LEMMA PromptSafe == ASSUME SearchIInv, BuildRagMessages PROVE SearchIInv'
<1>1. search \in Searches /\ search.chunks \in Distinct /\ Len(search.parts) < MaxSubQueries
  BY SearchFields DEF SearchIInv
<1>2. PromptSources(search.chunks) \in Distinct /\ <<search.chunks>> \in Seq(Distinct)
  BY <1>1, PromptSourcesIs
<1>3. /\ search' \in Searches /\ search'.parts = search.parts /\ search'.pc = "prompt"
      /\ search'.lists = <<search.chunks>> /\ search'.chunks = PromptSources(search.chunks)
  BY <1>1, <1>2 DEF BuildRagMessages, Searches, SearchPoints
<1>4. SourcesOfPrompt'
  BY <1>1, <1>3, SourcesAreDefined
<1> QED
  BY <1>1, <1>3, <1>4 DEF SearchIInv, FusedByReciprocalRanks, NeighboursFollowHits

\* What SourcesOfPrompt says, of a search s.
Sourced(s) ==
  LET c == s.lists[1]
      r == s.chunks
  IN  s.pc = "prompt" =>
        /\ {ParentKey(n) : n \in ToSet(c)} = {ParentKey(n) : n \in ToSet(r)}
        /\ \A i \in DOMAIN r : c[FirstUnder(c, r[i])] = r[i]
        /\ \A i, j \in DOMAIN r : i < j => FirstUnder(c, r[i]) < FirstUnder(c, r[j])

LEMMA SearchIInvStep == SearchIInv /\ [SearchNext]_searchVars => SearchIInv'
<1> SUFFICES ASSUME SearchIInv, [SearchNext]_searchVars PROVE SearchIInv'
  OBVIOUS
<1>1. CASE UNCHANGED searchVars
  <2>1. search' = search
    BY <1>1 DEF searchVars
  <2>2. FusedByReciprocalRanks'
    BY <2>1 DEF SearchIInv, FusedByReciprocalRanks
  <2>3. NeighboursFollowHits'
    BY <2>1 DEF SearchIInv, NeighboursFollowHits
  <2>4. SourcesOfPrompt'
    <3>1. SourcesOfPrompt <=> Sourced(search)
      BY DEF SourcesOfPrompt, Sourced, FirstUnder
    <3>2. SourcesOfPrompt' <=> Sourced(search')
      BY DEF SourcesOfPrompt, Sourced, FirstUnder
    <3> QED
      BY <2>1, <3>1, <3>2 DEF SearchIInv
  <2> QED
    BY <2>1, <2>2, <2>3, <2>4 DEF SearchIInv
<1> QED
  BY <1>1, FuseSafe, RerankSafe, ExpandSafe, NextPartSafe, TakePartsSafe, PromptSafe DEF SearchNext

LEMMA SearchInvariance == SearchSpec => []SearchIInv
BY SearchInitIInv, SearchIInvStep, PTL DEF SearchSpec

LEMMA SearchTyped == SearchIInv => SearchTypeOK
BY SearchFields DEF SearchIInv, SearchTypeOK, SearchPoints, Distinct, ToSet

THEOREM SearchIsDefined ==
  SearchSpec => [](SearchTypeOK /\ FusedByReciprocalRanks /\ NeighboursFollowHits /\ SourcesOfPrompt)
<1>1. SearchIInv => SearchTypeOK /\ FusedByReciprocalRanks /\ NeighboursFollowHits /\ SourcesOfPrompt
  BY SearchTyped DEF SearchIInv
<1> QED
  BY <1>1, SearchInvariance, PTL

-----------------------------------------------------------------------------
(***************************************************************************)
(* DocumentSplit: every paragraph is in one chunk, no parent is too long,  *)
(* and a parent is looked for at its place or before it.                   *)
(***************************************************************************)

\* Sequences of sequences, flattened: Cat keeps a concatenation whole for the provers.

Cat(s, r) == s \o r

\* flat[i]: the first i of the m sequences, one after the other.
Flattens(flat, seqs, m) ==
  flat[0] = <<>> /\ \A i \in 0..(m - 1) : flat[i + 1] = Cat(flat[i], seqs[i + 1])

LEMMA FlattenRounds ==
  ASSUME NEW A, NEW seqs \in Seq(Seq(A))
  PROVE  \E flat \in [0..Len(seqs) -> Seq(A)] :
           FlattenSeq(seqs) = flat[Len(seqs)] /\ Flattens(flat, seqs, Len(seqs))
<1> DEFINE m == Len(seqs)
           Lst == Seq(A)
           step == [i \in 1..m |-> [t \in Lst |-> Cat(t, seqs[i])]]
<1>1. m \in Nat /\ <<>> \in Lst /\ \A i \in 1..m : seqs[i] \in Lst
  OBVIOUS
<1>2. step \in [1..m -> [Lst -> Lst]]
  <2>1. \A i \in 1..m : \A t \in Lst : Cat(t, seqs[i]) \in Lst
    BY <1>1 DEF Cat
  <2> QED
    BY <2>1
<1>3. PICK f \in [0..m -> Lst] : f[0] = <<>> /\ \A i \in 1..m : f[i] = step[i][f[i - 1]]
  <2>1. IsLoop(Lst, <<>>, m, step)
    BY <1>1, <1>2 DEF IsLoop
  <2> HIDE DEF step, Lst, m
  <2> QED
    BY <2>1, Rounds DEF HasHistory
<1>4. ASSUME NEW i \in 0..(m - 1) PROVE f[i + 1] = Cat(f[i], seqs[i + 1])
  <2>1. i + 1 \in 1..m /\ i + 1 - 1 = i /\ i \in 0..m
    BY <1>1
  <2>2. f[i] \in Lst
    BY <1>3, <2>1
  <2>3. f[i + 1] = step[i + 1][f[i]]
    <3> HIDE DEF step
    <3> QED
      BY <1>3, <2>1
  <2>4. step[i + 1] = [t \in Lst |-> Cat(t, seqs[i + 1])]
    BY <2>1
  <2> QED
    BY <2>2, <2>3, <2>4
<1>5. FlattenSeq(seqs) = f[m]
  <2>1. CASE m = 0
    BY <1>3, <2>1 DEF FlattenSeq
  <2>2. CASE m # 0
    <3> DEFINE g == [i \in 1..m |-> f[i]]
    <3>1. f[1] = seqs[1] /\ 1 \in 1..m
      <4>1. 0 \in 0..(m - 1) /\ 0 + 1 = 1 /\ 1 \in 1..m
        BY <1>1, <2>2
      <4>2. f[1] = Cat(<<>>, seqs[1])
        BY <1>3, <1>4, <4>1
      <4>3. seqs[1] \in Lst
        BY <1>1, <4>1
      <4> QED
        BY <4>1, <4>2, <4>3 DEF Cat
    <3>2. ASSUME NEW i \in 1..m PROVE g[i] = IF i = 1 THEN seqs[i] ELSE Cat(g[i - 1], seqs[i])
      <4>1. CASE i = 1
        BY <3>1, <4>1
      <4>2. CASE i # 1
        <5>1. i - 1 \in 1..m /\ i - 1 \in 0..(m - 1) /\ i - 1 + 1 = i
          BY <1>1, <4>2
        <5> QED
          BY <1>4, <4>2, <5>1
      <4> QED
        BY <4>1, <4>2
    <3>3. g = [i \in 1..m |-> IF i = 1 THEN seqs[i] ELSE g[i - 1] \o seqs[i]]
      BY <3>2 DEF Cat
    <3> HIDE DEF g
    <3>4. PICK h : /\ h = [i \in 1..m |-> IF i = 1 THEN seqs[i] ELSE h[i - 1] \o seqs[i]]
                   /\ FlattenSeq(seqs) = h[m]
      BY <2>2, <3>3 DEF FlattenSeq
    <3>5. \A i \in 1..m : h[i] = IF i = 1 THEN seqs[i] ELSE Cat(h[i - 1], seqs[i])
      BY <3>4, Zenon DEF Cat
    <3> DEFINE S == {0} \cup {i \in 1..m : h[i] = f[i]}
    <3>6. ASSUME NEW i \in 0..(m - 1), i \in S PROVE i + 1 \in S
      <4>1. i + 1 \in 1..m /\ i + 1 - 1 = i
        BY <1>1
      <4>2. CASE i = 0
        BY <3>1, <3>5, <4>1, <4>2
      <4>3. CASE i # 0
        <5>1. h[i] = f[i] /\ i + 1 # 1
          BY <1>1, <3>6, <4>3
        <5>2. h[i + 1] = Cat(h[i], seqs[i + 1])
          BY <3>5, <4>1, <5>1
        <5>3. f[i + 1] = Cat(f[i], seqs[i + 1])
          BY <1>4
        <5> QED
          BY <4>1, <5>1, <5>2, <5>3
      <4> QED
        BY <4>2, <4>3
    <3>7. 0 \in S
      OBVIOUS
    <3> HIDE DEF S
    <3>8. \A i \in 0..m : i \in S
      BY <1>1, <3>6, <3>7, CountUp
    <3>9. h[m] = f[m]
      BY <1>1, <2>2, <3>8 DEF S
    <3> QED
      BY <3>4, <3>9
  <2> QED
    BY <2>1, <2>2
<1>6. Flattens(f, seqs, m)
  BY <1>3, <1>4 DEF Flattens
<1> QED
  BY <1>5, <1>6

LEMMA FlattenType == ASSUME NEW A, NEW seqs \in Seq(Seq(A)) PROVE FlattenSeq(seqs) \in Seq(A)
<1>1. PICK flat \in [0..Len(seqs) -> Seq(A)] : FlattenSeq(seqs) = flat[Len(seqs)]
  BY FlattenRounds
<1>2. Len(seqs) \in 0..Len(seqs)
  OBVIOUS
<1> QED
  BY <1>1, <1>2

LEMMA FlattenNone == FlattenSeq(<<>>) = <<>>
BY DEF FlattenSeq

Agree(r, s, k) == \A i \in 1..k : r[i] = s[i]

LEMMA FlattensPrefix ==
  ASSUME NEW f, NEW s, NEW m \in Nat, NEW k \in 0..m, Flattens(f, s, m)
  PROVE  Flattens(f, s, k)
<1>1. \A i \in 0..(k - 1) : i \in 0..(m - 1)
  OBVIOUS
<1> QED
  BY <1>1 DEF Flattens

LEMMA FlattensLast ==
  ASSUME NEW f, NEW s, NEW m \in Nat, Flattens(f, s, m + 1)
  PROVE  Flattens(f, s, m) /\ f[m + 1] = Cat(f[m], s[m + 1])
<1>1. m \in 0..(m + 1 - 1) /\ m + 1 \in Nat /\ m \in 0..(m + 1)
  OBVIOUS
<1>2. Flattens(f, s, m)
  BY <1>1, FlattensPrefix
<1> QED
  BY <1>1, <1>2 DEF Flattens

\* Two histories of the same sequences agree.
LEMMA FlattenSame ==
  ASSUME NEW r, NEW s, NEW k \in Nat, Agree(r, s, k),
         NEW f, Flattens(f, r, k), NEW g, Flattens(g, s, k)
  PROVE  f[k] = g[k]
<1> DEFINE S == {i \in Nat : f[i] = g[i]}
<1>1. 0 \in S
  BY DEF Flattens
<1>2. ASSUME NEW i \in 0..(k - 1), i \in S PROVE i + 1 \in S
  <2>1. i + 1 \in 1..k /\ i + 1 \in Nat
    OBVIOUS
  <2>2. f[i + 1] = Cat(f[i], r[i + 1]) /\ g[i + 1] = Cat(g[i], s[i + 1]) /\ r[i + 1] = s[i + 1]
    BY <2>1 DEF Flattens, Agree
  <2> QED
    BY <1>2, <2>1, <2>2
<1> HIDE DEF S
<1>3. \A i \in 0..k : i \in S
  BY <1>1, <1>2, CountUp
<1>4. k \in S
  BY <1>3
<1> QED
  BY <1>4 DEF S

LEMMA FlattenAppend ==
  ASSUME NEW A, NEW s \in Seq(Seq(A)), NEW x \in Seq(A)
  PROVE  FlattenSeq(Append(s, x)) = FlattenSeq(s) \o x
<1> DEFINE r == Append(s, x)
           m == Len(s)
<1>1. m \in Nat /\ Len(r) = m + 1 /\ r[m + 1] = x /\ \A i \in 1..m : r[i] = s[i]
  OBVIOUS
<1>2. r \in Seq(Seq(A))
  OBVIOUS
<1> HIDE DEF r, m
<1>3. PICK f : FlattenSeq(r) = f[m + 1] /\ Flattens(f, r, m + 1)
  BY <1>1, <1>2, FlattenRounds
<1>4. PICK g : FlattenSeq(s) = g[m] /\ Flattens(g, s, m)
  BY FlattenRounds DEF m
<1>5. Agree(r, s, m)
  BY <1>1 DEF Agree
<1>6. Flattens(f, r, m) /\ f[m + 1] = Cat(f[m], r[m + 1])
  BY <1>1, <1>3, FlattensLast
<1>7. f[m] = g[m]
  BY <1>1, <1>4, <1>5, <1>6, FlattenSame
<1>8. FlattenSeq(r) = Cat(FlattenSeq(s), x)
  BY <1>1, <1>3, <1>4, <1>6, <1>7
<1> QED
  BY <1>8 DEF r, Cat

-----------------------------------------------------------------------------
(* Where a string stands in another                                        *)

\* s stands in the text, behind its first place characters.
Stands(text, place, s) ==
  place + Len(s) <= Len(text) /\ \A x \in 1..Len(s) : text[place + x] = s[x]

LEMMA StandsLast ==
  ASSUME NEW A, NEW r \in Seq(A), NEW s \in Seq(A)
  PROVE  Stands(Cat(r, s), Len(r), s)
BY DEF Stands, Cat

LEMMA StandsStill ==
  ASSUME NEW A, NEW text \in Seq(A), NEW r \in Seq(A), NEW s \in Seq(A), NEW place \in Nat,
         Stands(text, place, s)
  PROVE  Stands(Cat(text, r), place, s)
<1> DEFINE q == text \o r
<1>1. /\ Len(text) \in Nat /\ Len(s) \in Nat /\ Len(q) \in Nat /\ Len(text) <= Len(q)
      /\ \A x \in 1..Len(text) : q[x] = text[x]
  OBVIOUS
<1> HIDE DEF q
<1>2. place + Len(s) <= Len(q)
  BY <1>1 DEF Stands
<1>3. \A x \in 1..Len(s) : place + x \in 1..Len(text) /\ text[place + x] = s[x]
  BY <1>1 DEF Stands
<1>4. \A x \in 1..Len(s) : q[place + x] = s[x]
  BY <1>1, <1>3
<1> QED
  BY <1>2, <1>4 DEF Stands, Cat, q

\* Where each of the sequences stands.
LEMMA FlattenPlaces ==
  ASSUME NEW A, NEW seqs \in Seq(Seq(A)), NEW i \in 1..Len(seqs)
  PROVE  LET place == Len(FlattenSeq(SubSeq(seqs, 1, i - 1)))
         IN  place \in Nat /\ Stands(FlattenSeq(seqs), place, seqs[i])
<1> DEFINE m == Len(seqs)
           r == SubSeq(seqs, 1, i - 1)
<1>1. /\ m \in Nat /\ i \in 1..m /\ i \in Nat /\ i - 1 \in 0..m /\ i - 1 + 1 = i /\ i \in 0..m
      /\ i - 1 \in Nat
  OBVIOUS
<1>2. r \in Seq(Seq(A)) /\ Len(r) = i - 1 /\ \A j \in 1..(i - 1) : r[j] = seqs[j]
  OBVIOUS
<1>3. \A j \in 1..m : seqs[j] \in Seq(A)
  OBVIOUS
<1> HIDE DEF r, m
<1>4. PICK f \in [0..m -> Seq(A)] : FlattenSeq(seqs) = f[m] /\ Flattens(f, seqs, m)
  BY FlattenRounds DEF m
<1>5. PICK g : FlattenSeq(r) = g[i - 1] /\ Flattens(g, r, i - 1)
  <2>1. r \in Seq(Seq(A))
    BY <1>2
  <2>2. \E g : FlattenSeq(r) = g[Len(r)] /\ Flattens(g, r, Len(r))
    BY <2>1, FlattenRounds
  <2>3. Len(r) = i - 1
    BY <1>2
  <2> QED
    BY <2>2, <2>3
<1>6. FlattenSeq(r) = f[i - 1]
  <2>1. Agree(r, seqs, i - 1)
    BY <1>2 DEF Agree
  <2>2. Flattens(f, seqs, i - 1)
    BY <1>1, <1>4, FlattensPrefix
  <2> QED
    BY <1>1, <1>5, <2>1, <2>2, FlattenSame
<1>7. \A j \in 0..m : f[j] \in Seq(A)
  BY <1>4
<1>8. \A j \in 0..(m - 1) : f[j + 1] = Cat(f[j], seqs[j + 1])
  BY <1>4 DEF Flattens
<1> DEFINE place == Len(f[i - 1])
           S == {d \in Nat : i + d \in 0..m => Stands(f[i + d], place, seqs[i])}
<1>9. place \in Nat
  BY <1>1, <1>7
<1>10. 0 \in S
  <2>1. f[i] = Cat(f[i - 1], seqs[i]) /\ f[i - 1] \in Seq(A) /\ seqs[i] \in Seq(A)
    <3>1. i - 1 \in 0..(m - 1)
      BY <1>1
    <3> QED
      BY <1>1, <1>3, <1>7, <1>8, <3>1
  <2>2. Stands(f[i], place, seqs[i])
    BY <2>1, StandsLast
  <2> HIDE DEF place
  <2> QED
    BY <1>1, <2>2
<1>11. ASSUME NEW d \in 0..(m - i - 1), d \in S PROVE d + 1 \in S
  <2> HIDE DEF place
  <2> DEFINE j == i + d
  <2>1. /\ j \in 0..m /\ j \in 0..(m - 1) /\ j + 1 \in 1..m /\ i + (d + 1) = j + 1
        /\ d + 1 \in Nat
    BY <1>1
  <2>2. Stands(f[j], place, seqs[i])
    BY <1>11, <2>1
  <2> HIDE DEF j
  <2>3. f[j + 1] = Cat(f[j], seqs[j + 1]) /\ f[j] \in Seq(A) /\ seqs[j + 1] \in Seq(A)
        /\ seqs[i] \in Seq(A)
    BY <1>1, <1>3, <1>7, <1>8, <2>1
  <2>4. Stands(f[j + 1], place, seqs[i])
    BY <1>9, <2>2, <2>3, StandsStill
  <2> QED
    BY <2>1, <2>4
<1> HIDE DEF S
<1>12. \A d \in 0..(m - i) : d \in S
  <2>1. m - i \in Nat
    BY <1>1
  <2> QED
    BY <1>10, <1>11, <2>1, CountUp
<1>13. Stands(f[m], place, seqs[i])
  <2>1. m - i \in 0..(m - i) /\ i + (m - i) = m /\ m \in 0..m /\ m - i \in Nat
    BY <1>1
  <2> QED
    BY <1>12, <2>1 DEF S
<1> QED
  BY <1>4, <1>6, <1>9, <1>13 DEF r

-----------------------------------------------------------------------------
(* The paragraphs of a text and the chunks they are put into               *)

\* The provers do not know a string literal to be in STRING.
Letters == STRING \cup {"f", "n"}

Chars == Seq(Letters)

Places(t) == DOMAIN t.paragraphs

LEMMA ShortSequences == ASSUME NEW A, NEW x \in A, NEW y \in A PROVE <<x>> \in Seq(A) /\ <<x, y>> \in Seq(A)
OBVIOUS

LEMMA WiderSequences == ASSUME NEW A, NEW B, A \subseteq B, NEW s \in Seq(A) PROVE s \in Seq(B)
OBVIOUS

LEMMA BreaksAreChars == PageBreak \in Chars /\ LineBreaks \in Chars /\ <<>> \in Chars
<1>1. PICK f, n : f = "f" /\ n = "n"
  OBVIOUS
<1>2. f \in Letters /\ n \in Letters /\ PageBreak = <<f>> /\ LineBreaks = <<n, n>>
  BY <1>1 DEF PageBreak, LineBreaks, Letters
<1>3. PageBreak \in Chars /\ LineBreaks \in Chars
  BY <1>2, ShortSequences DEF Chars
<1>4. <<>> \in Chars
  BY DEF Chars
<1> QED
  BY <1>3, <1>4

LEMMA TextIs ==
  ASSUME NEW t \in Texts
  PROVE  /\ Len(t.paragraphs) \in Nat \ {0} /\ Places(t) = 1..Len(t.paragraphs)
         /\ \A i \in Places(t) : t.paragraphs[i] \in Chars /\ t.paragraphs[i] # <<>>
         /\ \A i \in DOMAIN t.breaks : t.breaks[i] \in Chars
<1>1. PICK n \in 1..MaxParagraphs :
        t \in [paragraphs : [1..n -> Paragraphs], breaks : [1..(n - 1) -> {PageBreak, LineBreaks}]]
  BY DEF Texts
<1>2. n \in Nat \ {0}
  BY SplitAssumption
<1>3. t.paragraphs \in [1..n -> Paragraphs] /\ t.breaks \in [1..(n - 1) -> {PageBreak, LineBreaks}]
  BY <1>1
<1>4. Len(t.paragraphs) = n /\ DOMAIN t.paragraphs = 1..n
  BY <1>2, <1>3
<1>5. \A i \in 1..n : t.paragraphs[i] \in Paragraphs
  BY <1>3
<1>6. \A i \in DOMAIN t.breaks : t.breaks[i] \in {PageBreak, LineBreaks}
  BY <1>3
<1>7. \A i \in 1..n : t.paragraphs[i] \in Chars /\ t.paragraphs[i] # <<>>
  <2>1. STRING \subseteq Letters
    BY DEF Letters
  <2> QED
    BY <1>5, <2>1, SplitAssumption, WiderSequences DEF Chars
<1> QED
  BY <1>2, <1>4, <1>6, <1>7, BreaksAreChars DEF Places

LEMMA LinesAre ==
  ASSUME NEW t \in Texts
  PROVE  /\ Lines(t) \in Seq(Chars) /\ Len(Lines(t)) = Len(t.paragraphs)
         /\ \A i \in Places(t) : /\ Len(t.paragraphs[i]) <= Len(Lines(t)[i])
                                 /\ \A x \in 1..Len(t.paragraphs[i]) : Lines(t)[i][x] = t.paragraphs[i][x]
<1> DEFINE n == Len(t.paragraphs)
           End(i) == IF i \in DOMAIN t.breaks THEN t.breaks[i] ELSE <<>>
           lines == [i \in Places(t) |-> t.paragraphs[i] \o End(i)]
<1>1. n \in Nat /\ Places(t) = 1..n /\ \A i \in Places(t) : t.paragraphs[i] \in Chars
  BY TextIs
<1>2. \A i \in Places(t) : End(i) \in Chars
  BY TextIs, BreaksAreChars
<1> HIDE DEF End, n
<1>3. ASSUME NEW i \in Places(t)
      PROVE  /\ lines[i] \in Chars /\ Len(t.paragraphs[i]) <= Len(lines[i])
             /\ \A x \in 1..Len(t.paragraphs[i]) : lines[i][x] = t.paragraphs[i][x]
  <2> DEFINE a == t.paragraphs[i]
             b == End(i)
  <2>1. a \in Seq(Letters) /\ b \in Seq(Letters)
    BY <1>1, <1>2 DEF Chars
  <2>2. lines[i] = a \o b
    OBVIOUS
  <2> HIDE DEF a, b, lines
  <2>3. /\ a \o b \in Seq(Letters) /\ Len(a) <= Len(a \o b)
        /\ \A x \in 1..Len(a) : (a \o b)[x] = a[x]
    BY <2>1
  <2> QED
    BY <2>2, <2>3 DEF a, Chars
<1>4. lines \in [1..n -> Chars]
  BY <1>1, <1>3
<1>5. lines \in Seq(Chars) /\ Len(lines) = n
  <2> HIDE DEF lines, n
  <2>1. n \in Nat
    BY <1>1
  <2> QED
    BY <1>4, <2>1
<1>6. Lines(t) = lines
  BY DEF Lines, Places, lines, End
<1> HIDE DEF lines
<1> QED
  BY <1>3, <1>5, <1>6 DEF n

\* Where a paragraph stands.
LEMMA ParagraphStands ==
  ASSUME NEW t \in Texts, NEW i \in Places(t)
  PROVE  /\ RawText(t) \in Chars /\ Place(t, i) \in Nat
         /\ Stands(RawText(t), Place(t, i), t.paragraphs[i])
<1> DEFINE lines == Lines(t)
           p == t.paragraphs[i]
<1>1. lines \in Seq(Seq(Letters)) /\ i \in 1..Len(lines)
  BY TextIs, LinesAre DEF Chars
<1>2. Place(t, i) \in Nat /\ Stands(RawText(t), Place(t, i), lines[i])
  <2> HIDE DEF lines
  <2>1. LET place == Len(FlattenSeq(SubSeq(lines, 1, i - 1)))
        IN  place \in Nat /\ Stands(FlattenSeq(lines), place, lines[i])
    BY <1>1, FlattenPlaces
  <2> QED
    BY <2>1 DEF Place, RawText, lines
<1>3. RawText(t) \in Chars
  <2> HIDE DEF lines
  <2>1. FlattenSeq(lines) \in Seq(Letters)
    BY <1>1, FlattenType
  <2> QED
    BY <2>1 DEF RawText, Chars, lines
<1>4. Len(p) \in Nat /\ Len(lines[i]) \in Nat /\ Len(RawText(t)) \in Nat
  <2>1. p \in Seq(Letters) /\ lines[i] \in Seq(Letters) /\ RawText(t) \in Seq(Letters)
    BY <1>1, <1>3, TextIs DEF Chars
  <2> HIDE DEF p, lines
  <2> QED
    BY <2>1
<1>5. Len(p) <= Len(lines[i]) /\ \A x \in 1..Len(p) : lines[i][x] = p[x]
  BY LinesAre
<1> HIDE DEF p, lines
<1>6. /\ Place(t, i) + Len(lines[i]) <= Len(RawText(t))
      /\ \A x \in 1..Len(lines[i]) : RawText(t)[Place(t, i) + x] = lines[i][x]
  BY <1>2 DEF Stands
<1>7. \A x \in 1..Len(p) : x \in 1..Len(lines[i])
  BY <1>4, <1>5
<1>8. Stands(RawText(t), Place(t, i), p)
  BY <1>2, <1>4, <1>5, <1>6, <1>7 DEF Stands
<1> QED
  BY <1>2, <1>3, <1>8 DEF p

LEMMA JoinType ==
  ASSUME NEW t \in Texts, NEW chunk \in Seq(Places(t))
  PROVE  JoinParagraphs(t, chunk) \in Chars
<1> DEFINE Part(i) == (IF i = 1 THEN <<>> ELSE LineBreaks) \o t.paragraphs[chunk[i]]
           parts == [i \in DOMAIN chunk |-> Part(i)]
<1>1. ASSUME NEW i \in DOMAIN chunk PROVE Part(i) \in Chars
  <2>1. chunk[i] \in Places(t)
    OBVIOUS
  <2>2. t.paragraphs[chunk[i]] \in Chars
    BY <2>1, TextIs
  <2>3. (IF i = 1 THEN <<>> ELSE LineBreaks) \in Chars
    BY BreaksAreChars
  <2> QED
    BY <2>2, <2>3 DEF Chars
<1>2. DOMAIN chunk = 1..Len(chunk) /\ Len(chunk) \in Nat
  OBVIOUS
<1> HIDE DEF Part
<1>3. parts \in Seq(Seq(Letters))
  BY <1>1, <1>2 DEF Chars
<1>4. JoinParagraphs(t, chunk) = FlattenSeq(parts)
  BY DEF JoinParagraphs, Part
<1> HIDE DEF parts
<1> QED
  BY <1>3, <1>4, FlattenType DEF Chars

LEMMA JoinOne ==
  ASSUME NEW t \in Texts, NEW i \in Places(t)
  PROVE  JoinParagraphs(t, <<i>>) = t.paragraphs[i]
<1> DEFINE p == t.paragraphs[i]
           parts == [j \in DOMAIN <<i>> |-> (IF j = 1 THEN <<>> ELSE LineBreaks) \o t.paragraphs[<<i>>[j]]]
<1>1. p \in Seq(Letters)
  BY TextIs DEF Chars
<1>2. DOMAIN <<i>> = {1} /\ <<i>>[1] = i
  OBVIOUS
<1>3. <<>> \o p = p
  <2> HIDE DEF p
  <2> QED
    BY <1>1
<1>4. parts = [j \in {1} |-> p]
  BY <1>2, <1>3
<1>5. parts = Append(<<>>, p)
  <2> HIDE DEF p, parts
  <2> QED
    BY <1>4
<1> HIDE DEF p, parts
<1>6. FlattenSeq(Append(<<>>, p)) = FlattenSeq(<<>>) \o p
  <2>1. <<>> \in Seq(Seq(Letters))
    OBVIOUS
  <2> QED
    BY <1>1, <2>1, FlattenAppend
<1>7. JoinParagraphs(t, <<i>>) = FlattenSeq(parts)
  BY DEF JoinParagraphs, parts
<1> QED
  BY <1>3, <1>5, <1>6, <1>7, FlattenNone DEF p

Chunked(t) == Seq(Seq(Places(t)))

\* What the chunks of the first n paragraphs are.
HasTaken(t, n, c) ==
  /\ c \in Chunked(t)
  /\ FlattenSeq(c) = [i \in 1..n |-> i]
  /\ \A k \in 1..Len(c) :
       Len(c[k]) >= 1 /\ (Len(c[k]) = 1 \/ Len(JoinParagraphs(t, c[k])) <= ParentSize)
  /\ \A k \in 2..Len(c) : ~Fits(t, c[k - 1], c[k][1])

LEMMA CountOn == ASSUME NEW n \in Nat PROVE Append([i \in 1..n |-> i], n + 1) = [i \in 1..(n + 1) |-> i]
OBVIOUS

LEMMA ShorterBy ==
  ASSUME NEW A, NEW s \in Seq(A), NEW i \in 1..Len(s)
  PROVE  /\ SubSeq(s, 1, i - 1) \in Seq(A) /\ Len(SubSeq(s, 1, i - 1)) = i - 1
         /\ \A k \in 1..(i - 1) : SubSeq(s, 1, i - 1)[k] = s[k]
OBVIOUS

LEMMA FrontAndLast ==
  ASSUME NEW A, NEW s \in Seq(A), s # <<>>
  PROVE  /\ Front(s) \in Seq(A) /\ Last(s) \in A /\ Len(s) \in Nat \ {0} /\ Len(Front(s)) = Len(s) - 1
         /\ s = Append(Front(s), Last(s)) /\ Last(s) = s[Len(s)]
         /\ \A k \in 1..(Len(s) - 1) : Front(s)[k] = s[k]
<1> DEFINE n == Len(s)
           f == SubSeq(s, 1, n - 1)
<1>1. n \in Nat \ {0} /\ \A k \in 1..n : s[k] \in A
  OBVIOUS
<1>2. f \in Seq(A) /\ Len(f) = n - 1 /\ \A k \in 1..(n - 1) : f[k] = s[k]
  <2>1. n \in 1..Len(s)
    BY <1>1
  <2> HIDE DEF n
  <2> QED
    BY <2>1, ShorterBy
<1>3. s = Append(f, s[n])
  BY <1>1, <1>2
<1>4. Front(s) = f /\ Last(s) = s[n]
  BY DEF Front, Last
<1> HIDE DEF f
<1> QED
  BY <1>1, <1>2, <1>3, <1>4

LEMMA CatAppend ==
  ASSUME NEW A, NEW r \in Seq(A), NEW s \in Seq(A), NEW x \in A
  PROVE  Cat(r, Append(s, x)) = Append(Cat(r, s), x)
BY DEF Cat

LEMMA AppendIsCat == ASSUME NEW A, NEW r \in Seq(A), NEW x \in A PROVE Append(r, x) = r \o <<x>>
OBVIOUS

LEMMA HasTakenNext ==
  ASSUME NEW t \in Texts, NEW n \in Nat, n + 1 \in Places(t), NEW c, HasTaken(t, n, c)
  PROVE  HasTaken(t, n + 1, TakeParagraph(t, c, n + 1))
<1> DEFINE N == Places(t)
           L == Seq(N)
           m == Len(c)
           j == n + 1
<1>1. c \in Seq(L) /\ m \in Nat /\ \A k \in 1..m : c[k] \in L
  BY DEF HasTaken, Chunked
<1>2. FlattenSeq(c) \o <<j>> = [i \in 1..j |-> i]
  <2>1. FlattenSeq(c) = [i \in 1..n |-> i] /\ FlattenSeq(c) \in Seq(Nat)
    BY DEF HasTaken
  <2>2. Append([i \in 1..n |-> i], j) = [i \in 1..j |-> i]
    BY CountOn
  <2>3. Append(FlattenSeq(c), j) = FlattenSeq(c) \o <<j>>
    BY <2>1
  <2> QED
    BY <2>1, <2>2, <2>3
<1>3. CASE c # <<>> /\ Fits(t, Last(c), j)
  <2> DEFINE f == Front(c)
             l == Last(c)
             e == Append(l, j)
             q == Append(f, e)
  <2>1. TakeParagraph(t, c, j) = q
    BY <1>3 DEF TakeParagraph
  <2>2. /\ f \in Seq(L) /\ l \in L /\ m \in Nat \ {0} /\ Len(f) = m - 1 /\ c = Append(f, l)
        /\ l = c[m] /\ \A k \in 1..(m - 1) : f[k] = c[k]
    <3> HIDE DEF L
    <3> QED
      BY <1>1, <1>3, FrontAndLast
  <2> HIDE DEF f, l
  <2>3. e \in L /\ Len(e) = Len(l) + 1 /\ Len(l) \in Nat /\ (Len(l) >= 1 => e[1] = l[1])
    BY <2>2
  <2> HIDE DEF e, L
  <2>4. /\ q \in Seq(L) /\ Len(q) = m /\ q[m] = e /\ \A k \in 1..(m - 1) : q[k] = c[k]
    BY <2>2, <2>3
  <2>5. FlattenSeq(q) = [i \in 1..j |-> i]
    <3>1. FlattenSeq(Append(f, e)) = FlattenSeq(f) \o e
      BY <2>2, <2>3, FlattenAppend DEF L
    <3>2. FlattenSeq(Append(f, l)) = FlattenSeq(f) \o l
      BY <2>2, <2>3, FlattenAppend DEF L
    <3>3. FlattenSeq(f) \in Seq(N)
      BY <2>2, FlattenType DEF L
    <3>4. (FlattenSeq(f) \o l) \o <<j>> = FlattenSeq(f) \o e
      <4>1. l \in Seq(N) /\ j \in N
        BY <2>2 DEF L
      <4>2. Cat(FlattenSeq(f), l) \in Seq(N)
        BY <3>3, <4>1 DEF Cat
      <4> HIDE DEF N, j
      <4>3. Cat(FlattenSeq(f), Append(l, j)) = Append(Cat(FlattenSeq(f), l), j)
        BY <3>3, <4>1, CatAppend
      <4>4. Append(Cat(FlattenSeq(f), l), j) = Cat(FlattenSeq(f), l) \o <<j>>
        BY <4>1, <4>2, AppendIsCat
      <4> QED
        BY <4>3, <4>4 DEF e, Cat
    <3> QED
      BY <1>2, <2>2, <3>1, <3>2, <3>4
  <2> HIDE DEF q
  <2>6. ASSUME NEW k \in 1..m
        PROVE  Len(q[k]) >= 1 /\ (Len(q[k]) = 1 \/ Len(JoinParagraphs(t, q[k])) <= ParentSize)
    <3>1. CASE k = m
      <4>1. Len(JoinParagraphs(t, e)) <= ParentSize
        BY <1>3 DEF Fits, e, l
      <4> QED
        BY <2>3, <2>4, <3>1, <4>1
    <3>2. CASE k # m
      <4>1. q[k] = c[k]
        BY <2>2, <2>4, <3>2
      <4> QED
        BY <4>1 DEF HasTaken
    <3> QED
      BY <3>1, <3>2
  <2>7. ASSUME NEW k \in 2..m PROVE ~Fits(t, q[k - 1], q[k][1])
    <3>1. q[k - 1] = c[k - 1]
      BY <2>2, <2>4
    <3>2. q[k][1] = c[k][1]
      <4>1. CASE k = m
        <5>1. Len(c[m]) >= 1
          BY <2>2 DEF HasTaken
        <5> QED
          BY <2>2, <2>3, <2>4, <4>1, <5>1
      <4>2. CASE k # m
        BY <2>2, <2>4, <4>2
      <4> QED
        BY <4>1, <4>2
    <3> QED
      BY <3>1, <3>2 DEF HasTaken
  <2>8. HasTaken(t, j, q)
    BY <2>4, <2>5, <2>6, <2>7 DEF HasTaken, Chunked, L
  <2> QED
    BY <2>1, <2>8
<1>4. CASE ~(c # <<>> /\ Fits(t, Last(c), j))
  <2> DEFINE e == <<j>>
             q == Append(c, e)
  <2>1. TakeParagraph(t, c, j) = q
    BY <1>4 DEF TakeParagraph
  <2>2. e \in L /\ Len(e) = 1 /\ e[1] = j
    OBVIOUS
  <2>3. FlattenSeq(q) = [i \in 1..j |-> i]
    <3>1. FlattenSeq(q) = FlattenSeq(c) \o e
      <4> HIDE DEF e
      <4> QED
        BY <1>1, <2>2, FlattenAppend
    <3> QED
      BY <1>2, <3>1
  <2> HIDE DEF e, L
  <2>4. /\ q \in Seq(L) /\ Len(q) = m + 1 /\ q[m + 1] = e /\ \A k \in 1..m : q[k] = c[k]
    BY <1>1, <2>2
  <2> HIDE DEF q
  <2>5. ASSUME NEW k \in 1..(m + 1)
        PROVE  Len(q[k]) >= 1 /\ (Len(q[k]) = 1 \/ Len(JoinParagraphs(t, q[k])) <= ParentSize)
    <3>1. CASE k = m + 1
      <4>1. Len(q[k]) = 1
        BY <2>2, <2>4, <3>1
      <4> QED
        BY <4>1
    <3>2. CASE k # m + 1
      <4>1. k \in 1..m /\ q[k] = c[k]
        BY <1>1, <2>4, <3>2
      <4> QED
        BY <4>1 DEF HasTaken
    <3> QED
      BY <3>1, <3>2
  <2>6. ASSUME NEW k \in 2..(m + 1) PROVE ~Fits(t, q[k - 1], q[k][1])
    <3>1. q[k - 1] = c[k - 1]
      BY <1>1, <2>4
    <3>2. CASE k = m + 1
      <4>1. q[k][1] = j /\ k - 1 = m
        BY <1>1, <2>2, <2>4, <3>2
      <4>2. c # <<>>
        BY <1>1, <3>2
      <4> QED
        BY <1>4, <3>1, <4>1, <4>2 DEF Last
    <3>3. CASE k # m + 1
      <4>1. k \in 2..m /\ q[k] = c[k]
        BY <1>1, <2>4, <3>3
      <4> QED
        BY <3>1, <4>1 DEF HasTaken
    <3> QED
      BY <3>2, <3>3
  <2>7. HasTaken(t, j, q)
    BY <2>3, <2>4, <2>5, <2>6 DEF HasTaken, Chunked, L
  <2> QED
    BY <2>1, <2>7
<1> QED
  BY <1>3, <1>4

LEMMA TakeType ==
  ASSUME NEW t \in Texts, NEW c \in Chunked(t), NEW i \in Places(t)
  PROVE  TakeParagraph(t, c, i) \in Chunked(t)
<1> DEFINE L == Seq(Places(t))
<1>1. c \in Seq(L) /\ <<i>> \in L
  BY DEF Chunked
<1>2. CASE c # <<>> /\ Fits(t, Last(c), i)
  <2>1. Front(c) \in Seq(L) /\ Last(c) \in L
    <3> HIDE DEF L
    <3> QED
      BY <1>1, <1>2, FrontAndLast
  <2>2. Append(Last(c), i) \in L
    BY <2>1
  <2> HIDE DEF L
  <2>3. Append(Front(c), Append(Last(c), i)) \in Seq(L)
    BY <2>1, <2>2
  <2> QED
    BY <1>2, <2>3 DEF TakeParagraph, Chunked, L
<1>3. CASE ~(c # <<>> /\ Fits(t, Last(c), i))
  <2> HIDE DEF L
  <2>1. Append(c, <<i>>) \in Seq(L)
    BY <1>1
  <2> QED
    BY <1>3, <2>1 DEF TakeParagraph, Chunked, L
<1> QED
  BY <1>2, <1>3

\* The paragraphs are taken one after the other.
LEMMA CoarseRounds ==
  ASSUME NEW t \in Texts
  PROVE  \E after :
           /\ CoarseChunks(t) = after[Len(t.paragraphs)]
           /\ after[0] = <<>>
           /\ \A i \in 1..Len(t.paragraphs) : after[i] = TakeParagraph(t, after[i - 1], i)
<1> DEFINE m == Len(t.paragraphs)
           Lst == Chunked(t)
           step == [i \in 1..m |-> [c \in Lst |-> TakeParagraph(t, c, i)]]
<1>1. m \in Nat /\ <<>> \in Lst /\ Places(t) = 1..m
  BY TextIs DEF Chunked
<1>2. step \in [1..m -> [Lst -> Lst]]
  <2>1. \A i \in 1..m : \A c \in Lst : TakeParagraph(t, c, i) \in Lst
    BY <1>1, TakeType
  <2> QED
    BY <2>1
<1>3. PICK f \in [0..m -> Lst] : f[0] = <<>> /\ \A i \in 1..m : f[i] = step[i][f[i - 1]]
  <2>1. IsLoop(Lst, <<>>, m, step)
    BY <1>1, <1>2 DEF IsLoop
  <2> HIDE DEF step, Lst, m
  <2> QED
    BY <2>1, Rounds DEF HasHistory
<1>4. f = [i \in 0..m |-> IF i = 0 THEN <<>> ELSE TakeParagraph(t, f[i - 1], i)]
  <2>1. ASSUME NEW i \in 1..m PROVE f[i] = TakeParagraph(t, f[i - 1], i)
    <3>1. i - 1 \in 0..m
      BY <1>1
    <3>2. f[i - 1] \in Lst
      BY <1>3, <3>1
    <3> QED
      BY <1>3, <3>2
  <2>2. ASSUME NEW i \in 0..m PROVE f[i] = IF i = 0 THEN <<>> ELSE TakeParagraph(t, f[i - 1], i)
    BY <1>1, <1>3, <2>1
  <2> HIDE DEF Lst
  <2> QED
    BY <1>3, <2>2
<1>5. PICK g : /\ g = [i \in 0..m |-> IF i = 0 THEN <<>> ELSE TakeParagraph(t, g[i - 1], i)]
               /\ CoarseChunks(t) = g[m]
  BY <1>4 DEF CoarseChunks
<1>6. \A i \in 0..m : g[i] = IF i = 0 THEN <<>> ELSE TakeParagraph(t, g[i - 1], i)
  BY <1>5, Zenon
<1>7. g[0] = <<>> /\ \A i \in 1..m : g[i] = TakeParagraph(t, g[i - 1], i)
  BY <1>1, <1>6
<1> QED
  BY <1>5, <1>7

LEMMA CoarseIs == ASSUME NEW t \in Texts PROVE HasTaken(t, Len(t.paragraphs), CoarseChunks(t))
<1> DEFINE m == Len(t.paragraphs)
<1>1. m \in Nat /\ Places(t) = 1..m
  BY TextIs
<1>2. PICK after :
        /\ CoarseChunks(t) = after[m] /\ after[0] = <<>>
        /\ \A i \in 1..m : after[i] = TakeParagraph(t, after[i - 1], i)
  BY CoarseRounds
<1> DEFINE S == {n \in Nat : HasTaken(t, n, after[n])}
<1>3. 0 \in S
  <2>1. HasTaken(t, 0, <<>>)
    BY FlattenNone DEF HasTaken, Chunked
  <2> QED
    BY <1>2, <2>1
<1>4. ASSUME NEW n \in 0..(m - 1), n \in S PROVE n + 1 \in S
  <2>1. n + 1 \in 1..m /\ n + 1 - 1 = n /\ n + 1 \in Nat /\ n \in Nat /\ n + 1 \in Places(t)
    BY <1>1
  <2>2. after[n + 1] = TakeParagraph(t, after[n], n + 1)
    BY <1>2, <2>1
  <2>3. HasTaken(t, n + 1, TakeParagraph(t, after[n], n + 1))
    BY <1>4, <2>1, HasTakenNext
  <2> QED
    BY <2>1, <2>2, <2>3
<1> HIDE DEF S
<1>5. \A n \in 0..m : n \in S
  BY <1>1, <1>3, <1>4, CountUp
<1>6. HasTaken(t, m, after[m])
  BY <1>1, <1>5 DEF S
<1> QED
  BY <1>2, <1>6

-----------------------------------------------------------------------------
(* The parents the chunks are cut into                                     *)

\* No parent is too long, and one that is whole stands at its place.
GoodParents(t) ==
  {p \in [text : Chars, place : Nat, whole : BOOLEAN] :
     /\ Len(p.text) <= ParentSize
     /\ p.whole => Stands(RawText(t), p.place, p.text)}

LEMMA DivBound ==
  ASSUME NEW a \in Nat, NEW s \in Nat \ {0}, NEW j \in 0..(a \div s)
  PROVE  j * s \in Nat /\ j * s <= a
<1> DEFINE q == a \div s
<1>1. q \in Nat /\ s * q <= a
  OBVIOUS
<1> HIDE DEF q
<1>2. j \in Nat /\ q - j \in Nat
  BY <1>1 DEF q
<1>3. j * s \in Nat /\ (q - j) * s \in Nat
  BY <1>2
<1>4. j * s + (q - j) * s = s * q
  BY <1>1, <1>2
<1> QED
  BY <1>1, <1>3, <1>4

LEMMA DivType == ASSUME NEW a \in Nat, NEW s \in Nat \ {0} PROVE a \div s \in Nat
OBVIOUS

LEMMA MinOfTwo ==
  ASSUME NEW a \in Int, NEW b \in Int
  PROVE  Min({a, b}) \in Int /\ Min({a, b}) <= a /\ Min({a, b}) <= b /\ Min({a, b}) \in {a, b}
<1>1. \E x \in {a, b} : \A y \in {a, b} : x <= y
  OBVIOUS
<1> QED
  BY <1>1 DEF Min

LEMMA WindowOf ==
  ASSUME NEW A, NEW s \in Seq(A), NEW from \in Nat, NEW to \in Nat, from <= to, to <= Len(s)
  PROVE  /\ SubSeq(s, from + 1, to) \in Seq(A) /\ Len(SubSeq(s, from + 1, to)) = to - from
         /\ \A x \in 1..(to - from) : SubSeq(s, from + 1, to)[x] = s[from + x]
OBVIOUS

\* A window of what stands in the text stands there too.
LEMMA WindowStands ==
  ASSUME NEW A, NEW text, Len(text) \in Nat, NEW place \in Nat, NEW s \in Seq(A), Stands(text, place, s),
         NEW from \in Nat, NEW to \in Nat, from <= to, to <= Len(s)
  PROVE  Stands(text, place + from, SubSeq(s, from + 1, to))
<1> DEFINE w == SubSeq(s, from + 1, to)
<1>1. Len(w) = to - from /\ \A x \in 1..(to - from) : w[x] = s[from + x]
  BY WindowOf
<1>2. Len(s) \in Nat
  OBVIOUS
<1> HIDE DEF w
<1>3. \A x \in 1..(to - from) : from + x \in 1..Len(s) /\ place + (from + x) = place + from + x
  BY <1>2
<1>4. place + from + (to - from) <= Len(text)
  BY <1>2 DEF Stands
<1>5. \A x \in 1..(to - from) : text[place + from + x] = w[x]
  BY <1>1, <1>3 DEF Stands
<1>6. Stands(text, place + from, w)
  BY <1>1, <1>4, <1>5 DEF Stands
<1> QED
  BY <1>6 DEF w

LEMMA PrefixStands ==
  ASSUME NEW A, NEW text \in Seq(A), NEW s \in Seq(A), NEW place \in Nat, place <= Len(text),
         IsPrefix(s, SubSeq(text, place + 1, Len(text)))
  PROVE  Stands(text, place, s)
<1> DEFINE w == SubSeq(text, place + 1, Len(text))
<1>1. Len(text) \in Nat /\ Len(s) \in Nat
  OBVIOUS
<1>2. /\ w \in Seq(A) /\ Len(w) = Len(text) - place
      /\ \A x \in 1..(Len(text) - place) : w[x] = text[place + x]
  BY <1>1, WindowOf
<1> HIDE DEF w
<1>3. Len(s) <= Len(w) /\ SubSeq(s, 1, Len(s)) = SubSeq(w, 1, Len(s))
  BY DEF IsPrefix, w
<1>4. \A x \in 1..Len(s) : s[x] = w[x]
  <2>1. \A x \in 1..Len(s) : SubSeq(s, 1, Len(s))[x] = s[x]
    BY <1>1
  <2>2. \A x \in 1..Len(s) : SubSeq(w, 1, Len(s))[x] = w[x]
    BY <1>1, <1>2, <1>3
  <2> QED
    BY <1>3, <2>1, <2>2
<1> QED
  BY <1>1, <1>2, <1>3, <1>4 DEF Stands

LEMMA PiecesAreGood ==
  ASSUME NEW t \in Texts, NEW i \in Places(t), Len(t.paragraphs[i]) > ParentSize,
         NEW stride \in (ParentSize - ChunkOverlap)..ParentSize
  PROVE  Pieces(t.paragraphs[i], Place(t, i), stride) \in Seq(GoodParents(t))
<1> DEFINE s == t.paragraphs[i]
           place == Place(t, i)
           raw == RawText(t)
           a == Len(s) - ParentSize + stride - 1
           q == a \div stride
           n == q + 1
           To(skip) == Min({skip + ParentSize, Len(s)})
<1>1. s \in Chars /\ raw \in Chars /\ place \in Nat /\ Stands(raw, place, s)
  BY TextIs, ParagraphStands
<1>2. Len(s) \in Nat /\ Len(raw) \in Nat
  <2> HIDE DEF s, raw
  <2> QED
    BY <1>1 DEF Chars
<1>3. stride \in Nat \ {0} /\ ParentSize \in Nat \ {0} /\ stride <= ParentSize
  BY SplitAssumption
<1>4. a \in Nat /\ a <= Len(s) - 1 /\ a < Len(s)
  BY <1>2, <1>3
<1>5. q \in Nat
  <2> HIDE DEF a
  <2> QED
    BY <1>3, <1>4, DivType
<1> HIDE DEF s, place, raw, q, To
<1>6. ASSUME NEW k \in 1..n
      PROVE  LET skip == (k - 1) * stride
             IN  ParentChunk(SubSeq(s, skip + 1, To(skip)), place + skip, TRUE) \in GoodParents(t)
  <2> DEFINE skip == (k - 1) * stride
  <2>1. skip \in Nat /\ skip <= a
    <3>1. k - 1 \in 0..q
      BY <1>5
    <3> HIDE DEF a
    <3> QED
      BY <1>3, <1>4, <3>1, DivBound DEF q
  <2> HIDE DEF skip, a
  <2>2. To(skip) \in Int /\ To(skip) <= skip + ParentSize /\ To(skip) <= Len(s)
        /\ To(skip) \in {skip + ParentSize, Len(s)}
    <3> DEFINE b == skip + ParentSize
               c == Len(s)
    <3>1. b \in Int /\ c \in Int
      BY <1>2, <1>3, <2>1
    <3> HIDE DEF b, c
    <3>2. /\ Min({b, c}) \in Int /\ Min({b, c}) <= b /\ Min({b, c}) <= c
          /\ Min({b, c}) \in {b, c}
      BY <3>1, MinOfTwo
    <3> QED
      BY <3>2 DEF To, b, c
  <2>3. To(skip) \in Nat /\ skip <= To(skip) /\ To(skip) - skip <= ParentSize
    BY <1>2, <1>3, <1>4, <2>1, <2>2
  <2> DEFINE e == To(skip)
             w == SubSeq(s, skip + 1, e)
  <2> HIDE DEF e
  <2>4. e \in Nat /\ skip <= e /\ e <= Len(s) /\ e - skip <= ParentSize
    BY <2>2, <2>3 DEF e
  <2>5. w \in Chars /\ Len(w) = e - skip
    BY <1>1, <2>1, <2>4, WindowOf DEF Chars
  <2>6. Stands(raw, place + skip, w)
    BY <1>1, <1>2, <2>1, <2>4, WindowStands DEF Chars
  <2> HIDE DEF w
  <2>7. place + skip \in Nat
    BY <1>1, <2>1
  <2>8. ParentChunk(w, place + skip, TRUE) \in GoodParents(t)
    BY <2>4, <2>5, <2>6, <2>7 DEF ParentChunk, GoodParents, raw
  <2> QED
    BY <2>8 DEF w, e, skip
<1> DEFINE piece == [k \in 1..n |-> LET skip == (k - 1) * stride
                                    IN  ParentChunk(SubSeq(s, skip + 1, To(skip)), place + skip, TRUE)]
<1>7. Pieces(s, place, stride) = piece
  BY DEF Pieces, q, To
<1> DEFINE G == GoodParents(t)
<1>8. piece \in Seq(G)
  <2>1. \A k \in 1..n : piece[k] \in G
    BY <1>6
  <2>2. piece = [k \in 1..n |-> piece[k]]
    OBVIOUS
  <2> HIDE DEF piece, G, n
  <2> QED
    BY <1>5, <2>1, <2>2 DEF n
<1> QED
  BY <1>7, <1>8 DEF s, place

LEMMA ParentsAreGood ==
  ASSUME NEW t \in Texts, NEW c, HasTaken(t, Len(t.paragraphs), c),
         NEW stride \in (ParentSize - ChunkOverlap)..ParentSize
  PROVE  ParentsOf(t, c, stride) \in Seq(GoodParents(t))
<1> DEFINE G == GoodParents(t)
           Text(k) == JoinParagraphs(t, c[k])
           At(k) == Place(t, c[k][1])
           Rest(k) == SubSeq(RawText(t), At(k) + 1, Len(RawText(t)))
           Parts(k) == IF Len(Text(k)) > ParentSize THEN Pieces(Text(k), At(k), stride)
                       ELSE <<ParentChunk(Text(k), At(k), IsPrefix(Text(k), Rest(k)))>>
           parts == [k \in DOMAIN c |-> Parts(k)]
<1>1. Len(c) \in Nat /\ DOMAIN c = 1..Len(c)
  BY DEF HasTaken, Chunked
<1>2. ParentSize \in Nat
  BY SplitAssumption
<1>3. ASSUME NEW k \in DOMAIN c PROVE Parts(k) \in Seq(G)
  <2>1. c[k] \in Seq(Places(t)) /\ Len(c[k]) >= 1 /\ (Len(c[k]) = 1 \/ Len(Text(k)) <= ParentSize)
    BY <1>1 DEF HasTaken, Chunked
  <2> DEFINE i == c[k][1]
  <2>2. i \in Places(t)
    BY <2>1
  <2>3. RawText(t) \in Chars /\ At(k) \in Nat /\ Stands(RawText(t), At(k), t.paragraphs[i])
    BY <2>2, ParagraphStands
  <2>4. Text(k) \in Chars
    BY <2>1, JoinType
  <2>5. Len(Text(k)) \in Nat
    <3> HIDE DEF Text
    <3> QED
      BY <2>4 DEF Chars
  <2>6. CASE Len(Text(k)) > ParentSize
    <3>1. Len(c[k]) = 1
      BY <1>2, <2>1, <2>5, <2>6
    <3>2. c[k] = <<i>>
      BY <2>1, <3>1
    <3>3. Text(k) = t.paragraphs[i]
      BY <2>2, <3>2, JoinOne
    <3>4. Pieces(t.paragraphs[i], Place(t, i), stride) \in Seq(G)
      BY <2>2, <2>6, <3>3, PiecesAreGood
    <3> QED
      BY <2>6, <3>3, <3>4
  <2>7. CASE ~(Len(Text(k)) > ParentSize)
    <3>1. Len(RawText(t)) \in Nat /\ At(k) <= Len(RawText(t))
      <4>1. t.paragraphs[i] \in Chars
        BY <2>2, TextIs
      <4> DEFINE p == t.paragraphs[i]
                 raw == RawText(t)
      <4>2. p \in Seq(Letters) /\ raw \in Seq(Letters)
        BY <2>3, <4>1 DEF Chars
      <4>3. At(k) + Len(p) <= Len(raw)
        BY <2>3 DEF Stands
      <4> HIDE DEF p, raw, At
      <4>4. Len(p) \in Nat /\ Len(raw) \in Nat
        BY <4>2
      <4> QED
        BY <2>3, <4>3, <4>4 DEF raw
    <3> DEFINE w == IsPrefix(Text(k), Rest(k))
    <3>2. w => Stands(RawText(t), At(k), Text(k))
      <4> HIDE DEF Text, At
      <4> QED
        BY <2>3, <2>4, <3>1, PrefixStands DEF Chars
    <3>3. w \in BOOLEAN
      BY DEF IsPrefix
    <3> HIDE DEF w, Text, At
    <3>4. ParentChunk(Text(k), At(k), w) \in G
      BY <1>2, <2>3, <2>4, <2>5, <2>7, <3>2, <3>3 DEF GoodParents, ParentChunk
    <3> HIDE DEF G
    <3>5. <<ParentChunk(Text(k), At(k), w)>> \in Seq(G)
      BY <3>4
    <3> QED
      BY <2>7, <3>5 DEF w
  <2> QED
    BY <2>6, <2>7
<1> HIDE DEF Parts, G
<1>4. parts \in Seq(Seq(G))
  BY <1>1, <1>3
<1>5. ParentsOf(t, c, stride) = FlattenSeq(parts)
  BY DEF ParentsOf, Parts
<1> HIDE DEF parts
<1> QED
  BY <1>4, <1>5, FlattenType DEF G

\* The chunks and the parents of a text that has been split.
SplitAs(t, c, parents) ==
  HasTaken(t, Len(t.paragraphs), c) /\ parents \in Seq(GoodParents(t))

LEMMA SplitAsWhole ==
  ASSUME NEW t \in Texts, NEW c, NEW parents, SplitAs(t, c, parents)
  PROVE  /\ FlattenSeq(c) = [i \in DOMAIN t.paragraphs |-> i]
         /\ \A k \in DOMAIN parents : Len(parents[k].text) <= ParentSize
         /\ \A k \in DOMAIN c \ {1} : Len(JoinParagraphs(t, Append(c[k - 1], c[k][1]))) > ParentSize
<1>1. FlattenSeq(c) = [i \in DOMAIN t.paragraphs |-> i]
  BY TextIs DEF SplitAs, HasTaken, Places
<1>2. \A k \in DOMAIN parents : Len(parents[k].text) <= ParentSize
  <2>1. parents \in Seq(GoodParents(t))
    BY DEF SplitAs
  <2>2. \A k \in DOMAIN parents : parents[k] \in GoodParents(t)
    BY <2>1
  <2> QED
    BY <2>2 DEF GoodParents
<1>3. ASSUME NEW k \in DOMAIN c \ {1}
      PROVE  Len(JoinParagraphs(t, Append(c[k - 1], c[k][1]))) > ParentSize
  <2>1. /\ c \in Seq(Seq(Places(t))) /\ \A j \in 1..Len(c) : Len(c[j]) >= 1
        /\ \A j \in 2..Len(c) : ~Fits(t, c[j - 1], c[j][1])
    BY DEF SplitAs, HasTaken, Chunked
  <2>2. k \in 2..Len(c) /\ k - 1 \in 1..Len(c) /\ k \in 1..Len(c)
    BY <2>1
  <2>3. c[k - 1] \in Seq(Places(t)) /\ c[k] \in Seq(Places(t)) /\ Len(c[k]) >= 1
    BY <2>1, <2>2
  <2>4. c[k][1] \in Places(t)
    BY <2>3
  <2> DEFINE s == Append(c[k - 1], c[k][1])
  <2>5. s \in Seq(Places(t))
    BY <2>3, <2>4
  <2>6. ~(Len(JoinParagraphs(t, s)) <= ParentSize)
    BY <2>1, <2>2 DEF Fits
  <2> HIDE DEF s
  <2> DEFINE j == JoinParagraphs(t, s)
  <2>7. j \in Seq(Letters)
    BY <2>5, JoinType DEF Chars
  <2> HIDE DEF j
  <2>8. Len(j) \in Nat
    BY <2>7
  <2>9. Len(j) > ParentSize
    BY <2>6, <2>8, SplitAssumption DEF j
  <2> QED
    BY <2>9 DEF j, s
<1> QED
  BY <1>1, <1>2, <1>3

-----------------------------------------------------------------------------
(* Where the parents are looked for                                        *)

\* What String.indexOf returns.
LEMMA IndexOfIs ==
  ASSUME NEW text \in Chars, NEW probe \in Chars, NEW from \in Nat
  PROVE  LET idx == IndexOf(text, probe, from)
         IN  /\ idx = -1 \/ (idx \in Nat /\ from <= idx /\ idx + Len(probe) <= Len(text))
             /\ \A place \in Nat :
                  Stands(text, place, probe) /\ from <= place => idx # -1 /\ idx <= place
<1> DEFINE found == {i \in from..(Len(text) - Len(probe)) :
                       SubSeq(text, i + 1, i + Len(probe)) = probe}
           idx == IndexOf(text, probe, from)
<1>1. Len(text) \in Nat /\ Len(probe) \in Nat
  BY DEF Chars
<1>2. found \subseteq Nat /\ \A i \in found : from <= i /\ i + Len(probe) <= Len(text)
  BY <1>1
<1>3. idx = IF found = {} THEN -1 ELSE Min(found)
  BY DEF IndexOf
<1>4. ASSUME NEW place \in Nat, Stands(text, place, probe), from <= place
      PROVE  place \in found
  <2> DEFINE w == SubSeq(text, place + 1, place + Len(probe))
  <2>1. place + Len(probe) <= Len(text) /\ \A x \in 1..Len(probe) : text[place + x] = probe[x]
    BY <1>4 DEF Stands
  <2>2. w \in Chars /\ Len(w) = Len(probe) /\ \A x \in 1..Len(probe) : w[x] = text[place + x]
    <3> DEFINE e == place + Len(probe)
    <3>1. e \in Nat /\ place <= e /\ e - place = Len(probe)
      BY <1>1
    <3> HIDE DEF e
    <3>2. /\ SubSeq(text, place + 1, e) \in Seq(Letters) /\ Len(SubSeq(text, place + 1, e)) = e - place
          /\ \A x \in 1..(e - place) : SubSeq(text, place + 1, e)[x] = text[place + x]
      BY <2>1, <3>1, WindowOf DEF Chars, e
    <3> QED
      BY <3>1, <3>2 DEF Chars, e
  <2> HIDE DEF w
  <2>3. w = probe
    BY <2>1, <2>2 DEF Chars
  <2>4. place \in from..(Len(text) - Len(probe))
    BY <1>1, <1>4, <2>1
  <2> QED
    BY <2>3, <2>4 DEF w
<1> HIDE DEF found, idx
<1>5. CASE found = {}
  <2>1. idx = -1
    BY <1>3, <1>5
  <2> QED
    BY <1>4, <1>5, <2>1 DEF idx
<1>6. CASE found # {}
  <2>1. idx \in found /\ \A i \in found : idx <= i
    BY <1>2, <1>3, <1>6, MinIs
  <2>2. idx \in Nat /\ idx # -1
    BY <1>2, <2>1
  <2> QED
    BY <1>2, <1>4, <2>1, <2>2 DEF idx
<1> QED
  BY <1>5, <1>6

Found == [searchStart : Nat, offsets : Seq(Nat)]

Whereabouts(start, offsets) == [searchStart |-> start, offsets |-> offsets]

LEMMA FoundIs ==
  ASSUME NEW found \in Found
  PROVE  found.searchStart \in Nat /\ found.offsets \in Seq(Nat)
BY DEF Found

LEMMA OtherOffsets ==
  ASSUME NEW start, NEW offsets, NEW others
  PROVE  [Whereabouts(start, offsets) EXCEPT !.offsets = others] = Whereabouts(start, others)
BY DEF Whereabouts

LEMMA NextOffsetIs ==
  ASSUME NEW text \in Chars, NEW found \in Found, NEW chunk \in Chars
  PROVE  LET idx == IndexOf(text, Probe(chunk), found.searchStart)
         IN  NextOffset(text, found, chunk) =
               IF idx = -1 THEN Whereabouts(found.searchStart, Append(found.offsets, found.searchStart))
               ELSE Whereabouts(idx + Len(chunk), Append(found.offsets, idx))
<1> DEFINE idx == IndexOf(text, Probe(chunk), found.searchStart)
<1>1. NextOffset(text, found, chunk) =
        IF idx = -1 THEN [found EXCEPT !.offsets = Append(@, found.searchStart)]
        ELSE Whereabouts(idx + Len(chunk), Append(found.offsets, idx))
  BY DEF NextOffset, Whereabouts
<1>2. [found EXCEPT !.offsets = Append(@, found.searchStart)]
        = Whereabouts(found.searchStart, Append(found.offsets, found.searchStart))
  <2> DEFINE others == Append(found.offsets, found.searchStart)
  <2>1. found = Whereabouts(found.searchStart, found.offsets)
    BY DEF Found, Whereabouts
  <2>2. [Whereabouts(found.searchStart, found.offsets) EXCEPT !.offsets = others]
          = Whereabouts(found.searchStart, others)
    BY OtherOffsets
  <2>3. [found EXCEPT !.offsets = Append(@, found.searchStart)] = [found EXCEPT !.offsets = others]
    OBVIOUS
  <2> HIDE DEF others
  <2>4. [found EXCEPT !.offsets = others] = Whereabouts(found.searchStart, others)
    BY <2>1, <2>2, Zenon
  <2> QED
    BY <2>3, <2>4 DEF others
<1> HIDE DEF idx
<1>3. NextOffset(text, found, chunk) =
        IF idx = -1 THEN Whereabouts(found.searchStart, Append(found.offsets, found.searchStart))
        ELSE Whereabouts(idx + Len(chunk), Append(found.offsets, idx))
  BY <1>1, <1>2
<1> QED
  BY <1>3 DEF idx

\* A chunk begins with its probe.
LEMMA ProbeIs ==
  ASSUME NEW chunk \in Chars
  PROVE  /\ Probe(chunk) \in Chars
         /\ \A text \in Chars, place \in Nat : Stands(text, place, chunk) => Stands(text, place, Probe(chunk))
<1> DEFINE b == Len(chunk)
           e == Min({ProbeSize, b})
<1>1. b \in Nat /\ ProbeSize \in Nat
  BY SplitAssumption DEF Chars
<1> HIDE DEF b
<1>2. e \in Nat /\ e <= b
  BY <1>1, MinOfTwo
<1>3. Probe(chunk) = SubSeq(chunk, 0 + 1, e)
  BY DEF Probe, b
<1> HIDE DEF e
<1>4. Probe(chunk) \in Chars
  BY <1>2, <1>3, WindowOf DEF Chars, b
<1>5. ASSUME NEW text \in Chars, NEW place \in Nat, Stands(text, place, chunk)
      PROVE  Stands(text, place, Probe(chunk))
  <2>1. Len(text) \in Nat
    BY DEF Chars
  <2>2. Stands(text, place + 0, SubSeq(chunk, 0 + 1, e))
    BY <1>2, <1>5, <2>1, WindowStands DEF Chars, b
  <2> QED
    BY <1>3, <2>2
<1> QED
  BY <1>4, <1>5

LEMMA NextOffsetType ==
  ASSUME NEW text \in Chars, NEW found \in Found, NEW chunk \in Chars
  PROVE  NextOffset(text, found, chunk) \in Found
<1> DEFINE idx == IndexOf(text, Probe(chunk), found.searchStart)
           start == found.searchStart
           offsets == found.offsets
<1>1. start \in Nat /\ offsets \in Seq(Nat) /\ Len(chunk) \in Nat
  BY FoundIs DEF Chars
<1>2. idx = -1 \/ idx \in Nat
  <2>1. Probe(chunk) \in Chars
    BY ProbeIs
  <2> QED
    BY <1>1, <2>1, IndexOfIs
<1>3. NextOffset(text, found, chunk) =
        IF idx = -1 THEN Whereabouts(start, Append(offsets, start))
        ELSE Whereabouts(idx + Len(chunk), Append(offsets, idx))
  BY NextOffsetIs
<1> HIDE DEF idx, start, offsets
<1>4. CASE idx = -1
  <2>1. Append(offsets, start) \in Seq(Nat)
    BY <1>1
  <2> QED
    BY <1>1, <1>3, <1>4, <2>1 DEF Found, Whereabouts
<1>5. CASE idx # -1
  <2>1. Append(offsets, idx) \in Seq(Nat) /\ idx + Len(chunk) \in Nat
    BY <1>1, <1>2, <1>5
  <2> QED
    BY <1>3, <1>5, <2>1 DEF Found, Whereabouts
<1> QED
  BY <1>4, <1>5

\* The chunks are looked for one after the other.
LEMMA OffsetRounds ==
  ASSUME NEW text \in Chars, NEW chunks \in Seq(Chars)
  PROVE  \E after \in [0..Len(chunks) -> Found] :
           /\ ChunkOffsets(text, chunks) = after[Len(chunks)].offsets
           /\ after[0] = Whereabouts(0, <<>>)
           /\ \A k \in 1..Len(chunks) : after[k] = NextOffset(text, after[k - 1], chunks[k])
<1> DEFINE m == Len(chunks)
           first == Whereabouts(0, <<>>)
           step == [k \in 1..m |-> [found \in Found |-> NextOffset(text, found, chunks[k])]]
<1>1. m \in Nat /\ \A k \in 1..m : chunks[k] \in Chars
  OBVIOUS
<1>2. first \in Found
  BY DEF Found, Whereabouts
<1>3. step \in [1..m -> [Found -> Found]]
  <2>1. \A k \in 1..m : \A found \in Found : NextOffset(text, found, chunks[k]) \in Found
    BY <1>1, NextOffsetType
  <2> QED
    BY <2>1
<1>4. PICK f \in [0..m -> Found] : f[0] = first /\ \A k \in 1..m : f[k] = step[k][f[k - 1]]
  <2>1. IsLoop(Found, first, m, step)
    BY <1>1, <1>2, <1>3 DEF IsLoop
  <2> HIDE DEF step, m, first
  <2> QED
    BY <2>1, Rounds DEF HasHistory
<1>5. \A k \in 1..m : f[k] = NextOffset(text, f[k - 1], chunks[k])
  <2> SUFFICES ASSUME NEW k \in 1..m PROVE f[k] = NextOffset(text, f[k - 1], chunks[k])
    OBVIOUS
  <2>1. k - 1 \in 0..m
    BY <1>1
  <2>2. f[k - 1] \in Found
    BY <1>4, <2>1
  <2> QED
    BY <1>4, <2>2
<1>6. f = [k \in 0..m |-> IF k = 0 THEN first ELSE NextOffset(text, f[k - 1], chunks[k])]
  <2>1. \A k \in 0..m : f[k] = IF k = 0 THEN first ELSE NextOffset(text, f[k - 1], chunks[k])
    <3> HIDE DEF first
    <3>1. \A k \in 0..m : k # 0 => k \in 1..m
      BY <1>1
    <3> QED
      BY <1>4, <1>5, <3>1
  <2> HIDE DEF first, m
  <2> QED
    BY <1>4, <2>1
<1>7. PICK g : /\ g = [k \in 0..m |-> IF k = 0 THEN first ELSE NextOffset(text, g[k - 1], chunks[k])]
               /\ ChunkOffsets(text, chunks) = g[m].offsets
  BY <1>6 DEF ChunkOffsets, Whereabouts
<1>8. \A k \in 0..m : g[k] = IF k = 0 THEN first ELSE NextOffset(text, g[k - 1], chunks[k])
  BY <1>7, Zenon
<1> HIDE DEF first
<1>9. g[0] = first /\ \A k \in 1..m : g[k] = NextOffset(text, g[k - 1], chunks[k])
  BY <1>1, <1>8
<1> DEFINE S == {k \in Nat : g[k] = f[k]}
<1>10. 0 \in S
  BY <1>4, <1>9
<1>11. ASSUME NEW k \in 0..(m - 1), k \in S PROVE k + 1 \in S
  <2>1. k + 1 \in 1..m /\ k + 1 - 1 = k /\ k + 1 \in Nat
    BY <1>1
  <2>2. g[k + 1] = NextOffset(text, g[k], chunks[k + 1]) /\ f[k + 1] = NextOffset(text, f[k], chunks[k + 1])
    BY <1>5, <1>9, <2>1
  <2> QED
    BY <1>11, <2>1, <2>2
<1> HIDE DEF S
<1>12. \A k \in 0..m : k \in S
  BY <1>1, <1>10, <1>11, CountUp
<1>13. g[m] = f[m]
  BY <1>1, <1>12 DEF S
<1> QED
  BY <1>4, <1>5, <1>7, <1>13 DEF first

\* A parent up to the k-th overlaps the next or had a page break replaced.
Excused(parents, k) ==
  \E j \in 1..k :
    \/ ~parents[j].whole
    \/ j < k /\ parents[j].place + Len(parents[j].text) > parents[j + 1].place

NotLate(parents, k, start) ==
  start <= parents[k].place + Len(parents[k].text) \/ Excused(parents, k)

\* What is known when the first k parents have been looked for.
HasPlaced(t, parents, k, found) ==
  /\ found \in Found /\ Len(found.offsets) = k
  /\ found.searchStart <= Len(RawText(t)) + ParentSize
  /\ \A j \in 1..k :
       /\ found.offsets[j] <= Len(RawText(t)) + ParentSize
       /\ found.offsets[j] <= parents[j].place \/ Excused(parents, j)
  /\ IF k = 0 THEN found.searchStart = 0 ELSE NotLate(parents, k, found.searchStart)

LEMMA ExcusedStill ==
  ASSUME NEW parents, NEW k \in Nat, Excused(parents, k)
  PROVE  Excused(parents, k + 1)
<1>1. \A j \in 1..k : j \in 1..(k + 1) /\ (j < k => j < k + 1)
  OBVIOUS
<1> QED
  BY <1>1 DEF Excused

LEMMA ParentIs ==
  ASSUME NEW t \in Texts, NEW parents \in Seq(GoodParents(t)), NEW k \in 1..Len(parents)
  PROVE  /\ parents[k].text \in Chars /\ parents[k].place \in Nat
         /\ Len(parents[k].text) \in Nat /\ Len(parents[k].text) <= ParentSize
         /\ parents[k].whole => Stands(RawText(t), parents[k].place, parents[k].text)
<1>1. parents[k] \in GoodParents(t)
  OBVIOUS
<1>2. parents[k].text \in Chars /\ parents[k].place \in Nat
  BY <1>1 DEF GoodParents
<1>3. Len(parents[k].text) \in Nat
  BY <1>2 DEF Chars
<1> QED
  BY <1>1, <1>2, <1>3 DEF GoodParents

LEMMA RawIs == ASSUME NEW t \in Texts PROVE RawText(t) \in Chars /\ Len(RawText(t)) \in Nat
<1>1. 1 \in Places(t)
  BY TextIs
<1>2. RawText(t) \in Chars
  BY <1>1, ParagraphStands
<1> QED
  BY <1>2 DEF Chars

\* Unless a parent is excused, the search starts at its place or before it.
LEMMA StartsNotLate ==
  ASSUME NEW t \in Texts, NEW parents \in Seq(GoodParents(t)), NEW k \in 0..(Len(parents) - 1),
         NEW found, HasPlaced(t, parents, k, found), ~Excused(parents, k + 1)
  PROVE  found.searchStart <= parents[k + 1].place
<1>1. k \in Nat /\ k + 1 \in 1..Len(parents) /\ found.searchStart \in Nat
  BY FoundIs DEF HasPlaced
<1>2. parents[k + 1].place \in Nat
  BY <1>1, ParentIs
<1>3. CASE k = 0
  BY <1>2, <1>3 DEF HasPlaced
<1>4. CASE k # 0
  <2>1. k \in 1..(k + 1) /\ k < k + 1 /\ k \in 1..Len(parents)
    BY <1>1, <1>4
  <2>2. found.searchStart <= parents[k].place + Len(parents[k].text)
    BY <1>1, <1>4, ExcusedStill DEF HasPlaced, NotLate
  <2>3. ~(parents[k].place + Len(parents[k].text) > parents[k + 1].place)
    BY <2>1 DEF Excused
  <2>4. parents[k].place \in Nat /\ Len(parents[k].text) \in Nat
    BY <2>1, ParentIs
  <2> QED
    BY <1>1, <1>2, <2>2, <2>3, <2>4
<1> QED
  BY <1>3, <1>4

LEMMA LongerBy ==
  ASSUME NEW s \in Seq(Nat), NEW x \in Nat
  PROVE  /\ Append(s, x) \in Seq(Nat) /\ Len(Append(s, x)) = Len(s) + 1
         /\ Append(s, x)[Len(s) + 1] = x /\ \A j \in 1..Len(s) : Append(s, x)[j] = s[j]
OBVIOUS

\* One more offset: where it is, and where the search goes on.
LEMMA PlacedOneMore ==
  ASSUME NEW t \in Texts, NEW parents, NEW k \in Nat, NEW found, HasPlaced(t, parents, k, found),
         NEW at \in Nat, NEW start \in Nat,
         at <= Len(RawText(t)) + ParentSize, start <= Len(RawText(t)) + ParentSize,
         at <= parents[k + 1].place \/ Excused(parents, k + 1),
         NotLate(parents, k + 1, start)
  PROVE  HasPlaced(t, parents, k + 1, Whereabouts(start, Append(found.offsets, at)))
<1> DEFINE more == Append(found.offsets, at)
           next == Whereabouts(start, more)
<1>1. /\ more \in Seq(Nat) /\ Len(more) = k + 1 /\ more[k + 1] = at
      /\ \A j \in 1..k : more[j] = found.offsets[j]
  BY FoundIs, LongerBy DEF HasPlaced
<1> HIDE DEF more
<1>2. next \in Found /\ next.searchStart = start /\ next.offsets = more
  BY <1>1 DEF Found, Whereabouts
<1>3. ASSUME NEW j \in 1..(k + 1)
      PROVE  /\ more[j] <= Len(RawText(t)) + ParentSize
             /\ more[j] <= parents[j].place \/ Excused(parents, j)
  <2>1. CASE j = k + 1
    BY <1>1, <2>1
  <2>2. CASE j # k + 1
    <3>1. j \in 1..k
      BY <2>2
    <3> QED
      BY <1>1, <3>1 DEF HasPlaced
  <2> QED
    BY <2>1, <2>2
<1> HIDE DEF next
<1>4. HasPlaced(t, parents, k + 1, next)
  BY <1>1, <1>2, <1>3 DEF HasPlaced
<1> QED
  BY <1>4 DEF next, more

LEMMA HasPlacedNext ==
  ASSUME NEW t \in Texts, NEW parents \in Seq(GoodParents(t)), NEW k \in 0..(Len(parents) - 1),
         NEW found, HasPlaced(t, parents, k, found)
  PROVE  HasPlaced(t, parents, k + 1, NextOffset(RawText(t), found, parents[k + 1].text))
<1> DEFINE raw == RawText(t)
           chunk == parents[k + 1].text
           place == parents[k + 1].place
           start == found.searchStart
           idx == IndexOf(raw, Probe(chunk), start)
           none == Whereabouts(start, Append(found.offsets, start))
           some == Whereabouts(idx + Len(chunk), Append(found.offsets, idx))
<1>1. k \in Nat /\ k + 1 \in 1..Len(parents) /\ found \in Found /\ start \in Nat
  BY FoundIs DEF HasPlaced
<1>2. raw \in Chars /\ Len(raw) \in Nat
  BY RawIs
<1>3. /\ chunk \in Chars /\ place \in Nat /\ Len(chunk) \in Nat /\ Len(chunk) <= ParentSize
      /\ parents[k + 1].whole => Stands(raw, place, chunk)
  BY <1>1, ParentIs
<1>4. ParentSize \in Nat
  BY SplitAssumption
<1>5. /\ Probe(chunk) \in Chars
      /\ Stands(raw, place, chunk) => Stands(raw, place, Probe(chunk))
  BY <1>2, <1>3, ProbeIs
<1>6. /\ idx = -1 \/ (idx \in Nat /\ idx + Len(Probe(chunk)) <= Len(raw))
      /\ Stands(raw, place, Probe(chunk)) /\ start <= place => idx # -1 /\ idx <= place
  BY <1>1, <1>2, <1>3, <1>5, IndexOfIs
<1>7. Len(Probe(chunk)) \in Nat
  BY <1>5 DEF Chars
<1>8. NextOffset(raw, found, chunk) = IF idx = -1 THEN none ELSE some
  BY <1>1, <1>2, <1>3, NextOffsetIs
<1>9. start <= Len(raw) + ParentSize
  BY DEF HasPlaced
<1>10. ~Excused(parents, k + 1) => parents[k + 1].whole /\ start <= place
  <2>1. ~Excused(parents, k + 1) => parents[k + 1].whole
    BY <1>1 DEF Excused
  <2> QED
    BY <2>1, StartsNotLate
<1>11. ~Excused(parents, k + 1) => idx # -1 /\ idx <= place
  BY <1>3, <1>5, <1>6, <1>10
<1> HIDE DEF raw, chunk, place, start, idx
<1>12. CASE idx = -1
  <2>1. Excused(parents, k + 1)
    BY <1>11, <1>12
  <2>2. NotLate(parents, k + 1, start)
    BY <2>1 DEF NotLate
  <2>3. HasPlaced(t, parents, k + 1, none)
    BY <1>1, <1>9, <2>1, <2>2, PlacedOneMore DEF raw
  <2> QED
    BY <1>8, <1>12, <2>3 DEF raw, chunk
<1>13. CASE idx # -1
  <2>1. idx \in Nat /\ idx <= Len(raw)
    BY <1>2, <1>6, <1>7, <1>13
  <2>2. /\ idx <= Len(raw) + ParentSize /\ idx + Len(chunk) \in Nat
        /\ idx + Len(chunk) <= Len(raw) + ParentSize
    BY <1>2, <1>3, <1>4, <2>1
  <2>3. idx <= place \/ Excused(parents, k + 1)
    BY <1>11
  <2>4. NotLate(parents, k + 1, idx + Len(chunk))
    <3>1. idx <= place => idx + Len(chunk) <= place + Len(chunk)
      BY <1>3, <2>1
    <3> QED
      BY <2>3, <3>1 DEF NotLate, place, chunk
  <2> DEFINE e == idx + Len(chunk)
  <2> HIDE DEF e
  <2>5. HasPlaced(t, parents, k + 1, Whereabouts(e, Append(found.offsets, idx)))
    BY <1>1, <2>1, <2>2, <2>3, <2>4, PlacedOneMore DEF raw, place, e
  <2> QED
    BY <1>8, <1>13, <2>5 DEF raw, chunk, e
<1> QED
  BY <1>12, <1>13

LEMMA OffsetsAre ==
  ASSUME NEW t \in Texts, NEW parents \in Seq(GoodParents(t))
  PROVE  LET offsets == ChunkOffsets(RawText(t), [k \in DOMAIN parents |-> parents[k].text])
         IN  /\ offsets \in Seq(Nat) /\ Len(offsets) = Len(parents)
             /\ \A k \in 1..Len(parents) :
                  /\ offsets[k] <= Len(RawText(t)) + ParentSize
                  /\ offsets[k] <= parents[k].place \/ Excused(parents, k)
<1> DEFINE chunks == [k \in DOMAIN parents |-> parents[k].text]
           m == Len(parents)
           raw == RawText(t)
<1>1. m \in Nat /\ DOMAIN parents = 1..m
  OBVIOUS
<1>2. \A k \in 1..m : parents[k].text \in Chars
  BY ParentIs
<1>3. chunks \in Seq(Chars) /\ Len(chunks) = m /\ \A k \in 1..m : chunks[k] = parents[k].text
  BY <1>1, <1>2
<1>4. raw \in Chars /\ Len(raw) \in Nat /\ ParentSize \in Nat
  BY RawIs, SplitAssumption
<1> HIDE DEF chunks, m, raw
<1>5. PICK after \in [0..m -> Found] :
        /\ ChunkOffsets(raw, chunks) = after[m].offsets
        /\ after[0] = Whereabouts(0, <<>>)
        /\ \A k \in 1..m : after[k] = NextOffset(raw, after[k - 1], chunks[k])
  BY <1>3, <1>4, OffsetRounds
<1> DEFINE S == {k \in Nat : HasPlaced(t, parents, k, after[k])}
<1>6. 0 \in S
  <2>1. Whereabouts(0, <<>>) \in Found
    BY DEF Found, Whereabouts
  <2>2. HasPlaced(t, parents, 0, Whereabouts(0, <<>>))
    BY <1>4, <2>1 DEF HasPlaced, Whereabouts, raw
  <2> QED
    BY <1>5, <2>2
<1>7. ASSUME NEW k \in 0..(m - 1), k \in S PROVE k + 1 \in S
  <2>1. k + 1 \in 1..m /\ k + 1 - 1 = k /\ k + 1 \in Nat
    BY <1>1
  <2>2. after[k + 1] = NextOffset(raw, after[k], parents[k + 1].text)
    BY <1>3, <1>5, <2>1
  <2>3. HasPlaced(t, parents, k + 1, NextOffset(raw, after[k], parents[k + 1].text))
    BY <1>7, HasPlacedNext DEF m, raw
  <2> QED
    BY <2>1, <2>2, <2>3
<1> HIDE DEF S
<1>8. \A k \in 0..m : k \in S
  BY <1>1, <1>6, <1>7, CountUp
<1>9. HasPlaced(t, parents, m, after[m])
  BY <1>1, <1>8 DEF S
<1>10. /\ after[m].offsets \in Seq(Nat) /\ Len(after[m].offsets) = m
       /\ \A k \in 1..m :
            /\ after[m].offsets[k] <= Len(raw) + ParentSize
            /\ after[m].offsets[k] <= parents[k].place \/ Excused(parents, k)
  BY <1>9, FoundIs DEF HasPlaced, raw
<1> QED
  BY <1>5, <1>10 DEF m, raw, chunks

-----------------------------------------------------------------------------
(* The steps of the split                                                  *)

\* Every parent is looked for, and found late only if one before it is excused.
Placed(t, parents, offsets) ==
  /\ offsets \in Seq(Nat) /\ Len(offsets) = Len(parents)
  /\ \A k \in 1..Len(parents) :
       /\ offsets[k] <= Len(RawText(t)) + ParentSize
       /\ offsets[k] <= parents[k].place \/ Excused(parents, k)

\* The invariant that the steps keep.
SplitIInv ==
  /\ split = Split(split.pc, split.text, split.chunks, split.parents, split.offsets)
  /\ split.pc \in {"read", "split", "placed"}
  /\ split.text \in Texts
  /\ split.pc # "read" => SplitAs(split.text, split.chunks, split.parents)
  /\ split.pc = "placed" => Placed(split.text, split.parents, split.offsets)

LEMMA SplitFields ==
  ASSUME NEW pc, NEW text, NEW cs, NEW parents, NEW offsets
  PROVE  LET s == Split(pc, text, cs, parents, offsets)
         IN  s.pc = pc /\ s.text = text /\ s.chunks = cs /\ s.parents = parents /\ s.offsets = offsets
BY DEF Split

LEMMA SplitReads == SplitInit => SplitIInv
<1> SUFFICES ASSUME SplitInit PROVE SplitIInv
  OBVIOUS
<1>1. PICK t \in Texts : split = Split("read", t, <<>>, <<>>, <<>>)
  BY DEF SplitInit
<1>2. /\ split.pc = "read" /\ split.text = t /\ split.chunks = <<>> /\ split.parents = <<>>
      /\ split.offsets = <<>>
  BY <1>1, SplitFields
<1> QED
  BY <1>1, <1>2 DEF SplitIInv

LEMMA SplitsIntoParents == SplitIInv /\ SplitByParagraphFirst => SplitIInv'
<1> SUFFICES ASSUME SplitIInv, SplitByParagraphFirst PROVE SplitIInv'
  OBVIOUS
<1> DEFINE t == split.text
           cs == CoarseChunks(t)
<1>1. t \in Texts
  BY DEF SplitIInv
<1>2. PICK stride \in (ParentSize - ChunkOverlap)..ParentSize :
        split' = Split("split", t, cs, ParentsOf(t, cs, stride), <<>>)
  BY DEF SplitByParagraphFirst
<1> DEFINE parents == ParentsOf(t, cs, stride)
<1>3. SplitAs(t, cs, parents)
  <2>1. HasTaken(t, Len(t.paragraphs), cs)
    BY <1>1, CoarseIs
  <2> HIDE DEF cs, t
  <2> QED
    BY <1>1, <2>1, ParentsAreGood DEF SplitAs
<1> HIDE DEF parents, cs, t
<1>4. /\ split'.pc = "split" /\ split'.text = t /\ split'.chunks = cs /\ split'.parents = parents
      /\ split'.offsets = <<>>
  BY <1>2, SplitFields DEF parents
<1>5. split' = Split(split'.pc, split'.text, split'.chunks, split'.parents, split'.offsets)
  BY <1>2, <1>4 DEF parents
<1> QED
  BY <1>1, <1>3, <1>4, <1>5 DEF SplitIInv

LEMMA ParentsArePlaced == SplitIInv /\ ComputeChunkOffsets => SplitIInv'
<1> SUFFICES ASSUME SplitIInv, ComputeChunkOffsets PROVE SplitIInv'
  OBVIOUS
<1> DEFINE t == split.text
           cs == split.chunks
           parents == split.parents
           offsets == ChunkOffsets(RawText(t), [k \in DOMAIN parents |-> parents[k].text])
<1>1. t \in Texts /\ SplitAs(t, cs, parents) /\ split.pc = "split"
  BY DEF SplitIInv, ComputeChunkOffsets
<1>2. parents \in Seq(GoodParents(t))
  BY <1>1 DEF SplitAs
<1>3. Placed(t, parents, offsets)
  <2> HIDE DEF t, parents
  <2> QED
    BY <1>1, <1>2, OffsetsAre DEF Placed
<1>4. split' = Split("placed", t, cs, parents, offsets)
  BY DEF ComputeChunkOffsets
<1> HIDE DEF t, cs, parents, offsets
<1>5. /\ split'.pc = "placed" /\ split'.text = t /\ split'.chunks = cs /\ split'.parents = parents
      /\ split'.offsets = offsets
  BY <1>4, SplitFields
<1>6. split' = Split(split'.pc, split'.text, split'.chunks, split'.parents, split'.offsets)
  BY <1>4, <1>5
<1> QED
  BY <1>1, <1>3, <1>5, <1>6 DEF SplitIInv

LEMMA SplitIInvStep == SplitIInv /\ [SplitNext]_splitVars => SplitIInv'
<1>1. SplitIInv /\ UNCHANGED splitVars => SplitIInv'
  BY DEF SplitIInv, splitVars
<1> QED
  BY <1>1, SplitsIntoParents, ParentsArePlaced DEF SplitNext

LEMMA SplitFacts == SplitIInv => SplitTypeOK /\ SplitIsWhole /\ OffsetsNotLate
<1> SUFFICES ASSUME SplitIInv PROVE SplitTypeOK /\ SplitIsWhole /\ OffsetsNotLate
  OBVIOUS
<1> DEFINE t == split.text
           parents == split.parents
           offsets == split.offsets
<1>1. SplitIsWhole
  <2>1. split.pc = "split" => t \in Texts /\ SplitAs(t, split.chunks, parents)
    BY DEF SplitIInv
  <2> QED
    BY <2>1, SplitAsWhole DEF SplitIsWhole
<1>2. ASSUME split.pc = "placed"
      PROVE  /\ DOMAIN offsets = DOMAIN parents
             /\ ToSet(offsets) \subseteq 0..(Len(RawText(t)) + ParentSize)
             /\ \A k \in DOMAIN parents : offsets[k] <= parents[k].place \/ Excused(parents, k)
  <2>1. t \in Texts /\ parents \in Seq(GoodParents(t)) /\ Placed(t, parents, offsets)
    BY <1>2 DEF SplitIInv, SplitAs
  <2> HIDE DEF t, parents, offsets
  <2>2. offsets \in Seq(Nat) /\ Len(offsets) = Len(parents)
    BY <2>1 DEF Placed
  <2>3. DOMAIN parents = 1..Len(parents) /\ DOMAIN offsets = 1..Len(offsets)
    BY <2>1, <2>2
  <2>4. Len(RawText(t)) + ParentSize \in Nat
    BY <2>1, RawIs, SplitAssumption
  <2>5. \A k \in DOMAIN offsets : offsets[k] \in Nat /\ offsets[k] <= Len(RawText(t)) + ParentSize
    BY <2>1, <2>2, <2>3 DEF Placed
  <2>6. ToSet(offsets) \subseteq 0..(Len(RawText(t)) + ParentSize)
    BY <2>4, <2>5 DEF ToSet
  <2> QED
    BY <2>1, <2>2, <2>3, <2>6 DEF Placed
<1>3. SplitTypeOK
  BY <1>2 DEF SplitTypeOK, SplitIInv
<1>4. OffsetsNotLate
  BY <1>2 DEF OffsetsNotLate, Excused
<1> QED
  BY <1>1, <1>3, <1>4

\* Every paragraph of a document is in one chunk, in the order of the text, no parent is too
\* long, and a parent is looked for at its place or before it, unless one overlaps the next
\* or had a page break replaced: splitByParagraphFirst and computeChunkOffsets.
THEOREM SplitIsDefined == SplitSpec => [](SplitTypeOK /\ SplitIsWhole /\ OffsetsNotLate)
<1>1. SplitInit => SplitIInv
  BY SplitReads
<1>2. SplitIInv /\ [SplitNext]_splitVars => SplitIInv'
  BY SplitIInvStep
<1> QED
  BY <1>1, <1>2, SplitFacts, PTL DEF SplitSpec

=============================================================================
