-------------------------- MODULE AccumulatorsProofs --------------------------
(***************************************************************************)
(* Proofs about Accumulators: the printed loops accumulate what their type *)
(* says, for sequences of any length.                                      *)
(***************************************************************************)
EXTENDS Accumulators, WellFoundedInduction, SequenceTheorems, TLAPS

-----------------------------------------------------------------------------
(* Induction and folds. *)

(* A set of natural numbers has a least element. *)
LEMMA LeastNumber ==
    ASSUME NEW T \in SUBSET Nat, T # {}
    PROVE  \E m \in T : \A k \in T : ~(k < m)
  <1>1. \E m \in T : \A k \in T : ~ (<<k, m>> \in OpToRel(<, Nat))
    BY NatLessThanWellFounded, WFMin, Zenon
  <1>2. \A x, y \in Nat : x < y => <<x, y>> \in OpToRel(<, Nat)
    BY Zenon DEF OpToRel
  <1> QED
    BY <1>1, <1>2, Zenon

(* A set of sequences that is closed under Append has all of them. *)
LEMMA SequencesAreBuilt ==
    ASSUME NEW V, NEW P, <<>> \in P,
           \A xs \in Seq(V), x \in V : xs \in P => Append(xs, x) \in P
    PROVE  \A xs \in Seq(V) : xs \in P
  <1> DEFINE T == {n \in Nat : \E xs \in Seq(V) : Len(xs) = n /\ xs \notin P}
  <1>1. SUFFICES ASSUME NEW ys \in Seq(V), ys \notin P PROVE FALSE
    OBVIOUS
  <1>2. T # {}
    <2>1. Len(ys) \in Nat
      OBVIOUS
    <2> QED
      BY <1>1, <2>1
  <1>3. PICK m \in T : \A k \in T : ~(k < m)
    <2>1. T \in SUBSET Nat
      OBVIOUS
    <2> HIDE DEF T
    <2> QED
      BY <1>2, <2>1, LeastNumber
  <1>4. PICK xs \in Seq(V) : Len(xs) = m /\ xs \notin P
    OBVIOUS
  <1>5. xs # <<>>
    BY <1>4
  <1> DEFINE front == SubSeq(xs, 1, Len(xs) - 1)
             last == xs[Len(xs)]
  <1>6. front \in Seq(V) /\ last \in V /\ Len(front) = m - 1 /\ xs = Append(front, last)
    BY <1>4, <1>5
  <1> HIDE DEF front, last
  <1>7. front \notin P
    BY <1>4, <1>6
  <1>8. m - 1 \in Nat /\ m - 1 < m
    BY <1>6
  <1> QED
    BY <1>3, <1>6, <1>7, <1>8

(* r gives the results of f for the first n elements of xs. *)
Folds(r, f, base, xs, n) ==
    r = [i \in 0..n |-> IF i = 0 THEN base ELSE f[<<r[i - 1], xs[i]>>]]

(* There are such results. *)
LEMMA FoldsExist ==
    ASSUME NEW f, NEW base, NEW xs, NEW n \in Nat
    PROVE  \E r : Folds(r, f, base, xs, n)
  <1> DEFINE T == {h \in Nat : ~ \E r : Folds(r, f, base, xs, h)}
  <1>1. SUFFICES ASSUME T # {} PROVE FALSE
    OBVIOUS
  <1>2. PICK m \in T : \A h \in T : ~(h < m)
    BY <1>1, LeastNumber
  <1>3. m # 0
    <2> SUFFICES ASSUME m = 0 PROVE FALSE
      OBVIOUS
    <2> DEFINE g == [i \in 0..0 |-> base]
    <2>1. g = [i \in 0..0 |-> IF i = 0 THEN base ELSE f[<<g[i - 1], xs[i]>>]]
      OBVIOUS
    <2> HIDE DEF g
    <2>2. Folds(g, f, base, xs, 0)
      BY <2>1 DEF Folds
    <2> QED
      BY <1>2, <2>2
  <1>4. PICK r : Folds(r, f, base, xs, m - 1)
    <2>1. m - 1 \in Nat /\ m - 1 < m
      BY <1>3
    <2> QED
      BY <1>2, <2>1
  <1> DEFINE g == [i \in 0..m |-> IF i = 0 THEN base ELSE f[<<r[i - 1], xs[i]>>]]
  <1>5. \A i \in 0..(m - 1) : g[i] = r[i]
    <2> SUFFICES ASSUME NEW i \in 0..(m - 1) PROVE g[i] = r[i]
      OBVIOUS
    <2>1. r[i] = IF i = 0 THEN base ELSE f[<<r[i - 1], xs[i]>>]
      BY <1>4 DEF Folds
    <2>2. i \in 0..m
      BY <1>3
    <2> QED
      BY <2>1, <2>2
  <1>6. \A i \in 0..m : g[i] = IF i = 0 THEN base ELSE f[<<g[i - 1], xs[i]>>]
    <2> SUFFICES ASSUME NEW i \in 0..m
                 PROVE  g[i] = IF i = 0 THEN base ELSE f[<<g[i - 1], xs[i]>>]
      OBVIOUS
    <2>1. i # 0 => i - 1 \in 0..(m - 1)
      BY <1>3
    <2> QED
      BY <1>5, <2>1
  <1>7. g = [i \in 0..m |-> g[i]]
    OBVIOUS
  <1> HIDE DEF g
  <1>8. Folds(g, f, base, xs, m)
    BY <1>6, <1>7 DEF Folds
  <1> QED
    BY <1>2, <1>8

(* They only depend on the elements used so far. *)
LEMMA FoldsAgree ==
    ASSUME NEW f, NEW base, NEW xs, NEW ys, NEW j \in Nat, NEW k \in Nat, j <= k,
           \A i \in 1..j : xs[i] = ys[i],
           NEW r, Folds(r, f, base, xs, j), NEW g, Folds(g, f, base, ys, k)
    PROVE  r[j] = g[j]
  <1> DEFINE T == {n \in 0..j : r[n] # g[n]}
  <1>1. SUFFICES ASSUME T # {} PROVE FALSE
    OBVIOUS
  <1>2. PICK m \in T : \A h \in T : ~(h < m)
    <2>1. T \in SUBSET Nat
      OBVIOUS
    <2> HIDE DEF T
    <2> QED
      BY <1>1, <2>1, LeastNumber
  <1>3. /\ r[m] = IF m = 0 THEN base ELSE f[<<r[m - 1], xs[m]>>]
        /\ g[m] = IF m = 0 THEN base ELSE f[<<g[m - 1], ys[m]>>]
    BY DEF Folds
  <1>4. m # 0 /\ m - 1 \in 0..j /\ m - 1 < m /\ xs[m] = ys[m]
    BY <1>3
  <1>5. r[m - 1] = g[m - 1]
    BY <1>2, <1>4
  <1> QED
    BY <1>3, <1>4, <1>5

(* A fold is the last of these results. *)
LEMMA FoldByResults ==
    ASSUME NEW f, NEW base, NEW xs, Len(xs) \in Nat
    PROVE  \E r : Folds(r, f, base, xs, Len(xs)) /\ Fold(f, base, xs) = r[Len(xs)]
  <1> DEFINE r == CHOOSE g : Folds(g, f, base, xs, Len(xs))
  <1>1. Folds(r, f, base, xs, Len(xs))
    BY FoldsExist
  <1>2. Fold(f, base, xs) = r[Len(xs)]
    BY DEF Fold, Folds
  <1> QED
    BY <1>1, <1>2

(* Nothing is folded. *)
LEMMA FoldEmpty ==
    ASSUME NEW f, NEW base
    PROVE  Fold(f, base, <<>>) = base
  <1>1. Len(<<>>) = 0
    OBVIOUS
  <1>2. PICK r : Folds(r, f, base, <<>>, Len(<<>>)) /\ Fold(f, base, <<>>) = r[Len(<<>>)]
    BY <1>1, FoldByResults
  <1> QED
    BY <1>1, <1>2 DEF Folds

(* One more element is folded. *)
LEMMA FoldAppend ==
    ASSUME NEW f, NEW base, NEW V, NEW xs \in Seq(V), NEW x \in V
    PROVE  Fold(f, base, Append(xs, x)) = f[<<Fold(f, base, xs), x>>]
  <1> DEFINE n == Len(xs)
             ys == Append(xs, x)
  <1>1. n \in Nat /\ Len(ys) = n + 1 /\ ys[n + 1] = x /\ \A i \in 1..n : xs[i] = ys[i]
    OBVIOUS
  <1> HIDE DEF ys
  <1>2. PICK r : Folds(r, f, base, xs, n) /\ Fold(f, base, xs) = r[n]
    BY <1>1, FoldByResults
  <1>3. PICK g : Folds(g, f, base, ys, n + 1) /\ Fold(f, base, ys) = g[n + 1]
    BY <1>1, FoldByResults
  <1>4. r[n] = g[n]
    <2>1. PICK k \in Nat : k = n + 1
      BY <1>1
    <2> HIDE DEF n
    <2> QED
      BY <1>1, <1>2, <1>3, <2>1, FoldsAgree
  <1>5. g[n + 1] = f[<<g[n], ys[n + 1]>>]
    BY <1>1, <1>3 DEF Folds
  <1> QED
    BY <1>1, <1>2, <1>3, <1>4, <1>5 DEF ys

-----------------------------------------------------------------------------
(* Numbers. *)

Positive == Nat \ {0}

(* Division with a remainder. *)
LEMMA Divides ==
    ASSUME NEW n \in Int, NEW d \in Positive
    PROVE  /\ n \div d \in Int /\ n % d \in 0..(d - 1)
           /\ n = d * (n \div d) + (n % d)
           /\ \A q \in Int : n = d * q => n % d = 0 /\ n \div d = q
  <1>1. d \in Int /\ d > 0
    BY DEF Positive
  <1>2. n \div d \in Int /\ n % d \in 0..(d - 1) /\ n = d * (n \div d) + (n % d)
    BY <1>1
  <1>3. ASSUME NEW q \in Int, n = d * q
        PROVE  n % d = 0 /\ n \div d = q
    BY <1>1, <1>3
  <1> QED
    BY <1>2, <1>3

(* Numbers that a set holds and that bound it are its extremes. *)
LEMMA MinIs ==
    ASSUME NEW T \in SUBSET Int, NEW m \in T, \A k \in T : m <= k
    PROVE  Min(T) = m
  <1>1. \A x \in T : (\A k \in T : x <= k) => x = m
    OBVIOUS
  <1>2. Min(T) \in T /\ \A k \in T : Min(T) <= k
    BY DEF Min
  <1> QED
    BY <1>1, <1>2

(* The same of the greatest. *)
LEMMA MaxIs ==
    ASSUME NEW T \in SUBSET Int, NEW m \in T, \A k \in T : k <= m
    PROVE  Max(T) = m
  <1>1. \A x \in T : (\A k \in T : x >= k) => x = m
    OBVIOUS
  <1>2. Max(T) \in T /\ \A k \in T : Max(T) >= k
    BY DEF Max
  <1> QED
    BY <1>1, <1>2

(* By what n has to be multiplied for d to divide it. *)
Multipliers(n, d) == {k \in 1..d : (n * k) % d = 0}

(* A fraction in lowest terms is the fraction. *)
LEMMA FracTerms ==
    ASSUME NEW n \in Int, NEW d \in Positive
    PROVE  \E p \in Int, q \in Multipliers(n, d) :
              /\ Frac(n, d) = <<p, q>> /\ n * q = d * p
              /\ \A k \in Multipliers(n, d) : q <= k
  <1> DEFINE K == Multipliers(n, d)
  <1>1. d \in K
    <2>1. d \in 1..d /\ d \in Int /\ n * d \in Int /\ n * d = d * n
      BY DEF Positive
    <2> QED
      BY <2>1, Divides DEF Multipliers
  <1>2. K \in SUBSET Nat
    BY DEF Multipliers
  <1>3. PICK q \in K : \A k \in K : ~(k < q)
    <2> HIDE DEF K
    <2> QED
      BY <1>1, <1>2, LeastNumber
  <1>4. \A k \in K : q <= k
    BY <1>2, <1>3
  <1>5. Min(K) = q
    <2>1. K \in SUBSET Int
      BY <1>2
    <2> HIDE DEF K
    <2> QED
      BY <1>3, <1>4, <2>1, MinIs
  <1> DEFINE p == (n * q) \div d
  <1>6. q \in Int /\ n * q \in Int /\ (n * q) % d = 0
    BY DEF Multipliers
  <1>7. p \in Int /\ n * q = d * p
    <2>1. PICK k \in Int : k = n * q
      BY <1>6
    <2>2. k \div d \in Int /\ k = d * (k \div d) + (k % d)
      BY Divides
    <2>3. k = d * (k \div d)
      BY <1>6, <2>1, <2>2 DEF Positive
    <2> QED
      BY <2>1, <2>2, <2>3
  <1>8. Frac(n, d) = <<p, q>>
    BY <1>5 DEF Frac, Multipliers
  <1> QED
    BY <1>3, <1>4, <1>7, <1>8

(* Fractions are equal if their cross products are. *)
Same(a, b, c, d) == a * d = c * b

(* Equal fractions have the same multipliers. *)
LEMMA SameMultiplier ==
    ASSUME NEW a \in Int, NEW b \in Positive, NEW c \in Int, NEW d \in Positive,
           Same(a, b, c, d)
    PROVE  \A k, p \in Int : c * k = d * p => a * k = b * p
  <1> SUFFICES ASSUME NEW k \in Int, NEW p \in Int, c * k = d * p PROVE a * k = b * p
    OBVIOUS
  <1>1. b \in Int /\ d \in Int /\ d # 0
    BY DEF Positive
  <1>2. (a * k) * d = (b * p) * d
    <2>1. (a * k) * d = (a * d) * k
      BY <1>1
    <2>2. (a * d) * k = (c * b) * k
      BY DEF Same
    <2>3. (c * b) * k = b * (c * k)
      BY <1>1
    <2> QED
      BY <1>1, <2>1, <2>2, <2>3
  <1>3. a * k \in Int /\ b * p \in Int
    BY <1>1
  <1> QED
    BY <1>1, <1>2, <1>3

(* The least multiplier of a fraction is at most that of an equal one. *)
LEMMA LeastMultiplier ==
    ASSUME NEW a \in Int, NEW b \in Positive, NEW c \in Int, NEW d \in Positive,
           Same(a, b, c, d),
           NEW q \in Multipliers(a, b), \A k \in Multipliers(a, b) : q <= k,
           NEW r \in Multipliers(c, d), NEW p \in Int, c * r = d * p
    PROVE  q <= r
  <1>1. q \in 1..b /\ r \in 1..d /\ q \in Int /\ r \in Int /\ b \in Int /\ d \in Int
    BY DEF Multipliers, Positive
  <1>2. CASE r > b
    BY <1>1, <1>2
  <1>3. CASE r <= b
    <2>1. a * r = b * p
      <3>1. \A k, v \in Int : c * k = d * v => a * k = b * v
        BY SameMultiplier
      <3> QED
        BY <1>1, <3>1
    <2>2. (a * r) % b = 0
      <3>1. a * r \in Int
        BY <1>1
      <3> QED
        BY <2>1, <3>1, Divides
    <2>3. r \in 1..b
      BY <1>1, <1>3
    <2>4. r \in Multipliers(a, b)
      BY <2>2, <2>3 DEF Multipliers
    <2> QED
      BY <2>4
  <1> QED
    BY <1>1, <1>2, <1>3

(* Equal fractions have equal lowest terms. *)
LEMMA FracSame ==
    ASSUME NEW a \in Int, NEW b \in Positive, NEW c \in Int, NEW d \in Positive,
           a * d = c * b
    PROVE  Frac(a, b) = Frac(c, d)
  <1> Same(a, b, c, d) /\ Same(c, d, a, b)
    BY DEF Same
  <1>0. \A k, p \in Int : c * k = d * p => a * k = b * p
    BY SameMultiplier
  <1>1. PICK p \in Int, q \in Multipliers(a, b) :
              /\ Frac(a, b) = <<p, q>> /\ a * q = b * p
              /\ \A k \in Multipliers(a, b) : q <= k
    BY FracTerms
  <1>2. PICK u \in Int, r \in Multipliers(c, d) :
              /\ Frac(c, d) = <<u, r>> /\ c * r = d * u
              /\ \A k \in Multipliers(c, d) : r <= k
    BY FracTerms
  <1>3. q \in Int /\ r \in Int /\ b \in Int /\ b # 0
    BY DEF Multipliers, Positive
  <1>4. q <= r
    BY <1>1, <1>2, LeastMultiplier
  <1>5. r <= q
    BY <1>1, <1>2, LeastMultiplier
  <1>6. q = r
    BY <1>3, <1>4, <1>5
  <1>7. a * r = b * u
    BY <1>0, <1>2, <1>3
  <1>8. b * p = b * u
    BY <1>1, <1>6, <1>7
  <1>9. p = u
    BY <1>3, <1>8
  <1> QED
    BY <1>1, <1>2, <1>6, <1>9

(* The terms of a fraction, without the least multiplier. *)
LEMMA FracIs ==
    ASSUME NEW a \in Int, NEW b \in Positive
    PROVE  \E p \in Int, q \in Positive : Frac(a, b) = <<p, q>> /\ a * q = b * p
  <1>1. PICK p \in Int, q \in Multipliers(a, b) : Frac(a, b) = <<p, q>> /\ a * q = b * p
    BY FracTerms
  <1>2. q \in Positive
    BY DEF Multipliers, Positive
  <1> QED
    BY <1>1, <1>2

(* A whole number is a fraction in lowest terms. *)
LEMMA WholeIs ==
    ASSUME NEW n \in Int
    PROVE  Whole(n) = Frac(n, 1)
  <1>1. 1 \in Positive
    BY DEF Positive
  <1>2. PICK p \in Int, q \in Multipliers(n, 1) : Frac(n, 1) = <<p, q>> /\ n * q = 1 * p
    BY <1>1, FracTerms
  <1>3. q = 1
    BY DEF Multipliers
  <1>4. p = n
    BY <1>2, <1>3
  <1> QED
    BY <1>2, <1>3, <1>4 DEF Whole

(* Products of positive numbers are positive. *)
LEMMA PositiveProduct ==
    ASSUME NEW a \in Positive, NEW b \in Positive
    PROVE  a * b \in Positive
  BY DEF Positive

(* Arithmetic with fractions. *)
LEMMA PlusIs ==
    ASSUME NEW a \in Int, NEW b \in Positive, NEW c \in Int, NEW d \in Positive
    PROVE  Plus(Frac(a, b), Frac(c, d)) = Frac(a * d + c * b, b * d)
  <1>1. PICK p \in Int, q \in Positive : Frac(a, b) = <<p, q>> /\ a * q = b * p
    BY FracIs
  <1>2. PICK u \in Int, r \in Positive : Frac(c, d) = <<u, r>> /\ c * r = d * u
    BY FracIs
  <1>3. b \in Int /\ d \in Int /\ q \in Int /\ r \in Int
    BY DEF Positive
  <1>4. (p * r + u * q) * (b * d) = (a * d + c * b) * (q * r)
    BY <1>1, <1>2, <1>3
  <1>5. /\ p * r + u * q \in Int /\ a * d + c * b \in Int
        /\ q * r \in Positive /\ b * d \in Positive
    BY <1>3, PositiveProduct
  <1>6. Frac(p * r + u * q, q * r) = Frac(a * d + c * b, b * d)
    BY <1>4, <1>5, FracSame
  <1> QED
    BY <1>1, <1>2, <1>6 DEF Plus

(* The difference. *)
LEMMA MinusIs ==
    ASSUME NEW a \in Int, NEW b \in Positive, NEW c \in Int, NEW d \in Positive
    PROVE  Minus(Frac(a, b), Frac(c, d)) = Frac(a * d - c * b, b * d)
  <1>1. PICK p \in Int, q \in Positive : Frac(a, b) = <<p, q>> /\ a * q = b * p
    BY FracIs
  <1>2. PICK u \in Int, r \in Positive : Frac(c, d) = <<u, r>> /\ c * r = d * u
    BY FracIs
  <1>3. b \in Int /\ d \in Int /\ q \in Int /\ r \in Int
    BY DEF Positive
  <1>4. (p * r - u * q) * (b * d) = (a * d - c * b) * (q * r)
    BY <1>1, <1>2, <1>3
  <1>5. /\ p * r - u * q \in Int /\ a * d - c * b \in Int
        /\ q * r \in Positive /\ b * d \in Positive
    BY <1>3, PositiveProduct
  <1>6. Frac(p * r - u * q, q * r) = Frac(a * d - c * b, b * d)
    BY <1>4, <1>5, FracSame
  <1> QED
    BY <1>1, <1>2, <1>6 DEF Minus

(* The product. *)
LEMMA TimesIs ==
    ASSUME NEW a \in Int, NEW b \in Positive, NEW c \in Int, NEW d \in Positive
    PROVE  Times(Frac(a, b), Frac(c, d)) = Frac(a * c, b * d)
  <1>1. PICK p \in Int, q \in Positive : Frac(a, b) = <<p, q>> /\ a * q = b * p
    BY FracIs
  <1>2. PICK u \in Int, r \in Positive : Frac(c, d) = <<u, r>> /\ c * r = d * u
    BY FracIs
  <1>3. b \in Int /\ d \in Int /\ q \in Int /\ r \in Int
    BY DEF Positive
  <1>4. (p * u) * (b * d) = (a * c) * (q * r)
    <2>1. (p * u) * (b * d) = (b * p) * (d * u)
      BY <1>3
    <2>2. (a * c) * (q * r) = (a * q) * (c * r)
      BY <1>3
    <2> QED
      BY <1>1, <1>2, <2>1, <2>2
  <1>5. p * u \in Int /\ a * c \in Int /\ q * r \in Positive /\ b * d \in Positive
    BY <1>3, PositiveProduct
  <1>6. Frac(p * u, q * r) = Frac(a * c, b * d)
    BY <1>4, <1>5, FracSame
  <1> QED
    BY <1>1, <1>2, <1>6 DEF Times

(* The quotient by a positive number. *)
LEMMA OverIs ==
    ASSUME NEW a \in Int, NEW b \in Positive, NEW c \in Positive, NEW d \in Positive
    PROVE  Over(Frac(a, b), Frac(c, d)) = Frac(a * d, b * c)
  <1>0. b \in Int /\ c \in Int /\ d \in Int /\ b > 0 /\ c > 0 /\ d > 0
    BY DEF Positive
  <1>1. PICK p \in Int, q \in Positive : Frac(a, b) = <<p, q>> /\ a * q = b * p
    BY FracIs
  <1>2. PICK u \in Int, r \in Positive : Frac(c, d) = <<u, r>> /\ c * r = d * u
    BY <1>0, FracIs
  <1>3. q \in Int /\ r \in Int /\ r > 0
    BY DEF Positive
  <1>4. u \in Positive
    <2>1. d * u > 0
      BY <1>0, <1>2, <1>3
    <2>2. u > 0
      BY <1>0, <2>1
    <2> QED
      BY <2>2 DEF Positive
  <1>5. (p * r) * (b * c) = (a * d) * (q * u)
    <2>1. (p * r) * (b * c) = (b * p) * (c * r)
      BY <1>0, <1>3
    <2>2. (a * d) * (q * u) = (a * q) * (d * u)
      BY <1>0, <1>3
    <2> QED
      BY <1>1, <1>2, <2>1, <2>2
  <1>6. p * r \in Int /\ a * d \in Int /\ q * u \in Positive /\ b * c \in Positive
    BY <1>0, <1>3, <1>4, PositiveProduct
  <1>7. Frac(p * r, q * u) = Frac(a * d, b * c)
    BY <1>5, <1>6, FracSame
  <1> QED
    BY <1>1, <1>2, <1>7 DEF Over

-----------------------------------------------------------------------------
(* Sums and moments. *)

Squares(xs) == Fold([p \in Int \X Int |-> p[1] + p[2] * p[2]], 0, xs)

(* Sums are integers and grow by one element. *)
LEMMA SumsAppend ==
    ASSUME NEW xs \in Seq(Int), NEW x \in Int, Total(xs) \in Int, Squares(xs) \in Int
    PROVE  /\ Total(Append(xs, x)) = Total(xs) + x
           /\ Squares(Append(xs, x)) = Squares(xs) + x * x
  <1> DEFINE f == [p \in Int \X Int |-> p[1] + p[2]]
             g == [p \in Int \X Int |-> p[1] + p[2] * p[2]]
  <1>1. Total(Append(xs, x)) = f[<<Total(xs), x>>]
    <2> HIDE DEF f
    <2>1. Fold(f, 0, Append(xs, x)) = f[<<Fold(f, 0, xs), x>>]
      BY FoldAppend
    <2> QED
      BY <2>1 DEF Total, f
  <1>2. Squares(Append(xs, x)) = g[<<Squares(xs), x>>]
    <2> HIDE DEF g
    <2>1. Fold(g, 0, Append(xs, x)) = g[<<Fold(g, 0, xs), x>>]
      BY FoldAppend
    <2> QED
      BY <2>1 DEF Squares, g
  <1> QED
    BY <1>1, <1>2

(* The sums of nothing. *)
LEMMA SumsEmpty == Total(<<>>) = 0 /\ Squares(<<>>) = 0
  BY FoldEmpty DEF Total, Squares

(* Sums of integers are integers. *)
LEMMA SumsType ==
    ASSUME NEW xs \in Seq(Int)
    PROVE  Total(xs) \in Int /\ Squares(xs) \in Int
  <1> DEFINE P == {ys \in Seq(Int) : Total(ys) \in Int /\ Squares(ys) \in Int}
  <1>1. <<>> \in P
    BY SumsEmpty
  <1>2. ASSUME NEW ys \in Seq(Int), NEW x \in Int, ys \in P
        PROVE  Append(ys, x) \in P
    <2>1. Append(ys, x) \in Seq(Int) /\ Total(ys) \in Int /\ Squares(ys) \in Int
      BY <1>2
    <2>2. /\ Total(Append(ys, x)) = Total(ys) + x
          /\ Squares(Append(ys, x)) = Squares(ys) + x * x
      BY <2>1, SumsAppend
    <2>3. Total(Append(ys, x)) \in Int /\ Squares(Append(ys, x)) \in Int
      BY <2>1, <2>2
    <2> QED
      BY <2>1, <2>3
  <1> HIDE DEF P
  <1>3. \A ys \in Seq(Int) : ys \in P
    BY <1>1, <1>2, SequencesAreBuilt
  <1> QED
    BY <1>3 DEF P

(* The sums of two sequences. *)
LEMMA SumsConcat ==
    ASSUME NEW xs \in Seq(Int), NEW zs \in Seq(Int)
    PROVE  /\ Total(xs \o zs) = Total(xs) + Total(zs)
           /\ Squares(xs \o zs) = Squares(xs) + Squares(zs)
  <1> DEFINE P == {ys \in Seq(Int) : /\ Total(xs \o ys) = Total(xs) + Total(ys)
                                     /\ Squares(xs \o ys) = Squares(xs) + Squares(ys)}
  <1>1. <<>> \in P
    <2>1. xs \o <<>> = xs
      OBVIOUS
    <2> QED
      BY <2>1, SumsEmpty, SumsType
  <1>2. ASSUME NEW ys \in Seq(Int), NEW x \in Int, ys \in P
        PROVE  Append(ys, x) \in P
    <2>1. xs \o Append(ys, x) = Append(xs \o ys, x)
      OBVIOUS
    <2>2. xs \o ys \in Seq(Int) /\ Append(ys, x) \in Seq(Int)
      OBVIOUS
    <2>3. /\ Total(ys) \in Int /\ Squares(ys) \in Int
          /\ Total(xs) \in Int /\ Squares(xs) \in Int
          /\ Total(xs \o ys) \in Int /\ Squares(xs \o ys) \in Int
      BY <2>2, SumsType
    <2>4. /\ Total(Append(ys, x)) = Total(ys) + x
          /\ Squares(Append(ys, x)) = Squares(ys) + x * x
      BY <2>3, SumsAppend
    <2>5. /\ Total(Append(xs \o ys, x)) = Total(xs \o ys) + x
          /\ Squares(Append(xs \o ys, x)) = Squares(xs \o ys) + x * x
      <3>1. PICK ws \in Seq(Int) : ws = xs \o ys
        BY <2>2
      <3>2. /\ Total(Append(ws, x)) = Total(ws) + x
            /\ Squares(Append(ws, x)) = Squares(ws) + x * x
        BY <2>3, <3>1, SumsAppend
      <3> QED
        BY <3>1, <3>2
    <2>6. /\ Total(xs \o ys) = Total(xs) + Total(ys)
          /\ Squares(xs \o ys) = Squares(xs) + Squares(ys)
      BY <1>2
    <2>7. PICK y \in Int : y = x * x
      OBVIOUS
    <2>8. /\ Total(xs \o Append(ys, x)) = Total(xs) + Total(Append(ys, x))
          /\ Squares(xs \o Append(ys, x)) = Squares(xs) + Squares(Append(ys, x))
      BY <2>1, <2>3, <2>4, <2>5, <2>6, <2>7, SMTT(60)
    <2> QED
      BY <2>2, <2>8
  <1> HIDE DEF P
  <1>3. \A ys \in Seq(Int) : ys \in P
    BY <1>1, <1>2, SequencesAreBuilt
  <1> QED
    BY <1>3 DEF P

(* Mean, squared deviations and weight, from the number of values, their   *)
(* sum and the sum of their squares.                                       *)
BySums(n, s, q) == <<Frac(s, n), Frac(n * q - s * s, n), Frac(n, 1)>>

(* How Moments adds the squared deviations from the mean s / n. *)
AddSquare(n, s) ==
    [p \in (Int \X Int) \X Int |->
        Plus(p[1], Times(Minus(Whole(p[2]), Frac(s, n)), Minus(Whole(p[2]), Frac(s, n))))]

(* The squared deviations from the mean s / n of some values. *)
LEMMA Deviations ==
    ASSUME NEW n \in Positive, NEW s \in Int, NEW add, NEW zs \in Seq(Int),
           add = AddSquare(n, s)
    PROVE  Fold(add, Whole(0), zs)
             = Frac(n * n * Squares(zs) - 2 * n * s * Total(zs) + Len(zs) * s * s, n * n)
  <1> DEFINE num(ys) == n * n * Squares(ys) - 2 * n * s * Total(ys) + Len(ys) * s * s
             P == {ys \in Seq(Int) : Fold(add, Whole(0), ys) = Frac(num(ys), n * n)}
  <1>0. n \in Int /\ n * n \in Positive /\ 1 \in Positive /\ 0 \in Int
    BY PositiveProduct DEF Positive
  <1>1. <<>> \in P
    <2>1. num(<<>>) = 0
      <3>1. Len(<<>>) = 0
        OBVIOUS
      <3> QED
        BY <1>0, <3>1, SumsEmpty
    <2>2. Frac(0, 1) = Frac(0, n * n)
      BY <1>0, FracSame
    <2>3. Whole(0) = Frac(0, 1)
      BY <1>0, WholeIs
    <2> QED
      BY <2>1, <2>2, <2>3, FoldEmpty
  <1>2. ASSUME NEW ys \in Seq(Int), NEW x \in Int, ys \in P
        PROVE  Append(ys, x) \in P
    <2>1. /\ Total(ys) \in Int /\ Squares(ys) \in Int /\ Len(ys) \in Int
          /\ Total(Append(ys, x)) = Total(ys) + x
          /\ Squares(Append(ys, x)) = Squares(ys) + x * x
          /\ Len(Append(ys, x)) = Len(ys) + 1 /\ Append(ys, x) \in Seq(Int)
      <3>1. Total(ys) \in Int /\ Squares(ys) \in Int
        BY SumsType
      <3>2. /\ Total(Append(ys, x)) = Total(ys) + x
            /\ Squares(Append(ys, x)) = Squares(ys) + x * x
        BY <3>1, SumsAppend
      <3>3. Len(ys) \in Int /\ Len(Append(ys, x)) = Len(ys) + 1 /\ Append(ys, x) \in Seq(Int)
        OBVIOUS
      <3> QED
        BY <3>1, <3>2, <3>3
    <2>10. Fold(add, Whole(0), Append(ys, x)) = add[<<Fold(add, Whole(0), ys), x>>]
      BY FoldAppend
    <2>2. PICK a \in Int : a = num(ys)
      BY <1>0, <2>1
    <2>3. PICK e \in Int : e = x * n - s
      BY <1>0
    <2>4. Minus(Whole(x), Frac(s, n)) = Frac(e, n)
      <3>1. Whole(x) = Frac(x, 1)
        BY WholeIs
      <3>2. Minus(Frac(x, 1), Frac(s, n)) = Frac(x * n - s * 1, 1 * n)
        BY <1>0, MinusIs
      <3>3. x * n - s * 1 = e /\ 1 * n = n
        BY <1>0, <2>3
      <3> QED
        BY <3>1, <3>2, <3>3
    <2>5. Times(Frac(e, n), Frac(e, n)) = Frac(e * e, n * n)
      BY TimesIs
    <2>6. PICK m \in Positive : m = n * n
      BY <1>0
    <2>7. PICK c \in Int : c = e * e
      BY <2>3
    <2>8. Plus(Frac(a, m), Frac(c, m)) = Frac(a + c, m)
      <3>1. Plus(Frac(a, m), Frac(c, m)) = Frac(a * m + c * m, m * m)
        BY PlusIs
      <3>2. (a * m + c * m) * m = (a + c) * (m * m) /\ a * m + c * m \in Int /\ a + c \in Int
        BY DEF Positive
      <3>3. m * m \in Positive
        BY PositiveProduct
      <3> QED
        BY <3>1, <3>2, <3>3, FracSame
    <2>9. Frac(a, m) \in Int \X Int
      <3>1. PICK p \in Int, q \in Positive : Frac(a, m) = <<p, q>>
        BY FracIs
      <3> QED
        BY <3>1 DEF Positive
    <2>11. Fold(add, Whole(0), ys) = Frac(a, m)
      BY <1>2, <2>2, <2>6
    <2>12. add[<<Frac(a, m), x>>] = Frac(a + c, m)
      <3>1. PICK y \in Int \X Int : y = Frac(a, m)
        BY <2>9
      <3>2. <<y, x>> \in (Int \X Int) \X Int /\ <<y, x>>[1] = y /\ <<y, x>>[2] = x
        OBVIOUS
      <3>3. add[<<y, x>>] = Plus(y, Times(Minus(Whole(x), Frac(s, n)), Minus(Whole(x), Frac(s, n))))
        BY <3>2 DEF AddSquare
      <3> QED
        BY <2>4, <2>5, <2>6, <2>7, <2>8, <3>1, <3>3
    <2>13. num(Append(ys, x)) = a + c
      <3>1. PICK t \in Int, q \in Int, k \in Int : t = Total(ys) /\ q = Squares(ys) /\ k = Len(ys)
        BY <2>1
      <3>2. a = n * n * q - 2 * n * s * t + k * s * s
        BY <2>2, <3>1
      <3>3. num(Append(ys, x)) = n * n * (q + x * x) - 2 * n * s * (t + x) + (k + 1) * s * s
        BY <2>1, <3>1
      <3>4. n * n * (q + x * x) - 2 * n * s * (t + x) + (k + 1) * s * s
              = (n * n * q - 2 * n * s * t + k * s * s) + (x * n - s) * (x * n - s)
        <4>1. n * n * (q + x * x) = n * n * q + (x * n) * (x * n)
          BY <1>0
        <4>2. 2 * n * s * (t + x) = 2 * n * s * t + 2 * ((x * n) * s)
          BY <1>0
        <4>3. (k + 1) * s * s = k * s * s + s * s
          OBVIOUS
        <4>4. (x * n - s) * (x * n - s) = (x * n) * (x * n) - 2 * ((x * n) * s) + s * s
          BY <1>0
        <4> QED
          BY <1>0, <4>1, <4>2, <4>3, <4>4
      <3> QED
        BY <2>3, <2>7, <3>2, <3>3, <3>4
    <2> QED
      BY <2>1, <2>6, <2>10, <2>11, <2>12, <2>13
  <1> HIDE DEF P
  <1>3. \A ys \in Seq(Int) : ys \in P
    BY <1>1, <1>2, SequencesAreBuilt
  <1> QED
    BY <1>3 DEF P

(* The moments by sums. *)
LEMMA MomentsIs ==
    ASSUME NEW xs \in Seq(Int), xs # <<>>
    PROVE  Moments(xs) = BySums(Len(xs), Total(xs), Squares(xs))
  <1>1. PICK n \in Positive : n = Len(xs)
    BY DEF Positive
  <1>2. PICK s \in Int, q \in Int : s = Total(xs) /\ q = Squares(xs)
    BY SumsType
  <1> DEFINE add == AddSquare(n, s)
  <1>3. Moments(xs) = <<Frac(s, n), Fold(add, Whole(0), xs), Whole(n)>>
    BY <1>1, <1>2 DEF Moments, AddSquare
  <1>4. Fold(add, Whole(0), xs) = Frac(n * n * q - 2 * n * s * s + n * s * s, n * n)
    <2>1. PICK f : f = add
      OBVIOUS
    <2> HIDE DEF add
    <2>2. Fold(f, Whole(0), xs)
            = Frac(n * n * Squares(xs) - 2 * n * s * Total(xs) + Len(xs) * s * s, n * n)
      BY <2>1, Deviations DEF add
    <2> QED
      BY <1>1, <1>2, <2>1, <2>2
  <1>5. n \in Int
    BY DEF Positive
  <1>6. PICK a \in Int, b \in Int : a = n * n * q - 2 * n * s * s + n * s * s /\ b = n * q - s * s
    BY <1>5
  <1>7. a * n = b * (n * n)
    BY <1>5, <1>6
  <1>8. Frac(a, n * n) = Frac(b, n)
    <2>1. n * n \in Positive
      BY PositiveProduct
    <2>2. PICK m \in Positive : m = n * n
      BY <2>1
    <2>3. a * n = b * m
      BY <1>7, <2>2
    <2> QED
      BY <2>2, <2>3, FracSame
  <1>9. Whole(n) = Frac(n, 1)
    BY <1>5, WholeIs
  <1> QED
    BY <1>1, <1>2, <1>3, <1>4, <1>6, <1>8, <1>9 DEF BySums

-----------------------------------------------------------------------------
(* The updates of Welford's accumulators. *)

Nothing == <<Whole(0), Whole(0), Whole(0)>>

(* Zero and one. *)
LEMMA Units ==
    ASSUME NEW a \in Int, NEW b \in Positive
    PROVE  /\ Plus(Frac(a, b), Whole(0)) = Frac(a, b)
           /\ Plus(Whole(0), Frac(a, b)) = Frac(a, b)
           /\ Minus(Frac(a, b), Whole(0)) = Frac(a, b)
           /\ Times(Frac(a, b), Whole(0)) = Whole(0)
           /\ Times(Frac(a, b), Whole(1)) = Frac(a, b)
  <1>1. 1 \in Positive /\ 0 \in Int /\ 1 \in Int /\ b \in Int
    BY DEF Positive
  <1>2. Whole(0) = Frac(0, 1) /\ Whole(1) = Frac(1, 1)
    BY <1>1, WholeIs
  <1>3. a * 1 + 0 * b = a /\ 0 * b + a * 1 = a /\ b * 1 = b /\ 1 * b = b /\ a * 1 - 0 * b = a
    BY <1>1
  <1>4. Plus(Frac(a, b), Frac(0, 1)) = Frac(a * 1 + 0 * b, b * 1)
    BY <1>1, PlusIs
  <1>5. Plus(Frac(0, 1), Frac(a, b)) = Frac(0 * b + a * 1, 1 * b)
    BY <1>1, PlusIs
  <1>6. Minus(Frac(a, b), Frac(0, 1)) = Frac(a * 1 - 0 * b, b * 1)
    BY <1>1, MinusIs
  <1>7. Times(Frac(a, b), Frac(1, 1)) = Frac(a * 1, b * 1)
    BY <1>1, TimesIs
  <1>8. Times(Frac(a, b), Frac(0, 1)) = Frac(0, 1)
    <2>1. Times(Frac(a, b), Frac(0, 1)) = Frac(a * 0, b * 1)
      BY <1>1, TimesIs
    <2>2. a * 0 = 0
      BY <1>1
    <2>3. Frac(0, b) = Frac(0, 1)
      BY <1>1, FracSame
    <2> QED
      BY <1>3, <2>1, <2>2, <2>3
  <1> QED
    BY <1>2, <1>3, <1>4, <1>5, <1>6, <1>7, <1>8

(* Whole numbers. *)
LEMMA WholePlus ==
    ASSUME NEW a \in Int, NEW b \in Int
    PROVE  Plus(Whole(a), Whole(b)) = Whole(a + b)
  <1>1. 1 \in Positive
    BY DEF Positive
  <1>2. Plus(Frac(a, 1), Frac(b, 1)) = Frac(a * 1 + b * 1, 1 * 1)
    BY <1>1, PlusIs
  <1>3. a * 1 + b * 1 = a + b /\ 1 * 1 = 1
    OBVIOUS
  <1>4. Whole(a) = Frac(a, 1) /\ Whole(b) = Frac(b, 1) /\ Whole(a + b) = Frac(a + b, 1)
    BY WholeIs
  <1> QED
    BY <1>2, <1>3, <1>4

(* Fractions of one denominator. *)
LEMMA CommonPlus ==
    ASSUME NEW a \in Int, NEW c \in Int, NEW m \in Positive
    PROVE  Plus(Frac(a, m), Frac(c, m)) = Frac(a + c, m)
  <1>1. Plus(Frac(a, m), Frac(c, m)) = Frac(a * m + c * m, m * m)
    BY PlusIs
  <1>2. (a * m + c * m) * m = (a + c) * (m * m) /\ a * m + c * m \in Int /\ a + c \in Int
    BY DEF Positive
  <1>3. m * m \in Positive
    BY PositiveProduct
  <1> QED
    BY <1>1, <1>2, <1>3, FracSame

(* A factor of both terms is left out. *)
LEMMA Reduced ==
    ASSUME NEW a \in Int, NEW b \in Positive, NEW k \in Positive
    PROVE  Frac(a * k, b * k) = Frac(a, b)
  <1>1. b \in Int /\ k \in Int
    BY DEF Positive
  <1>2. (a * k) * b = a * (b * k)
    BY <1>1
  <1>3. a * k \in Int /\ b * k \in Positive
    BY <1>1, PositiveProduct
  <1> QED
    BY <1>2, <1>3, FracSame

(* How far a value is from a mean. *)
LEMMA DeviationIs ==
    ASSUME NEW x \in Int, NEW s \in Int, NEW n \in Positive
    PROVE  Minus(Whole(x), Frac(s, n)) = Frac(x * n - s, n)
  <1>1. Whole(x) = Frac(x, 1)
    BY WholeIs
  <1>2. Minus(Frac(x, 1), Frac(s, n)) = Frac(x * n - s * 1, 1 * n)
    BY MinusIs DEF Positive
  <1>3. x * n - s * 1 = x * n - s /\ 1 * n = n
    BY DEF Positive
  <1> QED
    BY <1>1, <1>2, <1>3

(* The first value. *)
LEMMA ReduceFirst ==
    ASSUME NEW x \in Int, acc = Nothing
    PROVE  WelfordReduce(TRUE, Whole(x)) = BySums(1, x, x * x)
  <1>1. WelfordReduce(TRUE, Whole(x)) = <<Whole(x), Whole(0), Plus(Whole(0), Whole(1))>>
    BY DEF WelfordReduce, Nothing
  <1>2. Plus(Whole(0), Whole(1)) = Whole(1)
    <2>1. Plus(Whole(0), Whole(1)) = Whole(0 + 1)
      BY WholePlus
    <2> QED
      BY <2>1
  <1>3. 1 * (x * x) - x * x = 0
    OBVIOUS
  <1>4. Whole(x) = Frac(x, 1) /\ Whole(0) = Frac(0, 1) /\ Whole(1) = Frac(1, 1)
    BY WholeIs
  <1> QED
    BY <1>1, <1>2, <1>3, <1>4 DEF BySums

(* Any other value. *)
LEMMA ReduceNext ==
    ASSUME NEW n \in Positive, NEW s \in Int, NEW q \in Int, NEW x \in Int,
           acc = BySums(n, s, q)
    PROVE  WelfordReduce(FALSE, Whole(x)) = BySums(n + 1, s + x, q + x * x)
  <1>1. n \in Int /\ n > 0
    BY DEF Positive
  <1>2. PICK k \in Positive : k = n + 1
    BY DEF Positive
  <1>3. k \in Int
    BY DEF Positive
  <1>4. PICK e \in Int : e = x * n - s
    BY <1>1
  <1>5. PICK a \in Int, b \in Int : a = n * q - s * s /\ b = k * (q + x * x) - (s + x) * (s + x)
    BY <1>1, <1>3
  <1>6. acc = <<Frac(s, n), Frac(a, n), Frac(n, 1)>>
    BY <1>5 DEF BySums
  <1>7. Plus(Frac(n, 1), Whole(1)) = Frac(k, 1)
    <2>1. Whole(n) = Frac(n, 1) /\ Whole(k) = Frac(k, 1)
      BY <1>1, <1>3, WholeIs
    <2>2. Plus(Whole(n), Whole(1)) = Whole(n + 1)
      BY <1>1, WholePlus
    <2> QED
      BY <1>2, <2>1, <2>2
  <1>8. Minus(Whole(x), Frac(s, n)) = Frac(e, n)
    BY <1>4, DeviationIs
  <1>9. Plus(Frac(s, n), Over(Frac(e, n), Frac(k, 1))) = Frac(s + x, k)
    <2>1. Over(Frac(e, n), Frac(k, 1)) = Frac(e * 1, n * k)
      BY OverIs DEF Positive
    <2>2. e * 1 = e
      OBVIOUS
    <2>3. PICK m \in Positive : m = n * k
      BY PositiveProduct
    <2>4. Plus(Frac(s, n), Frac(e, m)) = Frac(s * m + e * n, n * m)
      BY PlusIs
    <2>5. (s * m + e * n) * k = (s + x) * (n * m)
      <3>1. s * m + e * n = (n * n) * (s + x)
        <4>1. s * m = (n * n) * s + s * n
          BY <1>1, <1>2, <2>3
        <4>2. e * n = (n * n) * x - s * n
          BY <1>1, <1>4
        <4> QED
          BY <1>1, <4>1, <4>2
      <3>2. n * m = (n * n) * k
        BY <1>1, <1>3, <2>3
      <3> QED
        BY <1>1, <1>3, <3>1, <3>2
    <2>6. s * m + e * n \in Int /\ n * m \in Positive /\ s + x \in Int
      BY <1>1, PositiveProduct DEF Positive
    <2>7. Frac(s * m + e * n, n * m) = Frac(s + x, k)
      BY <2>5, <2>6, FracSame
    <2> QED
      BY <2>1, <2>2, <2>3, <2>4, <2>7
  <1>10. Minus(Whole(x), Frac(s + x, k)) = Frac(e, k)
    <2>1. PICK t \in Int : t = s + x
      OBVIOUS
    <2>2. Minus(Whole(x), Frac(t, k)) = Frac(x * k - t, k)
      BY DeviationIs
    <2>3. x * k - t = e
      BY <1>1, <1>2, <1>4, <2>1
    <2> QED
      BY <2>1, <2>2, <2>3
  <1>11. Plus(Frac(a, n), Times(Frac(e, n), Frac(e, k))) = Frac(b, k)
    <2>1. PICK m \in Positive, c \in Int : m = n * k /\ c = e * e
      BY PositiveProduct
    <2>2. Times(Frac(e, n), Frac(e, k)) = Frac(c, m)
      BY <2>1, TimesIs
    <2>3. PICK f \in Int : f = a * k
      BY <1>3
    <2>4. Frac(a, n) = Frac(f, m)
      BY <2>1, <2>3, Reduced
    <2>5. Plus(Frac(f, m), Frac(c, m)) = Frac(f + c, m)
      BY CommonPlus
    <2>6. f + c = b * n
      <3>1. f = n * q * k - (n * (s * s) + s * s)
        BY <1>1, <1>2, <1>5, <2>3
      <3>2. c = (x * n) * (x * n) - 2 * (x * n * s) + s * s
        BY <1>1, <1>4, <2>1
      <3>3. b * n = n * q * k + (x * n) * (x * n) - (n * (s * s)) - 2 * (x * n * s)
        <4>1. (k * (q + x * x)) * n = n * q * k + (x * n) * (x * n) + (x * x) * n
          BY <1>1, <1>2
        <4>2. ((s + x) * (s + x)) * n = (n * (s * s)) + 2 * (x * n * s) + (x * x) * n
          BY <1>1
        <4>3. b * n = (k * (q + x * x)) * n - ((s + x) * (s + x)) * n
          BY <1>1, <1>3, <1>5
        <4> QED
          BY <1>1, <1>3, <4>1, <4>2, <4>3
      <3> QED
        BY <1>1, <1>3, <3>1, <3>2, <3>3
    <2>7. Frac(b * n, k * n) = Frac(b, k)
      BY Reduced
    <2>8. k * n = m
      BY <1>1, <1>3, <2>1
    <2> QED
      BY <2>2, <2>4, <2>5, <2>6, <2>7, <2>8
  <1>12. WelfordReduce(FALSE, Whole(x)) = <<Frac(s + x, k), Frac(b, k), Frac(k, 1)>>
    BY <1>6, <1>7, <1>8, <1>9, <1>10, <1>11 DEF WelfordReduce
  <1> QED
    BY <1>2, <1>5, <1>12 DEF BySums

(* The distance of two means, which is zero where they are equal. *)
LEMMA DeltaIs ==
    ASSUME NEW s \in Int, NEW n \in Positive, NEW t \in Int, NEW m \in Positive
    PROVE  (IF Frac(s, n) = Frac(t, m) THEN Whole(0) ELSE Minus(Frac(t, m), Frac(s, n)))
             = Frac(t * n - s * m, m * n)
  <1>1. Minus(Frac(t, m), Frac(s, n)) = Frac(t * n - s * m, m * n)
    BY MinusIs
  <1>2. ASSUME Frac(s, n) = Frac(t, m)
        PROVE  Minus(Frac(t, m), Frac(s, n)) = Whole(0)
    <2>1. Minus(Frac(s, n), Frac(s, n)) = Frac(s * n - s * n, n * n)
      BY MinusIs
    <2>2. s * n - s * n = 0
      BY DEF Positive
    <2>3. Frac(0, n * n) = Frac(0, 1)
      <3>1. PICK k \in Positive : k = n * n
        BY PositiveProduct
      <3>2. 0 * 1 = 0 * k /\ 1 \in Positive
        BY DEF Positive
      <3> QED
        BY <3>1, <3>2, FracSame
    <2>4. Whole(0) = Frac(0, 1)
      BY WholeIs
    <2> QED
      BY <1>2, <2>1, <2>2, <2>3, <2>4
  <1> QED
    BY <1>1, <1>2

(* A whole number that is not zero. *)
LEMMA NotZero ==
    ASSUME NEW n \in Positive
    PROVE  Frac(n, 1) = Whole(n) /\ Frac(n, 1) # Whole(0)
  <1>1. n \in Int /\ n # 0
    BY DEF Positive
  <1>2. Frac(n, 1) = Whole(n)
    BY <1>1, WholeIs
  <1> QED
    BY <1>1, <1>2 DEF Whole

(* Both sides have values. *)
LEMMA CombineBoth ==
    ASSUME NEW n \in Positive, NEW s \in Int, NEW q \in Int,
           NEW m \in Positive, NEW t \in Int, NEW r \in Int,
           acc = BySums(n, s, q)
    PROVE  WelfordCombine(BySums(m, t, r)) = BySums(n + m, s + t, q + r)
  <1>1. n \in Int /\ m \in Int /\ 1 \in Positive
    BY DEF Positive
  <1>2. PICK N \in Positive : N = n + m
    BY DEF Positive
  <1>3. N \in Int
    BY DEF Positive
  <1>4. PICK e \in Int, mn \in Positive : e = t * n - s * m /\ mn = m * n
    BY <1>1, PositiveProduct
  <1>5. PICK a \in Int, b \in Int, c \in Int :
            a = n * q - s * s /\ b = m * r - t * t /\ c = N * (q + r) - (s + t) * (s + t)
    BY <1>1, <1>3
  <1>6. acc = <<Frac(s, n), Frac(a, n), Frac(n, 1)>>
    BY <1>5 DEF BySums
  <1>7. BySums(m, t, r) = <<Frac(t, m), Frac(b, m), Frac(m, 1)>>
    BY <1>5 DEF BySums
  <1>8. (IF Frac(s, n) = Frac(t, m) THEN Whole(0) ELSE Minus(Frac(t, m), Frac(s, n)))
          = Frac(e, mn)
    BY <1>4, DeltaIs
  <1>9. Plus(Frac(n, 1), Frac(m, 1)) = Frac(N, 1)
    BY <1>1, <1>2, CommonPlus
  <1>10. WelfordRatio(Frac(m, 1), Frac(N, 1)) = Frac(m, N)
    <2>1. Frac(N, 1) # Whole(0)
      BY NotZero
    <2>2. Over(Frac(m, 1), Frac(N, 1)) = Frac(m * 1, 1 * N)
      BY <1>1, OverIs
    <2>3. m * 1 = m /\ 1 * N = N
      BY <1>1, <1>3
    <2> QED
      BY <2>1, <2>2, <2>3 DEF WelfordRatio
  <1>11. Plus(Frac(s, n), Times(Frac(e, mn), Frac(m, N))) = Frac(s + t, N)
    <2>1. Times(Frac(e, mn), Frac(m, N)) = Frac(e * m, mn * N)
      BY <1>1, TimesIs
    <2>2. PICK nN \in Positive : nN = n * N
      BY PositiveProduct
    <2>3. Frac(e * m, mn * N) = Frac(e, nN)
      <3>1. Frac(e * m, nN * m) = Frac(e, nN)
        BY Reduced
      <3>2. nN * m = mn * N
        BY <1>1, <1>3, <1>4, <2>2
      <3> QED
        BY <3>1, <3>2
    <2>4. Frac(s, n) = Frac(s * N, nN)
      BY <2>2, Reduced
    <2>5. Plus(Frac(s * N, nN), Frac(e, nN)) = Frac(s * N + e, nN)
      <3>1. s * N \in Int
        BY <1>3
      <3> QED
        BY <3>1, CommonPlus
    <2>6. s * N + e = (s + t) * n /\ N * n = nN
      <3>1. s * N = s * n + s * m
        BY <1>1, <1>2
      <3>2. (s + t) * n = s * n + t * n
        BY <1>1
      <3> QED
        BY <1>1, <1>3, <1>4, <2>2, <3>1, <3>2
    <2>7. Frac((s + t) * n, N * n) = Frac(s + t, N)
      BY Reduced
    <2> QED
      BY <2>1, <2>3, <2>4, <2>5, <2>6, <2>7
  <1>12. Plus(Plus(Frac(a, n), Frac(b, m)),
              Times(Times(Times(Frac(e, mn), Frac(e, mn)), Frac(n, 1)), Frac(m, N))) = Frac(c, N)
    <2>1. PICK ee \in Int, M \in Positive : ee = e * e /\ M = mn * N
      BY PositiveProduct
    <2>2. PICK mm \in Positive : mm = mn * mn
      BY PositiveProduct
    <2>3. Times(Times(Times(Frac(e, mn), Frac(e, mn)), Frac(n, 1)), Frac(m, N)) = Frac(ee, M)
      <3>1. Times(Frac(e, mn), Frac(e, mn)) = Frac(ee, mm)
        BY <2>1, <2>2, TimesIs
      <3>2. Times(Frac(ee, mm), Frac(n, 1)) = Frac(ee * n, mm)
        <4>1. Times(Frac(ee, mm), Frac(n, 1)) = Frac(ee * n, mm * 1)
          BY <1>1, TimesIs
        <4>2. mm * 1 = mm
          BY DEF Positive
        <4> QED
          BY <4>1, <4>2
      <3>3. PICK f \in Int : f = ee * n
        BY <1>1
      <3>4. Times(Frac(f, mm), Frac(m, N)) = Frac(f * m, mm * N)
        BY <1>1, TimesIs
      <3>5. f * m = ee * mn /\ mm * N = M * mn
        <4>1. mn \in Int /\ N \in Int /\ mm \in Int
          BY DEF Positive
        <4> QED
          BY <1>1, <1>4, <2>1, <2>2, <3>3, <4>1
      <3>6. Frac(ee * mn, M * mn) = Frac(ee, M)
        BY Reduced
      <3> QED
        BY <3>1, <3>2, <3>3, <3>4, <3>5, <3>6
    <2>4. Plus(Frac(a, n), Frac(b, m)) = Frac((a * m + b * n) * N, M)
      <3>1. Plus(Frac(a, n), Frac(b, m)) = Frac(a * m + b * n, n * m)
        BY PlusIs
      <3>2. n * m = mn
        BY <1>1, <1>4
      <3>3. PICK f \in Int : f = a * m + b * n
        BY <1>1
      <3>4. Frac(f * N, mn * N) = Frac(f, mn)
        BY Reduced
      <3> QED
        BY <2>1, <3>1, <3>2, <3>3, <3>4
    <2>5. PICK f \in Int : f = (a * m + b * n) * N
      BY <1>1, <1>3
    <2>6. Plus(Frac(f, M), Frac(ee, M)) = Frac(f + ee, M)
      BY <2>1, CommonPlus
    <2>7. f + ee = c * mn
      <3>1. f = mn * q * N + mn * r * N - (s * m) * (s * m) - (t * n) * (t * n)
                  - mn * (s * s) - mn * (t * t)
        <4>1. a * m = mn * q - (s * s) * m
          BY <1>1, <1>4, <1>5
        <4>2. b * n = mn * r - (t * t) * n
          BY <1>1, <1>4, <1>5
        <4>3. f = mn * q * N + mn * r * N - (s * s) * m * N - (t * t) * n * N
          BY <1>1, <1>3, <2>5, <4>1, <4>2 DEF Positive
        <4>4. (s * s) * m * N = (s * m) * (s * m) + mn * (s * s)
          BY <1>1, <1>2, <1>4
        <4>5. (t * t) * n * N = (t * n) * (t * n) + mn * (t * t)
          BY <1>1, <1>2, <1>4
        <4> QED
          BY <1>1, <1>3, <4>3, <4>4, <4>5 DEF Positive
      <3>2. ee = (t * n) * (t * n) - 2 * mn * (s * t) + (s * m) * (s * m)
        BY <1>1, <1>4, <2>1
      <3>3. c * mn = mn * q * N + mn * r * N - mn * (s * s) - 2 * mn * (s * t) - mn * (t * t)
        BY <1>1, <1>3, <1>5 DEF Positive
      <3> QED
        BY <1>1, <1>3, <3>1, <3>2, <3>3 DEF Positive
    <2>8. Frac(c * mn, N * mn) = Frac(c, N)
      BY Reduced
    <2>9. N * mn = M
      BY <2>1 DEF Positive
    <2> QED
      BY <2>3, <2>4, <2>5, <2>6, <2>7, <2>8, <2>9
  <1>13. WelfordCombine(<<Frac(t, m), Frac(b, m), Frac(m, 1)>>)
           = <<Frac(s + t, N), Frac(c, N), Frac(N, 1)>>
    BY <1>6, <1>8, <1>9, <1>10, <1>11, <1>12 DEF WelfordCombine
  <1> QED
    BY <1>2, <1>5, <1>7, <1>13 DEF BySums

(* The accumulators are empty. *)
LEMMA CombineIntoNothing ==
    ASSUME NEW m \in Positive, NEW t \in Int, NEW r \in Int, acc = Nothing
    PROVE  WelfordCombine(BySums(m, t, r)) = BySums(m, t, r)
  <1>1. m \in Int /\ 1 \in Positive
    BY DEF Positive
  <1>2. PICK b \in Int : b = m * r - t * t
    BY <1>1
  <1>3. BySums(m, t, r) = <<Frac(t, m), Frac(b, m), Frac(m, 1)>>
    BY <1>2 DEF BySums
  <1>4. (IF Whole(0) = Frac(t, m) THEN Whole(0) ELSE Minus(Frac(t, m), Whole(0))) = Frac(t, m)
    BY Units
  <1>5. Plus(Whole(0), Frac(m, 1)) = Frac(m, 1) /\ Frac(m, 1) # Whole(0)
    BY <1>1, Units, NotZero
  <1>6. Over(Frac(m, 1), Frac(m, 1)) = Whole(1)
    <2>1. Over(Frac(m, 1), Frac(m, 1)) = Frac(m * 1, 1 * m)
      BY <1>1, OverIs
    <2>2. m * 1 = 1 * m
      BY <1>1
    <2>3. Frac(1 * m, 1 * m) = Frac(1, 1)
      BY <1>1, Reduced
    <2>4. Frac(1, 1) = Whole(1)
      BY WholeIs
    <2> QED
      BY <2>1, <2>2, <2>3, <2>4
  <1>7. Times(Frac(t, m), Whole(1)) = Frac(t, m) /\ Plus(Whole(0), Frac(t, m)) = Frac(t, m)
    BY Units
  <1>8. Times(Times(Times(Frac(t, m), Frac(t, m)), Whole(0)), Whole(1)) = Whole(0)
    <2>1. PICK f \in Int, k \in Positive : f = t * t /\ k = m * m
      BY PositiveProduct
    <2>2. Times(Frac(t, m), Frac(t, m)) = Frac(f, k)
      BY <2>1, TimesIs
    <2>3. Times(Frac(f, k), Whole(0)) = Whole(0)
      BY Units
    <2>4. Times(Frac(0, 1), Whole(1)) = Frac(0, 1)
      BY <1>1, Units
    <2>5. Frac(0, 1) = Whole(0)
      BY WholeIs
    <2> QED
      BY <2>2, <2>3, <2>4, <2>5
  <1>9. Plus(Plus(Whole(0), Frac(b, m)), Whole(0)) = Frac(b, m)
    BY Units
  <1>10. WelfordCombine(<<Frac(t, m), Frac(b, m), Frac(m, 1)>>)
           = <<Frac(t, m), Frac(b, m), Frac(m, 1)>>
    BY <1>4, <1>5, <1>6, <1>7, <1>8, <1>9 DEF WelfordCombine, WelfordRatio, Nothing
  <1> QED
    BY <1>3, <1>10

(* The other side is empty. *)
LEMMA CombineNothing ==
    ASSUME NEW n \in Positive, NEW s \in Int, NEW q \in Int, acc = BySums(n, s, q)
    PROVE  WelfordCombine(Nothing) = BySums(n, s, q)
  <1>1. n \in Int /\ 1 \in Positive
    BY DEF Positive
  <1>2. PICK a \in Int : a = n * q - s * s
    BY <1>1
  <1>3. BySums(n, s, q) = <<Frac(s, n), Frac(a, n), Frac(n, 1)>>
    BY <1>2 DEF BySums
  <1>4. Whole(0) = Frac(0, 1)
    BY WholeIs
  <1> DEFINE delta == IF Frac(s, n) = Whole(0) THEN Whole(0) ELSE Minus(Whole(0), Frac(s, n))
  <1>5. PICK d \in Int, k \in Positive : delta = Frac(d, k)
    <2>1. PICK d \in Int, k \in Positive : d = 0 * n - s * 1 /\ k = 1 * n
      BY <1>1
    <2>2. Minus(Frac(0, 1), Frac(s, n)) = Frac(d, k)
      BY <1>1, <2>1, MinusIs
    <2> QED
      BY <1>1, <1>4, <2>2
  <1>6. Plus(Frac(n, 1), Whole(0)) = Frac(n, 1) /\ Frac(n, 1) # Whole(0)
    BY <1>1, Units, NotZero
  <1>7. Over(Whole(0), Frac(n, 1)) = Whole(0)
    <2>1. Over(Frac(0, 1), Frac(n, 1)) = Frac(0 * 1, 1 * n)
      BY <1>1, OverIs
    <2>2. 0 * 1 = 0 /\ 1 * n = n
      BY <1>1
    <2>3. 0 * 1 = 0 * n
      BY <1>1
    <2>4. Frac(0, n) = Frac(0, 1)
      BY <1>1, <2>3, FracSame
    <2> QED
      BY <1>4, <2>1, <2>2, <2>4
  <1>8. Plus(Frac(s, n), Times(Frac(d, k), Whole(0))) = Frac(s, n)
    BY Units
  <1>9. Times(Times(Times(Frac(d, k), Frac(d, k)), Frac(n, 1)), Whole(0)) = Whole(0)
    <2>1. PICK f \in Int, g \in Positive : f = d * d /\ g = k * k
      BY PositiveProduct
    <2>2. Times(Frac(d, k), Frac(d, k)) = Frac(f, g)
      BY <2>1, TimesIs
    <2>3. PICK h \in Int, i \in Positive : h = f * n /\ i = g * 1
      BY <1>1, PositiveProduct
    <2>4. Times(Frac(f, g), Frac(n, 1)) = Frac(h, i)
      BY <1>1, <2>3, TimesIs
    <2>5. Times(Frac(h, i), Whole(0)) = Whole(0)
      BY Units
    <2> QED
      BY <2>2, <2>4, <2>5
  <1>10. Plus(Plus(Frac(a, n), Whole(0)), Whole(0)) = Frac(a, n)
    BY Units
  <1>11. acc = <<Frac(s, n), Frac(a, n), Frac(n, 1)>>
    BY <1>3
  <1> HIDE DEF delta
  <1>12. WelfordCombine(Nothing)
           = <<Plus(Frac(s, n), Times(delta, Whole(0))),
               Plus(Plus(Frac(a, n), Whole(0)), Times(Times(Times(delta, delta), Frac(n, 1)), Whole(0))),
               Frac(n, 1)>>
    BY <1>6, <1>7, <1>11 DEF WelfordCombine, WelfordRatio, Nothing, delta
  <1> QED
    BY <1>3, <1>5, <1>8, <1>9, <1>10, <1>12

(* Nothing is combined with nothing. *)
LEMMA CombineNothings ==
    ASSUME acc = Nothing
    PROVE  WelfordCombine(Nothing) = Nothing
  <1>1. Plus(Whole(0), Whole(0)) = Whole(0) /\ Times(Whole(0), Whole(0)) = Whole(0)
    <2>1. 1 \in Positive /\ Whole(0) = Frac(0, 1)
      BY WholeIs DEF Positive
    <2> QED
      BY <2>1, Units
  <1> QED
    BY <1>1 DEF WelfordCombine, WelfordRatio, Nothing

-----------------------------------------------------------------------------
(* What every type accumulates. *)

(* Wrapping a number does not change what it adds. *)
LEMMA WrapPlus ==
    ASSUME NEW n \in Int, NEW x \in Int
    PROVE  Wrap(Wrap(n) + x) = Wrap(n + x)
  <1>1. PICK m \in Positive : m = Modulus
    BY ValuesAssumption DEF Positive
  <1>2. m \in Int /\ m > 0
    BY DEF Positive
  <1>3. PICK q \in Int, r \in Int : q = n \div m /\ r = n % m /\ n = m * q + r
    BY <1>2, Divides
  <1>4. PICK a \in Int, b \in Int : a = r + x /\ b = n + x
    OBVIOUS
  <1>5. PICK u \in Int, v \in Int : /\ u = a \div m /\ v = a % m /\ a = m * u + v
                                   /\ 0 <= v /\ v < m
    BY <1>2, Divides
  <1>6. b = m * (q + u) + v
    BY <1>2, <1>3, <1>4, <1>5
  <1>7. b % m = v
    <2>1. PICK k \in Int : k = q + u
      OBVIOUS
    <2>2. b = m * k + v
      BY <1>6, <2>1
    <2> QED
      BY <1>2, <1>5, <2>2
  <1> QED
    BY <1>1, <1>3, <1>4, <1>5, <1>7 DEF Wrap

(* Values are integers that fit. *)
LEMMA ValuesFit ==
    /\ Seq(Values) \subseteq Seq(Int)
    /\ \A x \in Values : x \in Int /\ 0 <= x /\ x <= Modulus - 1
    /\ Modulus \in Int /\ 0 <= Modulus - 1
  <1>1. Values \subseteq 0..(Modulus - 1) /\ Modulus \in Nat /\ Modulus # 0
    BY ValuesAssumption
  <1>2. \A x \in Values : x \in Int /\ 0 <= x /\ x <= Modulus - 1
    BY <1>1
  <1>3. Values \subseteq Int
    BY <1>2
  <1>4. Seq(Values) \subseteq Seq(Int)
    <2> SUFFICES ASSUME NEW xs \in Seq(Values) PROVE xs \in Seq(Int)
      OBVIOUS
    <2>1. Len(xs) \in Nat /\ xs = [i \in 1..Len(xs) |-> xs[i]] /\ \A i \in 1..Len(xs) : xs[i] \in Values
      OBVIOUS
    <2>2. xs \in [1..Len(xs) -> Int]
      BY <1>3, <2>1
    <2> QED
      BY <2>1, <2>2, SeqDef
  <1> QED
    BY <1>1, <1>2, <1>4

(* Every type's part of Definition. *)
LEMMA DefinitionOf ==
    ASSUME NEW xs
    PROVE  /\ type \in {"sum", "dot"} => Definition(xs) = Wrap(Total(xs))
           /\ type = "prod" => Definition(xs) = Fold([p \in Int \X Int |-> Wrap(p[1] * p[2])], 1, xs)
           /\ type = "xor_sum" =>
                  Definition(xs) = Fold([p \in Int \X Int |-> BitXor(p[1], p[2])], 0, xs)
           /\ type = "max" => Definition(xs) = IF xs = <<>> THEN LeastValue ELSE Max(ToSet(xs))
           /\ type = "min" => Definition(xs) = IF xs = <<>> THEN Modulus - 1 ELSE Min(ToSet(xs))
           /\ type = "any" => Definition(xs) = (\E i \in DOMAIN xs : xs[i] # 0)
           /\ type = "scan" => Definition(xs) = IF xs = <<>> THEN None ELSE xs
           /\ type \in WelfordTypes => Definition(xs) = Moments(xs)
  <1>1. type \in {"sum", "dot"} => Definition(xs) = Wrap(Total(xs))
    BY DEF Definition, WelfordTypes
  <1>2. type = "prod" => Definition(xs) = Fold([p \in Int \X Int |-> Wrap(p[1] * p[2])], 1, xs)
    BY DEF Definition, WelfordTypes
  <1>3. type = "xor_sum" =>
            Definition(xs) = Fold([p \in Int \X Int |-> BitXor(p[1], p[2])], 0, xs)
    BY DEF Definition, WelfordTypes
  <1>4. type = "max" => Definition(xs) = IF xs = <<>> THEN LeastValue ELSE Max(ToSet(xs))
    BY DEF Definition, WelfordTypes
  <1>5. type = "min" => Definition(xs) = IF xs = <<>> THEN Modulus - 1 ELSE Min(ToSet(xs))
    BY DEF Definition, WelfordTypes
  <1>6. type = "any" => Definition(xs) = (\E i \in DOMAIN xs : xs[i] # 0)
    BY DEF Definition, WelfordTypes
  <1>7. type = "scan" => Definition(xs) = IF xs = <<>> THEN None ELSE xs
    BY DEF Definition, WelfordTypes
  <1>8. type \in WelfordTypes => Definition(xs) = Moments(xs)
    BY DEF Definition, WelfordTypes
  <1> QED
    BY <1>1, <1>2, <1>3, <1>4, <1>5, <1>6, <1>7, <1>8

(* What is accumulated of nothing is the identity. *)
LEMMA DefinitionEmpty ==
    ASSUME type \in Types
    PROVE  Definition(<<>>) = Identity
  <1>1. type \in SimpleTypes \cup WelfordTypes
    BY TypesAssumption
  <1>2. CASE type \in WelfordTypes
    BY <1>2 DEF Definition, Identity, WelfordTypes, Moments
  <1>3. CASE type \in {"sum", "dot"}
    <2>1. Total(<<>>) = 0
      BY SumsEmpty
    <2>2. PICK m \in Positive : m = Modulus
      BY ValuesAssumption DEF Positive
    <2>3. 0 % m = 0
      <3>1. PICK z \in Int : z = 0
        OBVIOUS
      <3>2. z = m * 0
        BY <3>1 DEF Positive
      <3> QED
        BY <3>1, <3>2, Divides
    <2>4. Definition(<<>>) = Wrap(Total(<<>>))
      BY <1>3, DefinitionOf
    <2>5. Identity = 0
      BY <1>3 DEF Identity, WelfordTypes
    <2> QED
      BY <2>1, <2>2, <2>3, <2>4, <2>5 DEF Wrap
  <1>4. CASE type \in {"max", "min", "scan"}
    BY <1>4 DEF Definition, Identity, WelfordTypes
  <1>5. CASE type = "prod"
    <2>1. Definition(<<>>) = Fold([p \in Int \X Int |-> Wrap(p[1] * p[2])], 1, <<>>)
      BY <1>5, DefinitionOf
    <2>2. Identity = 1
      BY <1>5 DEF Identity, WelfordTypes
    <2> QED
      BY <2>1, <2>2, FoldEmpty
  <1>6. CASE type = "xor_sum"
    <2>1. Definition(<<>>) = Fold([p \in Int \X Int |-> BitXor(p[1], p[2])], 0, <<>>)
      BY <1>6, DefinitionOf
    <2>2. Identity = 0
      BY <1>6 DEF Identity, WelfordTypes
    <2> QED
      BY <2>1, <2>2, FoldEmpty
  <1>7. CASE type = "any"
    <2>1. ~ \E i \in DOMAIN <<>> : <<>>[i] # 0
      OBVIOUS
    <2>2. Definition(<<>>) = (\E i \in DOMAIN <<>> : <<>>[i] # 0)
      BY <1>7, DefinitionOf
    <2>3. Identity = FALSE
      BY <1>7 DEF Identity, WelfordTypes
    <2> QED
      BY <2>1, <2>2, <2>3
  <1> QED
    BY <1>1, <1>2, <1>3, <1>4, <1>5, <1>6, <1>7 DEF SimpleTypes

(* The elements of a longer sequence. *)
LEMMA AppendElements ==
    ASSUME NEW V, NEW xs \in Seq(V), NEW x \in V
    PROVE  /\ ToSet(Append(xs, x)) = ToSet(xs) \cup {x} /\ Append(xs, x) # <<>>
           /\ xs = <<>> => ToSet(xs) = {}
           /\ xs # <<>> => ToSet(xs) # {}
           /\ ToSet(xs) \subseteq V
  <1> DEFINE n == Len(xs)
             ys == Append(xs, x)
  <1>1. /\ n \in Nat /\ DOMAIN xs = 1..n /\ DOMAIN ys = 1..(n + 1)
        /\ ys[n + 1] = x /\ \A i \in 1..n : ys[i] = xs[i] /\ xs[i] \in V
    OBVIOUS
  <1>2. xs = <<>> <=> n = 0
    OBVIOUS
  <1>3. Append(xs, x) # <<>>
    <2>1. Len(Append(xs, x)) = n + 1
      OBVIOUS
    <2>2. Len(<<>>) = 0
      OBVIOUS
    <2> HIDE DEF n, ys
    <2> QED
      BY <1>1, <2>1, <2>2
  <1>4. ToSet(ys) = ToSet(xs) \cup {x}
    <2>0. PICK k, zs : /\ k = n /\ zs = ys /\ k \in Nat
                    /\ DOMAIN xs = 1..k /\ DOMAIN zs = 1..(k + 1)
                    /\ zs[k + 1] = x /\ \A i \in 1..k : zs[i] = xs[i] /\ xs[i] \in V
      BY <1>1
    <2>1. \A y \in ToSet(ys) : y \in ToSet(xs) \cup {x}
      BY <1>1 DEF ToSet
    <2>2. x \in ToSet(ys)
      BY <1>1 DEF ToSet
    <2>3. \A y \in ToSet(xs) : y \in ToSet(ys)
      BY <1>1 DEF ToSet
    <2> QED
      BY <2>1, <2>2, <2>3
  <1> HIDE DEF n
  <1> QED
    BY <1>1, <1>2, <1>3, <1>4 DEF ToSet

(* The extremes of a set of integers, with one more. *)
LEMMA ExtremesAdd ==
    ASSUME NEW T \in SUBSET Int, NEW l \in T, NEW g \in T,
           \A k \in T : l <= k /\ k <= g, NEW x \in Int
    PROVE  /\ Max(T \cup {x}) = IF x <= g THEN g ELSE x
           /\ Min(T \cup {x}) = IF l <= x THEN l ELSE x
  <1>1. PICK U \in SUBSET Int : U = T \cup {x}
    OBVIOUS
  <1>2. l \in U /\ g \in U /\ x \in U /\ l \in Int /\ g \in Int
        /\ \A k \in U : k \in Int /\ (k = x \/ (l <= k /\ k <= g))
    BY <1>1
  <1>3. CASE x <= g
    <2>1. \A k \in U : k <= g
      BY <1>2, <1>3
    <2>2. Max(U) = g
      BY <1>2, <2>1, MaxIs
    <2>3. CASE l <= x
      <3>1. \A k \in U : l <= k
        BY <1>2, <2>3
      <3>2. Min(U) = l
        BY <1>2, <3>1, MinIs
      <3> QED
        BY <1>1, <1>3, <2>2, <2>3, <3>2
    <2>4. CASE ~(l <= x)
      <3>1. \A k \in U : x <= k
        BY <1>2, <2>4
      <3>2. Min(U) = x
        BY <1>2, <3>1, MinIs
      <3> QED
        BY <1>1, <1>3, <2>2, <2>4, <3>2
    <2> QED
      BY <2>3, <2>4
  <1>4. CASE ~(x <= g)
    <2>1. (\A k \in U : k <= x /\ l <= k) /\ l <= x
      BY <1>2, <1>4
    <2>2. Max(U) = x
      BY <1>2, <2>1, MaxIs
    <2>3. Min(U) = l
      BY <1>2, <2>1, MinIs
    <2> QED
      BY <1>1, <1>4, <2>1, <2>2, <2>3
  <1> QED
    BY <1>3, <1>4

(* The same of a single number. *)
LEMMA ExtremesOfTwo ==
    ASSUME NEW a \in Int, NEW x \in Int
    PROVE  /\ Max({a, x}) = IF x <= a THEN a ELSE x
           /\ Min({a, x}) = IF a <= x THEN a ELSE x
           /\ Max({x}) = x /\ Min({x}) = x
  <1>1. PICK T \in SUBSET Int : T = {a}
    OBVIOUS
  <1>2. a \in T /\ \A k \in T : a <= k /\ k <= a
    BY <1>1
  <1>3. /\ Max(T \cup {x}) = IF x <= a THEN a ELSE x
        /\ Min(T \cup {x}) = IF a <= x THEN a ELSE x
    BY <1>2, ExtremesAdd
  <1>4. T \cup {x} = {a, x}
    BY <1>1
  <1>5. PICK U \in SUBSET Int : U = {x}
    OBVIOUS
  <1>6. x \in U /\ \A k \in U : x <= k /\ k <= x
    BY <1>5
  <1>7. Max(U) = x /\ Min(U) = x
    BY <1>6, MaxIs, MinIs
  <1> QED
    BY <1>3, <1>4, <1>5, <1>7

(* A set of bounded natural numbers has extremes. *)
LEMMA ExtremesExist ==
    ASSUME NEW T \in SUBSET Nat, T # {}, NEW b \in Int, \A k \in T : k <= b
    PROVE  \E l, g \in T : \A k \in T : l <= k /\ k <= g
  <1>1. PICK l \in T : \A k \in T : ~(k < l)
    BY LeastNumber
  <1> DEFINE D == {d \in Nat : b - d \in T}
  <1>2. \A k \in T : b - k \in D
    <2> SUFFICES ASSUME NEW k \in T PROVE b - k \in D
      OBVIOUS
    <2>1. k \in Nat /\ b - k \in Nat /\ b - (b - k) = k
      OBVIOUS
    <2> QED
      BY <2>1
  <1>3. D \in SUBSET Nat /\ D # {}
    BY <1>2
  <1>4. PICK d \in D : \A e \in D : ~(e < d)
    <2> HIDE DEF D
    <2> QED
      BY <1>3, LeastNumber
  <1>5. d \in Nat /\ b - d \in T
    OBVIOUS
  <1>6. ASSUME NEW k \in T PROVE l <= k /\ k <= b - d
    <2>1. ~(b - k < d) /\ ~(k < l)
      <3> HIDE DEF D
      <3> QED
        BY <1>1, <1>2, <1>4
    <2> QED
      BY <1>5, <2>1
  <1> HIDE DEF D
  <1> QED
    BY <1>5, <1>6

(* The greatest and the least element, with one more. *)
LEMMA ExtremesAppend ==
    ASSUME NEW xs \in Seq(Values), NEW x \in Values
    PROVE  /\ xs = <<>> => /\ Max(ToSet(Append(xs, x))) = Max({0, x})
                           /\ Min(ToSet(Append(xs, x))) = Min({Modulus - 1, x})
           /\ xs # <<>> => /\ Max(ToSet(Append(xs, x))) = Max({Max(ToSet(xs)), x})
                           /\ Min(ToSet(Append(xs, x))) = Min({Min(ToSet(xs)), x})
  <1>1. PICK T : T = ToSet(xs)
    OBVIOUS
  <1>2. ToSet(Append(xs, x)) = T \cup {x}
    BY <1>1, AppendElements
  <1>3. T \subseteq Values /\ (xs = <<>> => T = {}) /\ (xs # <<>> => T # {})
    BY <1>1, AppendElements
  <1>4. PICK m \in Int : m = Modulus - 1
    BY ValuesFit
  <1>5. x \in Int /\ 0 <= x /\ x <= m
    BY <1>4, ValuesFit
  <1>6. ASSUME xs = <<>>
        PROVE  /\ Max(ToSet(Append(xs, x))) = Max({0, x})
               /\ Min(ToSet(Append(xs, x))) = Min({m, x})
    <2>1. ToSet(Append(xs, x)) = {x}
      BY <1>2, <1>3, <1>6
    <2>2. Max({x}) = x /\ Min({x}) = x
      BY <1>5, ExtremesOfTwo
    <2>3. Max({0, x}) = x
      <3>1. PICK z \in Int : z = 0
        OBVIOUS
      <3>2. Max({z, x}) = IF x <= z THEN z ELSE x
        BY <1>5, ExtremesOfTwo
      <3> QED
        BY <1>5, <3>1, <3>2
    <2>4. Min({m, x}) = x
      <3>1. Min({m, x}) = IF m <= x THEN m ELSE x
        BY <1>5, ExtremesOfTwo
      <3> QED
        BY <1>4, <1>5, <3>1
    <2> QED
      BY <2>1, <2>2, <2>3, <2>4
  <1>7. ASSUME xs # <<>>
        PROVE  /\ Max(ToSet(Append(xs, x))) = Max({Max(T), x})
               /\ Min(ToSet(Append(xs, x))) = Min({Min(T), x})
    <2>1. T \in SUBSET Nat /\ T # {} /\ \A k \in T : k <= m
      BY <1>3, <1>4, <1>7, ValuesFit
    <2>2. PICK l \in T, g \in T : \A k \in T : l <= k /\ k <= g
      BY <2>1, ExtremesExist
    <2>3. T \in SUBSET Int /\ l \in Int /\ g \in Int
      BY <2>1
    <2>4. Max(T) = g /\ Min(T) = l
      BY <2>2, <2>3, MaxIs, MinIs
    <2>5. /\ Max(T \cup {x}) = IF x <= g THEN g ELSE x
          /\ Min(T \cup {x}) = IF l <= x THEN l ELSE x
      BY <1>5, <2>2, <2>3, ExtremesAdd, ZenonT(60)
    <2>6. Max({g, x}) = IF x <= g THEN g ELSE x
      BY <1>5, <2>3, ExtremesOfTwo
    <2>7. Min({l, x}) = IF l <= x THEN l ELSE x
      BY <1>5, <2>3, ExtremesOfTwo
    <2> QED
      BY <1>2, <2>4, <2>5, <2>6, <2>7
  <1> QED
    BY <1>1, <1>4, <1>6, <1>7

(* Every type's update. *)
LEMMA UpdatedOf ==
    ASSUME NEW x
    PROVE  LET new == Updated(FirstIteration(index), x)
           IN /\ type \in {"sum", "dot"} => new = Wrap(acc + x)
              /\ type = "prod" => new = Wrap(acc * x)
              /\ type = "xor_sum" => new = BitXor(acc, x)
              /\ type = "max" => new = Max({acc, x})
              /\ type = "min" => new = Min({acc, x})
              /\ type = "any" => new = (acc \/ x # 0)
              /\ type = "scan" => new = IF FirstIteration(index) THEN <<x>> ELSE acc \o <<x>>
              /\ type = "welford_reduce" =>
                    new = IF FirstIteration(index) THEN WelfordReduce(TRUE, Whole(x))
                          ELSE WelfordReduce(FALSE, Whole(x))
  <1> DEFINE new == Updated(FirstIteration(index), x)
  <1>1. type \in {"sum", "dot"} => new = Wrap(acc + x)
    BY DEF Updated
  <1>2. type = "prod" => new = Wrap(acc * x)
    BY DEF Updated
  <1>3. type = "xor_sum" => new = BitXor(acc, x)
    BY DEF Updated
  <1>4. type = "max" => new = Max({acc, x})
    BY DEF Updated
  <1>5. type = "min" => new = Min({acc, x})
    BY DEF Updated
  <1>6. type = "any" => new = (acc \/ x # 0)
    BY DEF Updated
  <1>7. type = "scan" => new = IF FirstIteration(index) THEN <<x>> ELSE acc \o <<x>>
    BY DEF Updated, ScanStep, Combine
  <1>8. type = "welford_reduce" => new = WelfordReduce(FirstIteration(index), Whole(x))
    BY DEF Updated
  <1>9. WelfordReduce(FirstIteration(index), Whole(x))
          = IF FirstIteration(index) THEN WelfordReduce(TRUE, Whole(x))
            ELSE WelfordReduce(FALSE, Whole(x))
    BY DEF WelfordReduce
  <1> QED
    BY <1>1, <1>2, <1>3, <1>4, <1>5, <1>6, <1>7, <1>8, <1>9

(* Products and bitwise sums are integers that grow by one element. *)
LEMMA ProductAppend ==
    ASSUME NEW xs \in Seq(Values), NEW x \in Values
    PROVE  Fold([p \in Int \X Int |-> Wrap(p[1] * p[2])], 1, Append(xs, x))
             = Wrap(Fold([p \in Int \X Int |-> Wrap(p[1] * p[2])], 1, xs) * x)
  <1> DEFINE f == [p \in Int \X Int |-> Wrap(p[1] * p[2])]
             P == {ys \in Seq(Values) : Fold(f, 1, ys) \in Int}
  <1>1. \A a, b \in Int : f[<<a, b>>] = Wrap(a * b) /\ Wrap(a * b) \in Int
    <2> SUFFICES ASSUME NEW a \in Int, NEW b \in Int
                 PROVE  f[<<a, b>>] = Wrap(a * b) /\ Wrap(a * b) \in Int
      OBVIOUS
    <2>1. f[<<a, b>>] = Wrap(a * b)
      OBVIOUS
    <2>2. PICK c \in Int, m \in Positive : c = a * b /\ m = Modulus
      BY ValuesAssumption DEF Positive
    <2>3. c % m \in 0..(m - 1)
      BY Divides
    <2> QED
      BY <2>1, <2>2, <2>3 DEF Wrap
  <1>2. PICK g : g = f
    OBVIOUS
  <1>3. \A a, b \in Int : g[<<a, b>>] = Wrap(a * b) /\ g[<<a, b>>] \in Int
    BY <1>1, <1>2
  <1> HIDE DEF f
  <1>4. \A ys \in Seq(Values), y \in Values : Fold(g, 1, Append(ys, y)) = g[<<Fold(g, 1, ys), y>>]
    BY FoldAppend
  <1>5. <<>> \in P
    BY <1>2, FoldEmpty
  <1>6. ASSUME NEW ys \in Seq(Values), NEW y \in Values, ys \in P
        PROVE  Append(ys, y) \in P
    <2>1. Fold(g, 1, ys) \in Int /\ y \in Int
      BY <1>2, <1>6, ValuesFit
    <2>2. Append(ys, y) \in Seq(Values)
      OBVIOUS
    <2>3. Fold(g, 1, Append(ys, y)) \in Int
      BY <1>3, <1>4, <2>1
    <2> QED
      BY <1>2, <2>2, <2>3
  <1> HIDE DEF P
  <1>7. xs \in P
    BY <1>5, <1>6, SequencesAreBuilt
  <1>8. Fold(g, 1, xs) \in Int /\ x \in Int
    BY <1>2, <1>7, ValuesFit DEF P
  <1>9. Fold(g, 1, Append(xs, x)) = Wrap(Fold(g, 1, xs) * x)
    BY <1>3, <1>4, <1>8
  <1> QED
    BY <1>2, <1>9 DEF f

(* The same of xor. *)
LEMMA XorAppend ==
    ASSUME NEW xs \in Seq(Values), NEW x \in Values
    PROVE  Fold([p \in Int \X Int |-> BitXor(p[1], p[2])], 0, Append(xs, x))
             = BitXor(Fold([p \in Int \X Int |-> BitXor(p[1], p[2])], 0, xs), x)
  <1> DEFINE f == [p \in Int \X Int |-> BitXor(p[1], p[2])]
             P == {ys \in Seq(Values) : Fold(f, 0, ys) \in 0..(Modulus - 1)}
  <1>1. PICK g : g = f
    OBVIOUS
  <1>2. \A a, b \in Int : g[<<a, b>>] = BitXor(a, b)
    BY <1>1
  <1> HIDE DEF f
  <1>3. \A ys \in Seq(Values), y \in Values : Fold(g, 0, Append(ys, y)) = g[<<Fold(g, 0, ys), y>>]
    BY FoldAppend
  <1>4. <<>> \in P
    <2>1. Fold(f, 0, <<>>) = 0
      BY FoldEmpty
    <2>2. 0 \in 0..(Modulus - 1) /\ <<>> \in Seq(Values)
      BY ValuesFit
    <2> QED
      BY <2>1, <2>2
  <1>5. ASSUME NEW ys \in Seq(Values), NEW y \in Values, ys \in P
        PROVE  Append(ys, y) \in P
    <2>1. Fold(g, 0, ys) \in 0..(Modulus - 1) /\ y \in 0..(Modulus - 1)
      BY <1>1, <1>5, ValuesAssumption
    <2>2. Append(ys, y) \in Seq(Values)
      OBVIOUS
    <2>3. Fold(g, 0, ys) \in Int /\ y \in Int
      BY <2>1
    <2>4. Fold(g, 0, Append(ys, y)) = BitXor(Fold(g, 0, ys), y)
      BY <1>2, <1>3, <2>3
    <2>5. BitXor(Fold(g, 0, ys), y) \in 0..(Modulus - 1)
      BY <2>1, XorAssumption
    <2> QED
      BY <1>1, <2>2, <2>4, <2>5
  <1> HIDE DEF P
  <1>6. xs \in P
    BY <1>4, <1>5, SequencesAreBuilt
  <1>7. Fold(g, 0, xs) \in Int /\ x \in Int
    BY <1>1, <1>6, ValuesFit DEF P
  <1>8. Fold(g, 0, Append(xs, x)) = BitXor(Fold(g, 0, xs), x)
    BY <1>2, <1>3, <1>7
  <1> QED
    BY <1>1, <1>8 DEF f

(* The moments of one value more. *)
LEMMA ReduceIs ==
    ASSUME NEW xs \in Seq(Int), NEW x \in Int, acc = Moments(xs)
    PROVE  Moments(Append(xs, x))
             = IF xs = <<>> THEN WelfordReduce(TRUE, Whole(x)) ELSE WelfordReduce(FALSE, Whole(x))
  <1>1. Total(xs) \in Int /\ Squares(xs) \in Int
    BY SumsType
  <1>2. /\ Total(Append(xs, x)) = Total(xs) + x
        /\ Squares(Append(xs, x)) = Squares(xs) + x * x
    BY <1>1, SumsAppend
  <1>3. /\ Append(xs, x) \in Seq(Int) /\ Append(xs, x) # <<>>
        /\ Len(xs) \in Nat /\ Len(Append(xs, x)) = Len(xs) + 1
    BY AppendElements
  <1>4. Moments(Append(xs, x)) = BySums(Len(xs) + 1, Total(xs) + x, Squares(xs) + x * x)
    <2>1. PICK ys \in Seq(Int) : ys = Append(xs, x)
      BY <1>3
    <2>2. Moments(ys) = BySums(Len(ys), Total(ys), Squares(ys))
      BY <1>3, <2>1, MomentsIs
    <2> QED
      BY <1>2, <1>3, <2>1, <2>2
  <1>5. CASE xs = <<>>
    <2>1. acc = Nothing
      BY <1>5 DEF Moments, Nothing
    <2>2. WelfordReduce(TRUE, Whole(x)) = BySums(1, x, x * x)
      BY <2>1, ReduceFirst
    <2>3. Len(xs) + 1 = 1 /\ Total(xs) + x = x /\ Squares(xs) + x * x = x * x
      <3>1. Len(<<>>) = 0
        OBVIOUS
      <3> QED
        BY <1>5, <3>1, SumsEmpty
    <2> QED
      BY <1>4, <1>5, <2>2, <2>3
  <1>6. CASE xs # <<>>
    <2>1. PICK n \in Positive : n = Len(xs)
      BY <1>6 DEF Positive
    <2>2. acc = BySums(Len(xs), Total(xs), Squares(xs))
      BY <1>6, MomentsIs
    <2>3. PICK s \in Int, q \in Int : s = Total(xs) /\ q = Squares(xs)
      BY <1>1
    <2>4. acc = BySums(n, s, q)
      BY <2>1, <2>2, <2>3
    <2>5. WelfordReduce(FALSE, Whole(x)) = BySums(n + 1, s + x, q + x * x)
      BY <2>4, ReduceNext
    <2> QED
      BY <1>4, <1>6, <2>1, <2>3, <2>5
  <1> QED
    BY <1>5, <1>6

(* The moments of two sequences. *)
LEMMA CombineIs ==
    ASSUME NEW xs \in Seq(Int), NEW zs \in Seq(Int), acc = Moments(xs)
    PROVE  WelfordCombine(Moments(zs)) = Moments(xs \o zs)
  <1>0. xs \o zs \in Seq(Int)
    OBVIOUS
  <1>1. /\ Total(xs) \in Int /\ Squares(xs) \in Int
        /\ Total(zs) \in Int /\ Squares(zs) \in Int
    BY SumsType
  <1>2. /\ Total(xs \o zs) = Total(xs) + Total(zs)
        /\ Squares(xs \o zs) = Squares(xs) + Squares(zs)
    BY SumsConcat
  <1>3. Moments(<<>>) = Nothing
    BY DEF Moments, Nothing
  <1>4. CASE zs = <<>>
    <2>1. xs \o zs = xs
      BY <1>4
    <2>2. CASE xs = <<>>
      BY <1>3, <1>4, <2>1, <2>2, CombineNothings
    <2>3. CASE xs # <<>>
      <3>1. Moments(xs) = BySums(Len(xs), Total(xs), Squares(xs))
        BY <2>3, MomentsIs
      <3>2. PICK n \in Positive, s \in Int, q \in Int :
                n = Len(xs) /\ s = Total(xs) /\ q = Squares(xs)
        BY <1>1, <2>3 DEF Positive
      <3>3. acc = BySums(n, s, q)
        BY <3>1, <3>2
      <3>4. WelfordCombine(Nothing) = BySums(n, s, q)
        BY <3>3, CombineNothing
      <3> QED
        BY <1>3, <1>4, <2>1, <3>3, <3>4
    <2> QED
      BY <2>2, <2>3
  <1>5. CASE zs # <<>>
    <2>1. Moments(zs) = BySums(Len(zs), Total(zs), Squares(zs))
      BY <1>5, MomentsIs
    <2>2. PICK m \in Positive, t \in Int, r \in Int :
              m = Len(zs) /\ t = Total(zs) /\ r = Squares(zs)
      BY <1>1, <1>5 DEF Positive
    <2>3. CASE xs = <<>>
      <3>1. xs \o zs = zs
        BY <2>3
      <3>2. acc = Nothing
        BY <1>3, <2>3
      <3>3. WelfordCombine(BySums(m, t, r)) = BySums(m, t, r)
        BY <3>2, CombineIntoNothing
      <3> QED
        BY <2>1, <2>2, <3>1, <3>3
    <2>4. CASE xs # <<>>
      <3>1. Moments(xs) = BySums(Len(xs), Total(xs), Squares(xs))
        BY <2>4, MomentsIs
      <3>2. PICK n \in Positive, s \in Int, q \in Int :
                n = Len(xs) /\ s = Total(xs) /\ q = Squares(xs)
        BY <1>1, <2>4 DEF Positive
      <3>3. acc = BySums(n, s, q)
        BY <3>1, <3>2
      <3>4. WelfordCombine(BySums(m, t, r)) = BySums(n + m, s + t, q + r)
        BY <3>3, CombineBoth
      <3>5. PICK ys \in Seq(Int) : ys = xs \o zs
        BY <1>0
      <3>6. Len(ys) = n + m /\ ys # <<>>
        <4>1. Len(ys) = Len(xs) + Len(zs)
          BY <3>5
        <4>2. Len(ys) = n + m /\ n + m # 0
          BY <2>2, <3>2, <4>1 DEF Positive
        <4>3. Len(<<>>) = 0
          OBVIOUS
        <4> QED
          BY <4>2, <4>3
      <3>7. Moments(ys) = BySums(Len(ys), Total(ys), Squares(ys))
        BY <3>6, MomentsIs
      <3> QED
        BY <1>2, <2>1, <2>2, <3>2, <3>4, <3>5, <3>6, <3>7
    <2> QED
      BY <2>3, <2>4
  <1> QED
    BY <1>4, <1>5

(* The update accumulates one value more. *)
LEMMA UpdatedIs ==
    ASSUME type \in Types, type # "welford_combine", seen \in Seq(Values),
           acc = Definition(seen), NEW x \in Values, FirstIteration(index) <=> seen = <<>>
    PROVE  Updated(FirstIteration(index), x) = Definition(Append(seen, x))
  <1> DEFINE new == Updated(FirstIteration(index), x)
             ys == Append(seen, x)
  <1>1. type \in SimpleTypes \cup {"welford_reduce"}
    BY TypesAssumption DEF WelfordTypes
  <1>2. seen \in Seq(Int) /\ x \in Int /\ Total(seen) \in Int /\ Squares(seen) \in Int
    BY ValuesFit, SumsType
  <1>3. CASE type \in {"sum", "dot"}
    <2>1. acc = Wrap(Total(seen)) /\ Definition(ys) = Wrap(Total(ys)) /\ new = Wrap(acc + x)
      BY <1>3, DefinitionOf, UpdatedOf
    <2>2. Total(ys) = Total(seen) + x
      BY <1>2, SumsAppend
    <2> QED
      BY <1>2, <2>1, <2>2, WrapPlus
  <1>4. CASE type = "prod"
    <2>1. new = Wrap(acc * x)
      BY <1>4, UpdatedOf
    <2>2. acc = Fold([p \in Int \X Int |-> Wrap(p[1] * p[2])], 1, seen)
      BY <1>4, DefinitionOf
    <2>3. Definition(ys) = Fold([p \in Int \X Int |-> Wrap(p[1] * p[2])], 1, ys)
      BY <1>4, DefinitionOf
    <2> QED
      BY <2>1, <2>2, <2>3, ProductAppend
  <1>5. CASE type = "xor_sum"
    <2>1. new = BitXor(acc, x)
      BY <1>5, UpdatedOf
    <2>2. acc = Fold([p \in Int \X Int |-> BitXor(p[1], p[2])], 0, seen)
      BY <1>5, DefinitionOf
    <2>3. Definition(ys) = Fold([p \in Int \X Int |-> BitXor(p[1], p[2])], 0, ys)
      BY <1>5, DefinitionOf
    <2> QED
      BY <2>1, <2>2, <2>3, XorAppend
  <1>6. CASE type \in {"max", "min"}
    <2>1. ys # <<>>
      BY AppendElements
    <2>2. CASE type = "max"
      <3>1. /\ acc = IF seen = <<>> THEN 0 ELSE Max(ToSet(seen))
            /\ Definition(ys) = Max(ToSet(ys)) /\ new = Max({acc, x})
        BY <2>1, <2>2, DefinitionOf, UpdatedOf DEF LeastValue
      <3> QED
        BY <3>1, ExtremesAppend
    <2>3. CASE type = "min"
      <3>1. /\ acc = IF seen = <<>> THEN Modulus - 1 ELSE Min(ToSet(seen))
            /\ Definition(ys) = Min(ToSet(ys)) /\ new = Min({acc, x})
        BY <2>1, <2>3, DefinitionOf, UpdatedOf
      <3> QED
        BY <3>1, ExtremesAppend
    <2> QED
      BY <1>6, <2>2, <2>3
  <1>7. CASE type = "any"
    <2>1. acc = (\E i \in DOMAIN seen : seen[i] # 0)
      BY <1>7, DefinitionOf
    <2>2. Definition(ys) = (\E i \in DOMAIN ys : ys[i] # 0)
      BY <1>7, DefinitionOf
    <2>3. new = (acc \/ x # 0)
      BY <1>7, UpdatedOf
    <2>4. (\E i \in DOMAIN ys : ys[i] # 0) <=> (\E i \in DOMAIN seen : seen[i] # 0) \/ x # 0
      <3>1. \A zs : (\E i \in DOMAIN zs : zs[i] # 0) <=> (\E y \in ToSet(zs) : y # 0)
        BY DEF ToSet
      <3>2. ToSet(ys) = ToSet(seen) \cup {x}
        BY AppendElements
      <3> QED
        BY <3>1, <3>2
    <2>5. CASE \E i \in DOMAIN seen : seen[i] # 0
      <3>1. acc = TRUE
        BY <2>1, <2>5
      <3>2. new = TRUE
        BY <2>3, <3>1
      <3> QED
        BY <2>2, <2>4, <2>5, <3>2
    <2>6. CASE ~ \E i \in DOMAIN seen : seen[i] # 0
      <3>1. acc = FALSE
        BY <2>1, <2>6
      <3>2. new = (x # 0)
        BY <2>3, <3>1
      <3>3. (\E i \in DOMAIN ys : ys[i] # 0) <=> x # 0
        BY <2>4, <2>6
      <3> QED
        BY <2>2, <3>2, <3>3
    <2> QED
      BY <2>5, <2>6
  <1>8. CASE type = "scan"
    <2>1. ys # <<>>
      BY AppendElements
    <2>2. /\ acc = IF seen = <<>> THEN None ELSE seen
          /\ Definition(ys) = ys /\ new = IF seen = <<>> THEN <<x>> ELSE acc \o <<x>>
      BY <1>8, <2>1, DefinitionOf, UpdatedOf
    <2>3. seen = <<>> => ys = <<x>>
      OBVIOUS
    <2>4. seen \o <<x>> = ys
      OBVIOUS
    <2> QED
      BY <2>2, <2>3, <2>4
  <1>9. CASE type = "welford_reduce"
    <2>1. acc = Moments(seen) /\ Definition(ys) = Moments(ys)
      BY <1>9, DefinitionOf DEF WelfordTypes
    <2>2. new = IF seen = <<>> THEN WelfordReduce(TRUE, Whole(x)) ELSE WelfordReduce(FALSE, Whole(x))
      BY <1>9, UpdatedOf
    <2> QED
      BY <1>2, <2>1, <2>2, ReduceIs
  <1> QED
    BY <1>1, <1>3, <1>4, <1>5, <1>6, <1>7, <1>8, <1>9 DEF SimpleTypes

-----------------------------------------------------------------------------
(* The loop nest. *)

(* A nest is entered with all variables zero. *)
LEMMA EnteredIsFirst ==
    ASSUME Entered # None
    PROVE  Entered \in [DOMAIN sizes -> Nat] /\ FirstIteration(Entered)
  BY DEF Entered, Origin, FirstIteration

(* Any later iteration has a variable that is not zero. *)
LEMMA FollowingIsLater ==
    ASSUME sizes \in Shapes, NEW r \in [DOMAIN sizes -> Nat], Following(r) # None
    PROVE  Following(r) \in [DOMAIN sizes -> Nat] /\ ~FirstIteration(Following(r))
  <1> DEFINE movable == {d \in DOMAIN r : r[d] + 1 < sizes[d]}
  <1>1. movable # {}
    BY DEF Following
  <1>2. Len(sizes) \in Int /\ DOMAIN sizes = 1..Len(sizes)
    BY ShapesAssumption
  <1>3. movable \in SUBSET Nat /\ \A d \in movable : d <= Len(sizes)
    BY <1>2
  <1>4. PICK m \in movable : \A d \in movable : d <= m
    <2> HIDE DEF movable
    <2> QED
      BY <1>1, <1>2, <1>3, ExtremesExist
  <1>5. Max(movable) = m
    <2>1. movable \in SUBSET Int
      BY <1>3
    <2> HIDE DEF movable
    <2> QED
      BY <1>4, <2>1, MaxIs
  <1>6. Following(r) = [d \in DOMAIN r |-> IF d < m THEN r[d] ELSE IF d = m THEN r[d] + 1 ELSE 0]
    BY <1>1, <1>5 DEF Following
  <1>7. m \in DOMAIN r /\ m \in Int /\ r[m] \in Nat
    BY <1>3
  <1>8. Following(r) \in [DOMAIN sizes -> Nat]
    BY <1>6
  <1>9. Following(r)[m] = r[m] + 1 /\ r[m] + 1 # 0
    BY <1>6, <1>7
  <1>10. m \in DOMAIN Following(r)
    BY <1>6, <1>7
  <1> QED
    BY <1>8, <1>9, <1>10 DEF FirstIteration

-----------------------------------------------------------------------------
(* The inductive invariant. *)

(* What may have been stored. *)
Stored == {[value |-> Definition(xs), from |-> xs] : xs \in Seq(Values)}

(* The nest is at its first iteration exactly when nothing has been        *)
(* accumulated, except that welford_combine may have accumulated nothing   *)
(* but empty batches.                                                      *)
NestInv ==
    index # None =>
        /\ index \in [DOMAIN sizes -> Nat]
        /\ type # "welford_combine" => (FirstIteration(index) <=> seen = <<>>)

AccumulatorsInv ==
    /\ type \in Types /\ sizes \in Shapes /\ seen \in Seq(Values)
    /\ NestInv
    /\ AccumulatesDefinition
    /\ out \in Seq(Stored)

(* The definitions stay what they are. *)
LEMMA SameDefinitions ==
    ASSUME UNCHANGED type
    PROVE  (\A xs : Definition(xs)' = Definition(xs)) /\ Stored' = Stored
  <1>1. ASSUME NEW xs PROVE Definition(xs)' = Definition(xs)
    BY DEF Definition
  <1>2. Stored' = Stored
    BY <1>1 DEF Stored
  <1> QED
    BY <1>1, <1>2

(* Initially. *)
LEMMA AccumulatorsInit == Init => AccumulatorsInv
  <1> SUFFICES ASSUME Init PROVE AccumulatorsInv
    OBVIOUS
  <1>1. /\ type \in Types /\ sizes \in Shapes /\ seen = <<>> /\ out = <<>>
        /\ index = Entered /\ acc = Identity
    BY DEF Init
  <1>2. seen \in Seq(Values) /\ out \in Seq(Stored)
    BY <1>1
  <1>3. NestInv
    BY <1>1, EnteredIsFirst DEF NestInv
  <1>4. AccumulatesDefinition
    BY <1>1, DefinitionEmpty DEF AccumulatesDefinition
  <1> QED
    BY <1>1, <1>2, <1>3, <1>4 DEF AccumulatorsInv

(* One value more. *)
LEMMA IterateKeeps ==
    ASSUME AccumulatorsInv, NEW x \in Values, Iterate(x)
    PROVE  AccumulatorsInv'
  <1>1. /\ type \in Types /\ sizes \in Shapes /\ seen \in Seq(Values) /\ out \in Seq(Stored)
        /\ acc = Definition(seen) /\ index # None /\ index \in [DOMAIN sizes -> Nat]
        /\ type # "welford_combine" /\ (FirstIteration(index) <=> seen = <<>>)
    BY DEF AccumulatorsInv, NestInv, AccumulatesDefinition, Iterate
  <1>2. /\ acc' = Updated(FirstIteration(index), x) /\ seen' = Append(seen, x)
        /\ index' = Following(index) /\ type' = type /\ sizes' = sizes
        /\ out' = IF type = "scan" THEN Append(out, [value |-> acc', from |-> seen']) ELSE out
    BY DEF Iterate
  <1>3. seen' \in Seq(Values) /\ seen' # <<>>
    BY <1>1, <1>2, AppendElements
  <1>4. acc' = Definition(seen')
    BY <1>1, <1>2, UpdatedIs
  <1>5. AccumulatesDefinition'
    <2>1. PICK xs : xs = seen'
      OBVIOUS
    <2>2. Definition(xs)' = Definition(xs)
      BY <1>2, SameDefinitions
    <2>3. Definition(seen)' = Definition(xs)'
      BY <2>1
    <2> QED
      BY <1>4, <2>1, <2>2, <2>3 DEF AccumulatesDefinition
  <1>6. NestInv'
    <2>1. index' # None => /\ index' \in [DOMAIN sizes -> Nat] /\ ~FirstIteration(Following(index))
      BY <1>1, <1>2, FollowingIsLater
    <2>2. FirstIteration(index)' <=> FirstIteration(Following(index))
      BY <1>2 DEF FirstIteration
    <2> QED
      BY <1>2, <1>3, <2>1, <2>2 DEF NestInv
  <1>7. out' \in Seq(Stored)'
    <2>1. [value |-> acc', from |-> seen'] \in Stored
      BY <1>3, <1>4 DEF Stored
    <2>2. out' \in Seq(Stored)
      BY <1>1, <1>2, <2>1
    <2> QED
      BY <1>2, <2>2, SameDefinitions
  <1> QED
    BY <1>1, <1>2, <1>3, <1>5, <1>6, <1>7 DEF AccumulatorsInv

(* One batch more. *)
LEMMA IterateCombineKeeps ==
    ASSUME AccumulatorsInv, NEW batch \in Batches, IterateCombine(batch)
    PROVE  AccumulatorsInv'
  <1>1. /\ type \in Types /\ sizes \in Shapes /\ seen \in Seq(Values) /\ out \in Seq(Stored)
        /\ acc = Definition(seen) /\ index # None /\ index \in [DOMAIN sizes -> Nat]
        /\ type = "welford_combine"
    BY DEF AccumulatorsInv, NestInv, AccumulatesDefinition, IterateCombine
  <1>2. /\ acc' = WelfordCombine(Moments(batch)) /\ seen' = seen \o batch
        /\ index' = Following(index) /\ type' = type /\ sizes' = sizes /\ out' = out
    BY DEF IterateCombine
  <1>3. batch \in Seq(Values)
    BY ValuesAssumption
  <1>4. seen' \in Seq(Values)
    BY <1>1, <1>2, <1>3
  <1>5. acc' = Definition(seen')
    <2>1. acc = Moments(seen) /\ Definition(seen') = Moments(seen')
      BY <1>1, DefinitionOf DEF WelfordTypes
    <2>2. seen \in Seq(Int) /\ batch \in Seq(Int)
      BY <1>1, <1>3, ValuesFit
    <2>3. WelfordCombine(Moments(batch)) = Moments(seen \o batch)
      BY <2>1, <2>2, CombineIs
    <2> QED
      BY <1>2, <2>1, <2>3
  <1>6. AccumulatesDefinition'
    <2>1. PICK xs : xs = seen'
      OBVIOUS
    <2>2. Definition(xs)' = Definition(xs)
      BY <1>2, SameDefinitions
    <2>3. Definition(seen)' = Definition(xs)'
      BY <2>1
    <2> QED
      BY <1>5, <2>1, <2>2, <2>3 DEF AccumulatesDefinition
  <1>7. NestInv'
    BY <1>1, <1>2, FollowingIsLater DEF NestInv
  <1>8. out' \in Seq(Stored)'
    BY <1>1, <1>2, SameDefinitions
  <1> QED
    BY <1>1, <1>2, <1>4, <1>6, <1>7, <1>8 DEF AccumulatorsInv

(* The next point. *)
LEMMA StorePointKeeps ==
    ASSUME AccumulatorsInv, StorePoint
    PROVE  AccumulatorsInv'
  <1>1. /\ type \in Types /\ sizes \in Shapes /\ seen \in Seq(Values) /\ out \in Seq(Stored)
        /\ acc = Definition(seen)
    BY DEF AccumulatorsInv, AccumulatesDefinition
  <1>2. /\ acc' = Identity /\ seen' = <<>> /\ index' = Entered /\ type' = type /\ sizes' = sizes
        /\ out' = IF type = "scan" THEN out ELSE Append(out, [value |-> acc, from |-> seen])
    BY DEF StorePoint, DeclaredAgain
  <1>3. AccumulatesDefinition'
    <2>1. Definition(<<>>)' = Definition(<<>>)
      BY <1>2, SameDefinitions
    <2>2. Definition(seen)' = Definition(<<>>)'
      BY <1>2
    <2> QED
      BY <1>1, <1>2, <2>1, <2>2, DefinitionEmpty DEF AccumulatesDefinition
  <1>4. NestInv'
    <2>1. FirstIteration(index)' <=> FirstIteration(Entered)
      BY <1>2 DEF FirstIteration
    <2> QED
      BY <1>2, <2>1, EnteredIsFirst DEF NestInv
  <1>5. out' \in Seq(Stored)'
    <2>1. [value |-> acc, from |-> seen] \in Stored
      BY <1>1 DEF Stored
    <2>2. out' \in Seq(Stored)
      BY <1>1, <1>2, <2>1
    <2> QED
      BY <1>2, <2>2, SameDefinitions
  <1>6. seen' \in Seq(Values)
    BY <1>2
  <1> QED
    BY <1>1, <1>2, <1>3, <1>4, <1>5, <1>6 DEF AccumulatorsInv

(* Nothing happens. *)
LEMMA StutterKeeps == AccumulatorsInv /\ UNCHANGED vars => AccumulatorsInv'
  <1> SUFFICES ASSUME AccumulatorsInv, UNCHANGED vars PROVE AccumulatorsInv'
    OBVIOUS
  <1>1. UNCHANGED <<type, sizes, point, index, acc, seen, out>>
    BY DEF vars
  <1>2. NestInv'
    BY <1>1 DEF AccumulatorsInv, NestInv, FirstIteration
  <1>3. AccumulatesDefinition'
    BY <1>1 DEF AccumulatorsInv, AccumulatesDefinition, Definition
  <1>4. Stored' = Stored
    BY <1>1, SameDefinitions
  <1> QED
    BY <1>1, <1>2, <1>3, <1>4 DEF AccumulatorsInv

(* AccumulatorsInv is an invariant. *)
THEOREM AccumulatorsInvariant == Spec => []AccumulatorsInv
  <1>1. AccumulatorsInv /\ [Next]_vars => AccumulatorsInv'
    BY IterateKeeps, IterateCombineKeeps, StorePointKeeps, StutterKeeps DEF Next, Finished
  <1> QED
    BY AccumulatorsInit, <1>1, PTL DEF Spec

(* At every iteration of a printed reduction or scan, over any nest of     *)
(* loops and any values, the accumulators are what Definition says of the  *)
(* values so far: with exact arithmetic the printed formulas of Welford,   *)
(* the first iteration and the identities are right (_format_reduction,    *)
(* _welford_reduce_update, _welford_combine_update, _build_scan_update).   *)
THEOREM AccumulatorsAreRight == Spec => []AccumulatesDefinition
  <1>1. AccumulatorsInv => AccumulatesDefinition
    BY DEF AccumulatorsInv
  <1> QED
    BY AccumulatorsInvariant, <1>1, PTL

(* What is stored for an output point is made of that point's values       *)
(* alone, for any number of points (_format_reduction, _format_scan).      *)
THEOREM PointsAreSeparate == Spec => []EveryPointFromItsOwnValues
  <1>1. AccumulatorsInv => EveryPointFromItsOwnValues
    <2> SUFFICES ASSUME AccumulatorsInv, NEW i \in DOMAIN out
                 PROVE  out[i].value = Definition(out[i].from)
      BY DEF EveryPointFromItsOwnValues
    <2>1. out[i] \in Stored
      BY DEF AccumulatorsInv
    <2> QED
      BY <2>1 DEF Stored
  <1> QED
    BY AccumulatorsInvariant, <1>1, PTL
=============================================================================
