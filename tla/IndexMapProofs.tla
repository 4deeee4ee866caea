---------------------------- MODULE IndexMapProofs ----------------------------
(***************************************************************************)
(* Proofs about IndexMap: a child of a region meets every point of its     *)
(* ranges once and in order, and a printed access denotes the element that *)
(* the child means.                                                        *)
(*                                                                         *)
(* Both rest on mixed radices.  The coordinates of a number i are what     *)
(* Unflatten makes of it; Flatten and the address of a dense layout are    *)
(* their inverses, whichever way the dimensions are ordered.               *)
(***************************************************************************)
EXTENDS IndexMap, WellFoundedInduction, Integers, SequenceTheorems, TLAPS

-----------------------------------------------------------------------------
(* Induction and folds. *)

(* A set of natural numbers has a least element. *)
LEMMA LeastNumber ==
    ASSUME NEW T \in SUBSET Nat, T # {}
    PROVE  \E m \in T : \A k \in T : ~(k < m)
  <1>1. \E m \in T : \A k \in T : ~ (<<k, m>> \in OpToRel(<, Nat))
    BY NatLessThanWellFounded, WFMin, Zenon
  <1>2. \A x, y \in Nat : x < y => <<x, y>> \in OpToRel(<, Nat)
    BY Zenon DEF OpToRel
  <1> QED
    BY <1>1, <1>2, Zenon

(* A set of sequences that is closed under Append has all of them. *)
LEMMA SequencesAreBuilt ==
    ASSUME NEW V, NEW P, <<>> \in P,
           \A xs \in Seq(V), x \in V : xs \in P => Append(xs, x) \in P
    PROVE  \A xs \in Seq(V) : xs \in P
  <1> DEFINE T == {n \in Nat : \E xs \in Seq(V) : Len(xs) = n /\ xs \notin P}
  <1>1. SUFFICES ASSUME NEW ys \in Seq(V), ys \notin P PROVE FALSE
    OBVIOUS
  <1>2. T # {}
    <2>1. Len(ys) \in Nat
      OBVIOUS
    <2> QED
      BY <1>1, <2>1
  <1>3. PICK m \in T : \A k \in T : ~(k < m)
    <2>1. T \in SUBSET Nat
      OBVIOUS
    <2> HIDE DEF T
    <2> QED
      BY <1>2, <2>1, LeastNumber
  <1>4. PICK xs \in Seq(V) : Len(xs) = m /\ xs \notin P
    OBVIOUS
  <1>5. xs # <<>>
    BY <1>4
  <1> DEFINE front == SubSeq(xs, 1, Len(xs) - 1)
             last == xs[Len(xs)]
  <1>6. front \in Seq(V) /\ last \in V /\ Len(front) = m - 1 /\ xs = Append(front, last)
    BY <1>4, <1>5
  <1> HIDE DEF front, last
  <1>7. front \notin P
    BY <1>4, <1>6
  <1>8. m - 1 \in Nat /\ m - 1 < m
    BY <1>6
  <1> QED
    BY <1>3, <1>6, <1>7, <1>8

(* What holds at 0 and passes from each number to the next holds up to n.  *)
LEMMA UpTo ==
    ASSUME NEW n \in Nat, NEW T, 0 \in T, \A k \in 1..n : k - 1 \in T => k \in T
    PROVE  \A k \in 0..n : k \in T
  <1> DEFINE R == {k \in 0..n : k \notin T}
  <1>1. SUFFICES ASSUME R # {} PROVE FALSE
    OBVIOUS
  <1>2. R \in SUBSET Nat
    OBVIOUS
  <1>3. PICK m \in R : \A k \in R : ~(k < m)
    <2> HIDE DEF R
    <2> QED
      BY <1>1, <1>2, LeastNumber
  <1>4. m \in 1..n /\ m - 1 \in 0..n /\ m - 1 < m
    OBVIOUS
  <1>5. m - 1 \notin R
    BY <1>3, <1>4
  <1> QED
    BY <1>4, <1>5

(* r gives the results of f for the first n elements of xs. *)
Folds(r, f, base, xs, n) ==
    r = [i \in 0..n |-> IF i = 0 THEN base ELSE f[<<r[i - 1], xs[i]>>]]

(* There are such results. *)
LEMMA FoldsExist ==
    ASSUME NEW f, NEW base, NEW xs, NEW n \in Nat
    PROVE  \E r : Folds(r, f, base, xs, n)
  <1> DEFINE T == {h \in Nat : ~ \E r : Folds(r, f, base, xs, h)}
  <1>1. SUFFICES ASSUME T # {} PROVE FALSE
    OBVIOUS
  <1>2. PICK m \in T : \A h \in T : ~(h < m)
    BY <1>1, LeastNumber
  <1>3. m # 0
    <2> SUFFICES ASSUME m = 0 PROVE FALSE
      OBVIOUS
    <2> DEFINE g == [i \in 0..0 |-> base]
    <2>1. g = [i \in 0..0 |-> IF i = 0 THEN base ELSE f[<<g[i - 1], xs[i]>>]]
      OBVIOUS
    <2> HIDE DEF g
    <2>2. Folds(g, f, base, xs, 0)
      BY <2>1 DEF Folds
    <2> QED
      BY <1>2, <2>2
  <1>4. PICK r : Folds(r, f, base, xs, m - 1)
    <2>1. m - 1 \in Nat /\ m - 1 < m
      BY <1>3
    <2> QED
      BY <1>2, <2>1
  <1> DEFINE g == [i \in 0..m |-> IF i = 0 THEN base ELSE f[<<r[i - 1], xs[i]>>]]
  <1>5. \A i \in 0..(m - 1) : g[i] = r[i]
    <2> SUFFICES ASSUME NEW i \in 0..(m - 1) PROVE g[i] = r[i]
      OBVIOUS
    <2>1. r[i] = IF i = 0 THEN base ELSE f[<<r[i - 1], xs[i]>>]
      BY <1>4 DEF Folds
    <2>2. i \in 0..m
      BY <1>3
    <2> QED
      BY <2>1, <2>2
  <1>6. \A i \in 0..m : g[i] = IF i = 0 THEN base ELSE f[<<g[i - 1], xs[i]>>]
    <2> SUFFICES ASSUME NEW i \in 0..m
                 PROVE  g[i] = IF i = 0 THEN base ELSE f[<<g[i - 1], xs[i]>>]
      OBVIOUS
    <2>1. i # 0 => i - 1 \in 0..(m - 1)
      BY <1>3
    <2> QED
      BY <1>5, <2>1
  <1>7. g = [i \in 0..m |-> g[i]]
    OBVIOUS
  <1> HIDE DEF g
  <1>8. Folds(g, f, base, xs, m)
    BY <1>6, <1>7 DEF Folds
  <1> QED
    BY <1>2, <1>8

(* They only depend on the elements used so far. *)
LEMMA FoldsAgree ==
    ASSUME NEW f, NEW base, NEW xs, NEW ys, NEW j \in Nat, NEW k \in Nat, j <= k,
           \A i \in 1..j : xs[i] = ys[i],
           NEW r, Folds(r, f, base, xs, j), NEW g, Folds(g, f, base, ys, k)
    PROVE  r[j] = g[j]
  <1> DEFINE T == {n \in 0..j : r[n] # g[n]}
  <1>1. SUFFICES ASSUME T # {} PROVE FALSE
    OBVIOUS
  <1>2. PICK m \in T : \A h \in T : ~(h < m)
    <2>1. T \in SUBSET Nat
      OBVIOUS
    <2> HIDE DEF T
    <2> QED
      BY <1>1, <2>1, LeastNumber
  <1>3. /\ r[m] = IF m = 0 THEN base ELSE f[<<r[m - 1], xs[m]>>]
        /\ g[m] = IF m = 0 THEN base ELSE f[<<g[m - 1], ys[m]>>]
    BY DEF Folds
  <1>4. m # 0 /\ m - 1 \in 0..j /\ m - 1 < m /\ xs[m] = ys[m]
    BY <1>3
  <1>5. r[m - 1] = g[m - 1]
    BY <1>2, <1>4
  <1> QED
    BY <1>3, <1>4, <1>5

(* A fold is the last of these results. *)
LEMMA FoldByResults ==
    ASSUME NEW f, NEW base, NEW xs, Len(xs) \in Nat
    PROVE  \E r : Folds(r, f, base, xs, Len(xs)) /\ Fold(f, base, xs) = r[Len(xs)]
  <1> DEFINE r == CHOOSE g : Folds(g, f, base, xs, Len(xs))
  <1>1. Folds(r, f, base, xs, Len(xs))
    BY FoldsExist
  <1>2. Fold(f, base, xs) = r[Len(xs)]
    BY DEF Fold, Folds
  <1> QED
    BY <1>1, <1>2

(* Nothing is folded. *)
LEMMA FoldEmpty ==
    ASSUME NEW f, NEW base
    PROVE  Fold(f, base, <<>>) = base
  <1>1. Len(<<>>) = 0
    OBVIOUS
  <1>2. PICK r : Folds(r, f, base, <<>>, Len(<<>>)) /\ Fold(f, base, <<>>) = r[Len(<<>>)]
    BY <1>1, FoldByResults
  <1> QED
    BY <1>1, <1>2 DEF Folds

(* One more element is folded. *)
LEMMA FoldAppend ==
    ASSUME NEW f, NEW base, NEW V, NEW xs \in Seq(V), NEW x \in V
    PROVE  Fold(f, base, Append(xs, x)) = f[<<Fold(f, base, xs), x>>]
  <1> DEFINE n == Len(xs)
             ys == Append(xs, x)
  <1>1. n \in Nat /\ Len(ys) = n + 1 /\ ys[n + 1] = x /\ \A i \in 1..n : xs[i] = ys[i]
    OBVIOUS
  <1> HIDE DEF ys
  <1>2. PICK r : Folds(r, f, base, xs, n) /\ Fold(f, base, xs) = r[n]
    BY <1>1, FoldByResults
  <1>3. PICK g : Folds(g, f, base, ys, n + 1) /\ Fold(f, base, ys) = g[n + 1]
    BY <1>1, FoldByResults
  <1>4. r[n] = g[n]
    <2>1. PICK k \in Nat : k = n + 1
      BY <1>1
    <2> HIDE DEF n
    <2> QED
      BY <1>1, <1>2, <1>3, <2>1, FoldsAgree
  <1>5. g[n + 1] = f[<<g[n], ys[n + 1]>>]
    BY <1>1, <1>3 DEF Folds
  <1> QED
    BY <1>1, <1>2, <1>3, <1>4, <1>5 DEF ys

-----------------------------------------------------------------------------
(* Numbers. *)

Positive == Nat \ {0}

(* Products of positive numbers are positive, of natural ones natural. *)
LEMMA Multiplied ==
    /\ \A a, b \in Positive : a * b \in Positive
    /\ \A a, b \in Nat : a * b \in Nat
  BY DEF Positive

(* Multiplication is monotone. *)
LEMMA MultipliedGrows ==
    ASSUME NEW a \in Nat, NEW c \in Nat, NEW b \in Nat, a <= c
    PROVE  a * b <= c * b
  <1>1. PICK k \in Nat : c = a + k
    <2>1. c - a \in Nat /\ c = a + (c - a)
      OBVIOUS
    <2> QED
      BY <2>1
  <1>2. c * b = a * b + k * b /\ k * b \in Nat /\ a * b \in Nat
    BY <1>1
  <1> QED
    BY <1>2

(* A common factor cancels. *)
LEMMA Cancelled ==
    ASSUME NEW a \in Positive, NEW b \in Nat, NEW c \in Nat, a * b = a * c
    PROVE  b = c
  <1>1. ASSUME NEW x \in Nat, NEW y \in Nat, x < y PROVE a * x < a * y
    <2>1. (x + 1) * a <= y * a
      BY <1>1, MultipliedGrows DEF Positive
    <2>2. (x + 1) * a = x * a + a /\ x * a \in Nat /\ a * x = x * a /\ a * y = y * a
      BY DEF Positive
    <2> QED
      BY <2>1, <2>2 DEF Positive
  <1>2. b < c \/ c < b \/ b = c
    OBVIOUS
  <1>3. a * b \in Nat /\ a * c \in Nat
    BY DEF Positive
  <1> QED
    BY <1>1, <1>2, <1>3

(* Division with a remainder. *)
LEMMA Divides ==
    ASSUME NEW x \in Nat, NEW b \in Positive
    PROVE  /\ x \div b \in Nat /\ x % b \in Nat /\ x % b < b
           /\ x = (x \div b) * b + (x % b)
  <1>1. b \in Nat /\ b > 0
    BY DEF Positive
  <1>2. x \div b \in Int /\ x % b \in 0..(b - 1) /\ x = b * (x \div b) + (x % b)
    BY <1>1
  <1>3. x \div b >= 0
    <2> DEFINE q == x \div b
    <2>1. q \in Int /\ x % b < b /\ x = b * q + (x % b)
      BY <1>1, <1>2
    <2> HIDE DEF q
    <2>2. SUFFICES ASSUME q < 0 PROVE FALSE
      BY <2>1 DEF q
    <2>3. PICK k \in Nat : q = 0 - (k + 1)
      <3>1. (0 - q) - 1 \in Nat /\ q = 0 - (((0 - q) - 1) + 1)
        BY <2>1, <2>2
      <3> QED
        BY <3>1
    <2>4. b * q = 0 - (b * k + b) /\ b * k \in Nat
      BY <1>1, <2>3
    <2> QED
      BY <1>1, <1>2, <2>1, <2>4
  <1>4. b * (x \div b) = (x \div b) * b
    BY <1>1, <1>2
  <1> QED
    BY <1>1, <1>2, <1>3, <1>4

(* The quotient and the remainder are natural numbers. *)
LEMMA Quotient ==
    ASSUME NEW x \in Nat, NEW b \in Positive
    PROVE  \E q \in Nat, r \in Nat : q = x \div b /\ r = x % b /\ x = q * b + r /\ r < b
  <1> DEFINE q == x \div b
             r == x % b
  <1>1. q \in Nat /\ r \in Nat /\ x = q * b + r /\ r < b
    BY Divides
  <1> QED
    BY <1>1, Zenon

(* There is one quotient and one remainder. *)
LEMMA DividesIs ==
    ASSUME NEW x \in Nat, NEW b \in Positive, NEW q \in Nat, NEW r \in Nat,
           x = q * b + r, r < b
    PROVE  x \div b = q /\ x % b = r
  <1>1. b \in Nat
    BY DEF Positive
  <1>2. ASSUME NEW q1 \in Nat, NEW r1 \in Nat, NEW q2 \in Nat, NEW r2 \in Nat,
               x = q1 * b + r1, r1 < b, x = q2 * b + r2, r2 < b
        PROVE  ~(q1 < q2)
    <2>1. SUFFICES ASSUME q1 < q2 PROVE FALSE
      OBVIOUS
    <2>2. (q1 + 1) * b <= q2 * b
      BY <1>1, <2>1, MultipliedGrows
    <2>3. (q1 + 1) * b = q1 * b + b /\ q1 * b \in Nat /\ q2 * b \in Nat
      BY <1>1
    <2> QED
      BY <1>1, <1>2, <2>2, <2>3
  <1>3. PICK q2 \in Nat, r2 \in Nat : q2 = x \div b /\ r2 = x % b /\ x = q2 * b + r2 /\ r2 < b
    BY Quotient, Zenon
  <1>4. ~(q < q2) /\ ~(q2 < q)
    BY <1>2, <1>3
  <1>5. q = q2
    BY <1>4
  <1>6. q * b \in Nat
    BY <1>1
  <1> QED
    BY <1>3, <1>5, <1>6

(* Dividing twice. *)
LEMMA DividesTwice ==
    ASSUME NEW x \in Nat, NEW a \in Positive, NEW b \in Positive
    PROVE  /\ x \div (a * b) = (x \div a) \div b
           /\ x % (a * b) = ((x \div a) % b) * a + (x % a)
  <1>1. a \in Nat /\ b \in Nat /\ a * b \in Positive
    BY Multiplied DEF Positive
  <1>2. PICK q \in Nat, r \in Nat : q = x \div a /\ r = x % a /\ x = q * a + r /\ r < a
    BY Quotient, Zenon
  <1>3. PICK p \in Nat, s \in Nat : p = q \div b /\ s = q % b /\ q = p * b + s /\ s < b
    BY Quotient, Zenon
  <1>4. x = p * (a * b) + (s * a + r) /\ s * a + r \in Nat
    <2>1. (p * b + s) * a = p * (a * b) + s * a
      BY <1>1
    <2>2. p * (a * b) \in Nat /\ s * a \in Nat
      BY <1>1, Multiplied
    <2> QED
      BY <1>2, <1>3, <2>1, <2>2
  <1>5. s * a + r < a * b
    <2>1. (s + 1) * a <= b * a
      BY <1>1, <1>3, MultipliedGrows
    <2>2. (s + 1) * a = s * a + a /\ b * a = a * b /\ s * a \in Nat /\ a * b \in Nat
      BY <1>1
    <2> QED
      BY <1>1, <1>2, <2>1, <2>2
  <1>6. x \div (a * b) = p /\ x % (a * b) = s * a + r
    BY <1>1, <1>4, <1>5, DividesIs
  <1> QED
    BY <1>2, <1>3, <1>6

-----------------------------------------------------------------------------
(* Products. *)

Sizes == Seq(Positive)

(* The product of no sizes. *)
LEMMA ProductEmpty == Product(<<>>) = 1
  BY FoldEmpty DEF Product

(* The product of sizes is positive. *)
LEMMA ProductType ==
    ASSUME NEW s \in Sizes
    PROVE  Product(s) \in Positive
  <1> DEFINE f == [p \in Nat \X Nat |-> p[1] * p[2]]
             P == {xs \in Sizes : Product(xs) \in Positive}
  <1>1. <<>> \in P
    BY ProductEmpty DEF Sizes, Positive
  <1>2. ASSUME NEW xs \in Sizes, NEW x \in Positive, xs \in P
        PROVE  Append(xs, x) \in P
    <2>1. Product(Append(xs, x)) = f[<<Product(xs), x>>]
      BY FoldAppend DEF Product, Sizes
    <2>2. Product(xs) \in Positive /\ Product(xs) \in Nat /\ x \in Nat
      BY <1>2 DEF Positive
    <2>3. f[<<Product(xs), x>>] = Product(xs) * x
      BY <2>2
    <2>4. Append(xs, x) \in Sizes
      BY DEF Sizes
    <2> QED
      BY <2>1, <2>2, <2>3, <2>4, Multiplied
  <1> HIDE DEF P
  <1>3. \A xs \in Seq(Positive) : xs \in P
    BY <1>1, <1>2, SequencesAreBuilt DEF Sizes
  <1> QED
    BY <1>3 DEF P, Sizes

(* The product of one size more. *)
LEMMA ProductAppend ==
    ASSUME NEW s \in Sizes, NEW x \in Positive
    PROVE  Product(Append(s, x)) = Product(s) * x
  <1> DEFINE f == [p \in Nat \X Nat |-> p[1] * p[2]]
  <1>1. Product(Append(s, x)) = f[<<Product(s), x>>]
    BY FoldAppend DEF Product, Sizes
  <1>2. Product(s) \in Nat /\ x \in Nat
    BY ProductType DEF Positive
  <1> QED
    BY <1>1, <1>2

(* The product of a concatenation. *)
LEMMA ProductConcat ==
    ASSUME NEW s \in Sizes, NEW t \in Sizes
    PROVE  Product(s \o t) = Product(s) * Product(t)
  <1> DEFINE P == {xs \in Sizes : Product(s \o xs) = Product(s) * Product(xs)}
  <1>1. <<>> \in P
    <2>1. s \o <<>> = s /\ Product(s) \in Nat
      BY ProductType DEF Sizes, Positive
    <2> QED
      BY <2>1, ProductEmpty DEF Sizes
  <1>2. ASSUME NEW xs \in Sizes, NEW x \in Positive, xs \in P
        PROVE  Append(xs, x) \in P
    <2>1. s \o Append(xs, x) = Append(s \o xs, x) /\ s \o xs \in Sizes /\ Append(xs, x) \in Sizes
      BY DEF Sizes
    <2>2. Product(Append(s \o xs, x)) = Product(s \o xs) * x
      BY <2>1, ProductAppend
    <2>3. Product(Append(xs, x)) = Product(xs) * x
      BY ProductAppend
    <2>4. Product(s) \in Nat /\ Product(xs) \in Nat /\ x \in Nat
      BY ProductType DEF Positive
    <2>5. (Product(s) * Product(xs)) * x = Product(s) * (Product(xs) * x)
      BY <2>4
    <2> QED
      BY <1>2, <2>1, <2>2, <2>3, <2>5
  <1> HIDE DEF P
  <1>3. \A xs \in Seq(Positive) : xs \in P
    BY <1>1, <1>2, SequencesAreBuilt DEF Sizes
  <1> QED
    BY <1>3 DEF P, Sizes

(* The weight of a digit, and the product of the sizes up to it. *)
Inner(s, d) == Product(SubSeq(s, d + 1, Len(s)))
Outer(s, d) == Product(SubSeq(s, 1, d))

(* Mixed radices. *)
LEMMA Radix ==
    ASSUME NEW s \in Sizes
    PROVE  /\ Len(s) \in Nat
           /\ \A d \in 0..Len(s) : /\ Inner(s, d) \in Positive /\ Outer(s, d) \in Positive
                                   /\ Outer(s, d) * Inner(s, d) = Product(s)
           /\ \A d \in DOMAIN s : /\ Inner(s, d - 1) = s[d] * Inner(s, d)
                                  /\ Outer(s, d) = Outer(s, d - 1) * s[d]
                                  /\ s[d] \in Positive
           /\ Inner(s, Len(s)) = 1 /\ Inner(s, 0) = Product(s)
  <1>1. Len(s) \in Nat /\ DOMAIN s = 1..Len(s) /\ \A d \in DOMAIN s : s[d] \in Positive
    BY DEF Sizes
  <1>2. ASSUME NEW d \in 0..Len(s)
        PROVE  /\ SubSeq(s, d + 1, Len(s)) \in Sizes /\ SubSeq(s, 1, d) \in Sizes
               /\ s = SubSeq(s, 1, d) \o SubSeq(s, d + 1, Len(s))
    <2>1. SubSeq(s, d + 1, Len(s)) \in Sizes
      <3>1. d + 1 \in Int /\ Len(s) \in Int /\ \A i \in (d + 1)..Len(s) : s[i] \in Positive
        BY <1>1
      <3> QED
        BY <3>1, SubSeqProperties DEF Sizes
    <2>2. SubSeq(s, 1, d) \in Sizes
      <3>1. 1 \in Int /\ d \in Int /\ \A i \in 1..d : s[i] \in Positive
        BY <1>1
      <3> QED
        BY <3>1, SubSeqProperties DEF Sizes
    <2>3. SubSeq(s, 1, d) \o SubSeq(s, d + 1, Len(s)) = SubSeq(s, 1, Len(s))
      <3>1. 1 \in 1..(Len(s) + 1) /\ d \in (1 - 1)..Len(s) /\ Len(s) \in d..Len(s)
        BY <1>1
      <3> QED
        BY <3>1, ConcatAdjacentSubSeq DEF Sizes
    <2>4. SubSeq(s, 1, Len(s)) = s
      BY SubSeqFull DEF Sizes
    <2> QED
      BY <2>1, <2>2, <2>3, <2>4, ZenonT(60)
  <1>3. ASSUME NEW d \in 0..Len(s)
        PROVE  /\ Inner(s, d) \in Positive /\ Outer(s, d) \in Positive
               /\ Outer(s, d) * Inner(s, d) = Product(s)
    BY <1>2, ProductType, ProductConcat DEF Inner, Outer
  <1>4. ASSUME NEW x \in Positive
        PROVE  <<x>> \in Sizes /\ Product(<<x>>) = x
    <2>1. <<x>> = Append(<<>>, x) /\ <<>> \in Sizes /\ <<x>> \in Sizes
      BY DEF Sizes
    <2>2. Product(<<x>>) = 1 * x
      BY <2>1, ProductAppend, ProductEmpty
    <2> QED
      BY <2>1, <2>2 DEF Positive
  <1>5. ASSUME NEW d \in DOMAIN s
        PROVE  Inner(s, d - 1) = s[d] * Inner(s, d) /\ Outer(s, d) = Outer(s, d - 1) * s[d]
    <2>0. (d - 1) + 1 = d /\ d \in 1..Len(s) /\ Len(s) \in d..Len(s)
      BY <1>1
    <2>1. SubSeq(s, (d - 1) + 1, Len(s)) = <<s[d]>> \o SubSeq(s, d + 1, Len(s))
      BY <2>0, SubSeqRecursiveFirst DEF Sizes
    <2>2. SubSeq(s, 1, d) = Append(SubSeq(s, 1, d - 1), s[d])
      BY <1>1 DEF Sizes
    <2>3. d \in 0..Len(s) /\ d - 1 \in 0..Len(s)
      BY <1>1
    <2>4. Inner(s, d - 1) = s[d] * Inner(s, d)
      <3>1. SubSeq(s, d + 1, Len(s)) \in Sizes /\ <<s[d]>> \in Sizes /\ Product(<<s[d]>>) = s[d]
        BY <1>1, <1>2, <1>4, <2>3
      <3>2. Product(<<s[d]>> \o SubSeq(s, d + 1, Len(s)))
            = Product(<<s[d]>>) * Product(SubSeq(s, d + 1, Len(s)))
        BY <3>1, ProductConcat
      <3> QED
        BY <2>1, <3>1, <3>2, ZenonT(60) DEF Inner
    <2>5. Outer(s, d) = Outer(s, d - 1) * s[d]
      BY <1>1, <1>2, <2>2, <2>3, ProductAppend, ZenonT(60) DEF Outer
    <2> QED
      BY <2>4, <2>5
  <1>6. Inner(s, Len(s)) = 1 /\ Inner(s, 0) = Product(s)
    <2>1. SubSeq(s, Len(s) + 1, Len(s)) = <<>> /\ SubSeq(s, 0 + 1, Len(s)) = s
      BY <1>1 DEF Sizes
    <2> QED
      BY <2>1, ProductEmpty DEF Inner
  <1> QED
    BY <1>1, <1>3, <1>5, <1>6

-----------------------------------------------------------------------------
(* Flat indices. *)

(* A point of a box. *)
Point(v, s) == v \in Seq(Nat) /\ Within(v, s)

(* A sequence that is not empty is one that was appended to. *)
LEMMA Appended ==
    ASSUME NEW V, NEW v \in Seq(V), NEW n \in Nat, Len(v) = n + 1
    PROVE  \E w \in Seq(V), y \in V :
              v = Append(w, y) /\ Len(w) = n /\ y = v[n + 1] /\ \A d \in 1..n : w[d] = v[d]
  <1> DEFINE w == SubSeq(v, 1, n)
             y == v[n + 1]
  <1>1. w \in Seq(V) /\ y \in V /\ Len(w) = n /\ \A d \in 1..n : w[d] = v[d]
    OBVIOUS
  <1>2. v = Append(w, y)
    OBVIOUS
  <1> HIDE DEF w
  <1> QED
    BY <1>1, <1>2

(* One dimension more. *)
LEMMA FlattenAppends ==
    ASSUME NEW s \in Sizes, NEW v \in Seq(Nat), Len(v) = Len(s), NEW x \in Positive, NEW y \in Nat,
           Flatten(v, s) \in Nat
    PROVE  Flatten(Append(v, y), Append(s, x)) = Flatten(v, s) * x + y
  <1> DEFINE f == [p \in Nat \X (Nat \X Nat) |-> p[1] * p[2][2] + p[2][1]]
             zip == [d \in DOMAIN s |-> <<v[d], s[d]>>]
             more == [d \in DOMAIN Append(s, x) |-> <<Append(v, y)[d], Append(s, x)[d]>>]
  <1>1. PICK n \in Nat : n = Len(s) /\ DOMAIN s = 1..n /\ Len(v) = n /\ \A d \in 1..n : s[d] \in Nat /\ v[d] \in Nat
    BY SMTT(60) DEF Sizes, Positive
  <1>2. zip \in Seq(Nat \X Nat) /\ Len(zip) = n
    <2>1. zip \in [1..n -> Nat \X Nat]
      BY <1>1
    <2>2. zip \in Seq(Nat \X Nat)
      BY <2>1
    <2> QED
      BY <1>1, <2>2
  <1>3. DOMAIN Append(s, x) = 1..(n + 1) /\ Append(s, x)[n + 1] = x /\ Append(v, y)[n + 1] = y
        /\ \A d \in 1..n : Append(s, x)[d] = s[d] /\ Append(v, y)[d] = v[d]
    BY <1>1 DEF Sizes
  <1>4. <<y, x>> \in Nat \X Nat
    BY DEF Positive
  <1>5. more = Append(zip, <<y, x>>)
    <2>1. Append(zip, <<y, x>>) \in Seq(Nat \X Nat) /\ Len(Append(zip, <<y, x>>)) = n + 1
      BY <1>2, <1>4
    <2>2. ASSUME NEW d \in 1..(n + 1) PROVE Append(zip, <<y, x>>)[d] = more[d]
      <3>1. CASE d = n + 1
        <4>1. Append(zip, <<y, x>>)[d] = <<y, x>>
          BY <1>2, <3>1
        <4> QED
          BY <1>3, <3>1, <4>1
      <3>2. CASE d # n + 1
        <4>1. d \in 1..n
          BY <3>2
        <4>2. Append(zip, <<y, x>>)[d] = zip[d]
          BY <1>2, <4>1
        <4> QED
          BY <1>1, <1>3, <4>1, <4>2
      <3> QED
        BY <3>1, <3>2
    <2>3. more \in [1..(n + 1) -> Nat \X Nat]
      <3>1. ASSUME NEW d \in 1..(n + 1)
            PROVE  <<Append(v, y)[d], Append(s, x)[d]>> \in Nat \X Nat
        <4>1. CASE d = n + 1
          BY <1>3, <1>4, <4>1
        <4>2. CASE d # n + 1
          <5>1. d \in 1..n
            BY <4>2
          <5> QED
            BY <1>1, <1>3, <5>1
        <4> QED
          BY <4>1, <4>2
      <3> QED
        BY <1>3, <3>1
    <2> HIDE DEF more, zip
    <2>4. more \in Seq(Nat \X Nat) /\ Len(more) = n + 1
      BY <2>3
    <2> QED
      BY <2>1, <2>2, <2>4, SeqEqual
  <1>6. Flatten(v, s) = Fold(f, 0, zip)
    BY DEF Flatten
  <1>7. Flatten(Append(v, y), Append(s, x)) = Fold(f, 0, more)
    BY DEF Flatten
  <1> HIDE DEF zip, more
  <1>8. Fold(f, 0, more) = f[<<Flatten(v, s), <<y, x>>>>]
    <2>1. PICK W : W = Nat \X Nat
      OBVIOUS
    <2>2. PICK e \in W : e = <<y, x>>
      BY <1>4, <2>1
    <2> HIDE DEF f
    <2>3. zip \in Seq(W)
      BY <1>2, <2>1
    <2>4. Fold(f, 0, Append(zip, e)) = f[<<Fold(f, 0, zip), e>>]
      BY <2>3, FoldAppend
    <2> QED
      BY <1>5, <1>6, <2>2, <2>4
  <1>9. f[<<Flatten(v, s), <<y, x>>>>] = Flatten(v, s) * x + y
    BY <1>4
  <1> QED
    BY <1>7, <1>8, <1>9

(* No dimensions. *)
LEMMA FlattenEmpty ==
    ASSUME NEW v
    PROVE  Flatten(v, <<>>) = 0
  <1> DEFINE zip == [d \in DOMAIN <<>> |-> <<v[d], <<>>[d]>>]
  <1>1. zip = <<>>
    OBVIOUS
  <1> HIDE DEF zip
  <1> QED
    BY <1>1, FoldEmpty DEF Flatten, zip

(* Flat indices are natural numbers. *)
LEMMA FlattenType ==
    ASSUME NEW s \in Sizes, NEW v \in Seq(Nat), Len(v) = Len(s)
    PROVE  Flatten(v, s) \in Nat
  <1> DEFINE P == {xs \in Sizes : \A w \in Seq(Nat) : Len(w) = Len(xs) => Flatten(w, xs) \in Nat}
  <1>1. <<>> \in P
    BY FlattenEmpty DEF Sizes
  <1>2. ASSUME NEW xs \in Sizes, NEW x \in Positive, xs \in P
        PROVE  Append(xs, x) \in P
    <2>1. Append(xs, x) \in Sizes /\ Len(Append(xs, x)) = Len(xs) + 1 /\ Len(xs) \in Nat
      BY DEF Sizes
    <2>2. ASSUME NEW w \in Seq(Nat), Len(w) = Len(Append(xs, x))
          PROVE  Flatten(w, Append(xs, x)) \in Nat
      <3>0. PICK n \in Nat : n = Len(xs) /\ Len(w) = n + 1
        BY <2>1, <2>2
      <3>1. PICK w2 \in Seq(Nat), y \in Nat :
               w = Append(w2, y) /\ Len(w2) = n /\ y = w[n + 1] /\ \A d \in 1..n : w2[d] = w[d]
        BY <3>0, Appended, Zenon
      <3>2. Flatten(w2, xs) \in Nat
        BY <1>2, <3>0, <3>1
      <3>3. Flatten(w, Append(xs, x)) = Flatten(w2, xs) * x + y
        BY <3>0, <3>1, <3>2, FlattenAppends
      <3>4. Flatten(w2, xs) * x \in Nat
        BY <3>2, Multiplied DEF Positive
      <3> QED
        BY <3>3, <3>4
    <2> QED
      BY <2>1, <2>2
  <1> HIDE DEF P
  <1>3. \A xs \in Seq(Positive) : xs \in P
    BY <1>1, <1>2, SequencesAreBuilt DEF Sizes
  <1> QED
    BY <1>3 DEF P, Sizes

(* One dimension more. *)
LEMMA FlattenAppend ==
    ASSUME NEW s \in Sizes, NEW v \in Seq(Nat), Len(v) = Len(s), NEW x \in Positive, NEW y \in Nat
    PROVE  Flatten(Append(v, y), Append(s, x)) = Flatten(v, s) * x + y
  BY FlattenType, FlattenAppends

(* A point's flat index is below the number of points. *)
LEMMA FlattenBound ==
    ASSUME NEW s \in Sizes, NEW v, Point(v, s)
    PROVE  Flatten(v, s) \in Nat /\ Flatten(v, s) < Product(s)
  <1> DEFINE P == {xs \in Sizes : \A w \in Seq(Nat) : Within(w, xs) => Flatten(w, xs) < Product(xs)}
  <1>1. <<>> \in P
    BY FlattenEmpty, ProductEmpty DEF Sizes
  <1>2. ASSUME NEW xs \in Sizes, NEW x \in Positive, xs \in P
        PROVE  Append(xs, x) \in P
    <2>1. /\ Append(xs, x) \in Sizes /\ Len(Append(xs, x)) = Len(xs) + 1 /\ Len(xs) \in Nat
          /\ Append(xs, x)[Len(xs) + 1] = x /\ \A d \in 1..Len(xs) : Append(xs, x)[d] = xs[d]
      BY DEF Sizes
    <2>2. ASSUME NEW w \in Seq(Nat), Within(w, Append(xs, x))
          PROVE  Flatten(w, Append(xs, x)) < Product(Append(xs, x))
      <3>0. Len(w) = Len(xs) + 1 /\ \A d \in 1..(Len(xs) + 1) : w[d] < Append(xs, x)[d]
        BY <2>1, <2>2 DEF Within
      <3>1. PICK w2 \in Seq(Nat), y \in Nat :
               /\ w = Append(w2, y) /\ Len(w2) = Len(xs)
               /\ y = w[Len(xs) + 1] /\ \A d \in 1..Len(xs) : w2[d] = w[d]
        BY <2>1, <3>0, Appended, ZenonT(60)
      <3>2. y < x /\ Within(w2, xs)
        BY <2>1, <3>0, <3>1 DEF Within
      <3>3. Flatten(w2, xs) < Product(xs) /\ Flatten(w2, xs) \in Nat /\ Product(xs) \in Nat
        BY <1>2, <3>1, <3>2, FlattenType, ProductType DEF Positive
      <3>4. Flatten(w, Append(xs, x)) = Flatten(w2, xs) * x + y
        BY <3>1, FlattenAppend
      <3>5. Product(Append(xs, x)) = Product(xs) * x
        BY ProductAppend
      <3>6. (Flatten(w2, xs) + 1) * x <= Product(xs) * x
        <4>1. Flatten(w2, xs) + 1 \in Nat /\ Flatten(w2, xs) + 1 <= Product(xs) /\ x \in Nat
          BY <3>3 DEF Positive
        <4> QED
          BY <3>3, <4>1, MultipliedGrows
      <3>7. (Flatten(w2, xs) + 1) * x = Flatten(w2, xs) * x + x /\ Flatten(w2, xs) * x \in Nat
            /\ Product(xs) * x \in Nat /\ x \in Nat
        BY <3>3 DEF Positive
      <3> QED
        BY <3>2, <3>4, <3>5, <3>6, <3>7
    <2> QED
      BY <2>1, <2>2
  <1> HIDE DEF P
  <1>3. \A xs \in Seq(Positive) : xs \in P
    BY <1>1, <1>2, SequencesAreBuilt DEF Sizes
  <1>4. Len(v) = Len(s)
    BY DEF Point, Within
  <1> QED
    BY <1>3, <1>4, FlattenType DEF P, Sizes, Point

(* The flat index of a concatenation. *)
LEMMA FlattenConcat ==
    ASSUME NEW s \in Sizes, NEW t \in Sizes, NEW v \in Seq(Nat), NEW w \in Seq(Nat),
           Len(v) = Len(s), Len(w) = Len(t)
    PROVE  Flatten(v \o w, s \o t) = Flatten(v, s) * Product(t) + Flatten(w, t)
  <1> DEFINE Holds(xs) == \A u \in Seq(Nat) : Len(u) = Len(xs) =>
                Flatten(v \o u, s \o xs) = Flatten(v, s) * Product(xs) + Flatten(u, xs)
             P == {xs \in Sizes : Holds(xs)}
  <1>0. Flatten(v, s) \in Nat
    BY FlattenType
  <1>1. <<>> \in P
    <2>1. ASSUME NEW u \in Seq(Nat), Len(u) = Len(<<>>)
          PROVE  Flatten(v \o u, s \o <<>>) = Flatten(v, s) * Product(<<>>) + Flatten(u, <<>>)
      <3>1. u = <<>> /\ v \o u = v /\ s \o <<>> = s
        BY <2>1 DEF Sizes
      <3> QED
        BY <1>0, <3>1, FlattenEmpty, ProductEmpty
    <2>2. Holds(<<>>)
      BY <2>1
    <2>3. <<>> \in Sizes
      BY DEF Sizes
    <2> HIDE DEF Holds
    <2> QED
      BY <2>2, <2>3
  <1>2. ASSUME NEW xs \in Sizes, NEW x \in Positive, xs \in P
        PROVE  Append(xs, x) \in P
    <2>1. Append(xs, x) \in Sizes /\ Len(Append(xs, x)) = Len(xs) + 1 /\ Len(xs) \in Nat
      BY DEF Sizes
    <2>2. ASSUME NEW u \in Seq(Nat), Len(u) = Len(Append(xs, x))
          PROVE  Flatten(v \o u, s \o Append(xs, x))
                 = Flatten(v, s) * Product(Append(xs, x)) + Flatten(u, Append(xs, x))
      <3>0. PICK n \in Nat : n = Len(xs) /\ Len(u) = n + 1
        BY <2>1, <2>2
      <3>1. PICK u2 \in Seq(Nat), y \in Nat :
               u = Append(u2, y) /\ Len(u2) = n /\ y = u[n + 1] /\ \A d \in 1..n : u2[d] = u[d]
        BY <3>0, Appended, ZenonT(60)
      <3>a. v \o u = Append(v \o u2, y) /\ v \o u2 \in Seq(Nat)
        BY <3>1
      <3>b. s \o Append(xs, x) = Append(s \o xs, x) /\ s \o xs \in Sizes
        BY DEF Sizes
      <3>c. Len(v \o u2) = Len(s \o xs)
        <4>1. Len(v \o u2) = Len(v) + Len(u2)
          BY <3>1, ConcatProperties
        <4>2. Len(s \o xs) = Len(s) + Len(xs)
          BY ConcatProperties DEF Sizes
        <4> QED
          BY <3>0, <3>1, <4>1, <4>2
      <3>2. Flatten(Append(v \o u2, y), Append(s \o xs, x)) = Flatten(v \o u2, s \o xs) * x + y
        BY <3>a, <3>b, <3>c, FlattenAppend
      <3>3. Flatten(v \o u, s \o Append(xs, x)) = Flatten(v \o u2, s \o xs) * x + y
        BY <3>a, <3>b, <3>2
      <3>4. Flatten(v \o u2, s \o xs) = Flatten(v, s) * Product(xs) + Flatten(u2, xs)
        BY <1>2, <3>0, <3>1
      <3>5. Flatten(u, Append(xs, x)) = Flatten(u2, xs) * x + y
        BY <3>0, <3>1, FlattenAppend
      <3>6. Product(Append(xs, x)) = Product(xs) * x
        BY ProductAppend
      <3>7. Flatten(u2, xs) \in Nat /\ Product(xs) \in Nat /\ x \in Nat
        BY <3>0, <3>1, FlattenType, ProductType DEF Positive
      <3>8. (Flatten(v, s) * Product(xs) + Flatten(u2, xs)) * x
            = Flatten(v, s) * (Product(xs) * x) + Flatten(u2, xs) * x
        BY <1>0, <3>7
      <3>9. Flatten(v, s) * (Product(xs) * x) \in Nat /\ Flatten(u2, xs) * x \in Nat
        BY <1>0, <3>7, Multiplied
      <3> QED
        BY <3>3, <3>4, <3>5, <3>6, <3>8, <3>9
    <2> QED
      BY <2>1, <2>2
  <1> HIDE DEF P, Holds
  <1>3. \A xs \in Seq(Positive) : xs \in P
    BY <1>1, <1>2, SequencesAreBuilt DEF Sizes
  <1>4. Holds(t)
    BY <1>3 DEF P, Sizes
  <1> QED
    BY <1>4 DEF Holds

(* w follows v: dimension m counts, and those after it start again. *)
Succeeds(w, v, s, m) ==
    /\ \A d \in 1..(m - 1) : w[d] = v[d]
    /\ w[m] = v[m] + 1
    /\ \A d \in (m + 1)..Len(s) : v[d] + 1 = s[d] /\ w[d] = 0

(* A digit that starts again is carried. *)
LEMMA Carried ==
    ASSUME NEW h \in Nat, NEW x \in Nat, NEW y \in Nat, NEW z, y + 1 = x, z = 0
    PROVE  (h + 1) * x + z = (h * x + y) + 1
  <1>1. (h + 1) * x = h * x + x /\ h * x \in Nat
    OBVIOUS
  <1> QED
    BY <1>1

(* The flat index counts. *)
LEMMA FlattenSucceeds ==
    ASSUME NEW s \in Sizes, NEW v \in Seq(Nat), NEW w \in Seq(Nat), NEW m \in 1..Len(s),
           Len(v) = Len(s), Len(w) = Len(s), Succeeds(w, v, s, m)
    PROVE  Flatten(w, s) = Flatten(v, s) + 1
  <1> DEFINE Holds(xs) == \A a, b \in Seq(Nat) : \A k \in 1..Len(xs) :
                Len(a) = Len(xs) /\ Len(b) = Len(xs) /\ Succeeds(b, a, xs, k)
                   => Flatten(b, xs) = Flatten(a, xs) + 1
             P == {xs \in Sizes : Holds(xs)}
  <1>1. <<>> \in P
    BY DEF Sizes
  <1>2. ASSUME NEW xs \in Sizes, NEW x \in Positive, xs \in P
        PROVE  Append(xs, x) \in P
    <2>1. PICK n \in Nat : n = Len(xs) /\ Len(Append(xs, x)) = n + 1 /\ Append(xs, x) \in Sizes
             /\ Append(xs, x)[n + 1] = x /\ \A d \in 1..n : Append(xs, x)[d] = xs[d]
      BY DEF Sizes
    <2>2. ASSUME NEW a \in Seq(Nat), NEW b \in Seq(Nat), NEW k \in 1..(n + 1),
                 Len(a) = n + 1, Len(b) = n + 1, Succeeds(b, a, Append(xs, x), k)
          PROVE  Flatten(b, Append(xs, x)) = Flatten(a, Append(xs, x)) + 1
      <3>1. PICK a2 \in Seq(Nat), y \in Nat :
               a = Append(a2, y) /\ Len(a2) = n /\ y = a[n + 1] /\ \A d \in 1..n : a2[d] = a[d]
        BY <2>2, Appended, Zenon
      <3>2. PICK b2 \in Seq(Nat), z \in Nat :
               b = Append(b2, z) /\ Len(b2) = n /\ z = b[n + 1] /\ \A d \in 1..n : b2[d] = b[d]
        BY <2>2, Appended, ZenonT(60)
      <3>3. Flatten(a, Append(xs, x)) = Flatten(a2, xs) * x + y
        BY <2>1, <3>1, FlattenAppend
      <3>4. Flatten(b, Append(xs, x)) = Flatten(b2, xs) * x + z
        BY <2>1, <3>2, FlattenAppend
      <3>5. Flatten(a2, xs) \in Nat /\ Flatten(b2, xs) \in Nat /\ x \in Nat
        BY <2>1, <3>1, <3>2, FlattenType DEF Positive
      <3>6. CASE k = n + 1
        <4>1. z = y + 1 /\ \A d \in 1..n : b2[d] = a2[d]
          BY <2>2, <3>1, <3>2, <3>6 DEF Succeeds
        <4>2. b2 = a2
          BY <3>1, <3>2, <4>1
        <4>3. Flatten(a2, xs) * x \in Nat
          BY <3>5, Multiplied
        <4> QED
          BY <3>3, <3>4, <4>1, <4>2, <4>3
      <3>7. CASE k # n + 1
        <4>0. k \in 1..n /\ n + 1 \in (k + 1)..(n + 1)
          BY <3>7
        <4>1. y + 1 = x /\ z = 0
          BY <2>1, <2>2, <3>1, <3>2, <4>0, ZenonT(60) DEF Succeeds
        <4>2. Succeeds(b2, a2, xs, k)
          <5>1. /\ \A d \in 1..(k - 1) : b[d] = a[d]
                /\ b[k] = a[k] + 1
                /\ \A d \in (k + 1)..(n + 1) : a[d] + 1 = Append(xs, x)[d] /\ b[d] = 0
            BY <2>1, <2>2 DEF Succeeds
          <5>2. \A d \in 1..(k - 1) : d \in 1..n
            BY <4>0
          <5>3. \A d \in (k + 1)..n : d \in 1..n /\ d \in (k + 1)..(n + 1)
            BY <4>0
          <5>4. /\ \A d \in 1..(k - 1) : b2[d] = a2[d]
                /\ b2[k] = a2[k] + 1
                /\ \A d \in (k + 1)..n : a2[d] + 1 = xs[d] /\ b2[d] = 0
            BY <2>1, <3>1, <3>2, <4>0, <5>1, <5>2, <5>3
          <5> QED
            BY <2>1, <5>4 DEF Succeeds
        <4>3. Flatten(b2, xs) = Flatten(a2, xs) + 1
          <5>1. Holds(xs)
            BY <1>2
          <5>2. k \in 1..Len(xs) /\ Len(a2) = Len(xs) /\ Len(b2) = Len(xs)
            BY <2>1, <3>1, <3>2, <4>0
          <5> QED
            BY <4>2, <5>1, <5>2
        <4>4. PICK h \in Nat : h = Flatten(a2, xs)
          BY <3>5
        <4>5. (h + 1) * x + z = (h * x + y) + 1
          BY <3>5, <4>1, Carried
        <4> QED
          BY <3>3, <3>4, <4>3, <4>4, <4>5
      <3> QED
        BY <3>6, <3>7
    <2> QED
      BY <2>1, <2>2
  <1> HIDE DEF P, Holds
  <1>3. \A xs \in Seq(Positive) : xs \in P
    BY <1>1, <1>2, SequencesAreBuilt DEF Sizes
  <1>4. Holds(s)
    BY <1>3 DEF P, Sizes
  <1> QED
    BY <1>4 DEF Holds

-----------------------------------------------------------------------------
(* Digits. *)

Digit(i, s, d) == (i \div Inner(s, d)) % s[d]

(* Multiples of the divisor do not change the remainder. *)
LEMMA DividesShifted ==
    ASSUME NEW k \in Nat, NEW r \in Nat, NEW b \in Positive
    PROVE  (k * b + r) \div b = k + (r \div b) /\ (k * b + r) % b = r % b
  <1>1. PICK q \in Nat, y \in Nat : q = r \div b /\ y = r % b /\ r = q * b + y /\ y < b
    BY Quotient, Zenon
  <1>2. b \in Nat
    BY DEF Positive
  <1>3. k * b + r = (k + q) * b + y /\ k * b + r \in Nat /\ k + q \in Nat
    <2>1. (k + q) * b = k * b + q * b /\ k * b \in Nat /\ q * b \in Nat
      BY <1>2
    <2> QED
      BY <1>1, <2>1
  <1>4. PICK x \in Nat, h \in Nat : x = k * b + r /\ h = k + q
    BY <1>3
  <1>5. x = h * b + y
    BY <1>3, <1>4
  <1>6. x \div b = h /\ x % b = y
    BY <1>1, <1>5, DividesIs
  <1> QED
    BY <1>1, <1>4, <1>6

(* Division is monotone. *)
LEMMA DividesGrows ==
    ASSUME NEW x \in Nat, NEW y \in Nat, x <= y, NEW b \in Positive
    PROVE  x \div b <= y \div b
  <1>1. PICK q \in Nat, r \in Nat : q = x \div b /\ r = x % b /\ x = q * b + r /\ r < b
    BY Quotient, Zenon
  <1>2. PICK p \in Nat, s \in Nat : p = y \div b /\ s = y % b /\ y = p * b + s /\ s < b
    BY Quotient, Zenon
  <1>3. SUFFICES ASSUME p < q PROVE FALSE
    BY <1>1, <1>2
  <1>4. b \in Nat
    BY DEF Positive
  <1>5. (p + 1) * b <= q * b
    BY <1>3, <1>4, MultipliedGrows
  <1>6. (p + 1) * b = p * b + b /\ p * b \in Nat /\ q * b \in Nat
    BY <1>4
  <1> QED
    BY <1>1, <1>2, <1>4, <1>5, <1>6

(* The digits of a number are a point. *)
LEMMA UnflattenIs ==
    ASSUME NEW s \in Sizes, NEW i \in Nat
    PROVE  /\ Point(Unflatten(i, s), s) /\ Len(Unflatten(i, s)) = Len(s)
           /\ \A d \in DOMAIN s : Unflatten(i, s)[d] = Digit(i, s, d)
  <1>1. PICK n \in Nat : n = Len(s) /\ DOMAIN s = 1..n
    BY DEF Sizes
  <1>2. ASSUME NEW d \in 1..n
        PROVE  /\ Digit(i, s, d) \in Nat /\ Digit(i, s, d) < s[d]
               /\ (IF s[d] = 1 THEN 0 ELSE Modular(i, Inner(s, d), s[d])) = Digit(i, s, d)
    <2>1. d \in 0..Len(s) /\ s[d] \in Positive /\ Inner(s, d) \in Positive
      BY <1>1, Radix
    <2>2. i \div Inner(s, d) \in Nat
      BY <2>1, Divides
    <2>3. Digit(i, s, d) \in Nat /\ Digit(i, s, d) < s[d]
      BY <2>1, <2>2, Divides DEF Digit
    <2> QED
      BY <2>1, <2>3 DEF Digit, Modular
  <1>3. Unflatten(i, s) = [d \in 1..n |-> IF s[d] = 1 THEN 0 ELSE Modular(i, Inner(s, d), s[d])]
    BY <1>1 DEF Unflatten, Inner
  <1>4. /\ Unflatten(i, s) \in [1..n -> Nat]
        /\ \A d \in 1..n : Unflatten(i, s)[d] = Digit(i, s, d) /\ Unflatten(i, s)[d] < s[d]
    BY <1>2, <1>3
  <1>5. Unflatten(i, s) \in Seq(Nat) /\ Len(Unflatten(i, s)) = n
    BY <1>4
  <1> QED
    BY <1>1, <1>4, <1>5 DEF Point, Within

(* The next number has digits that come later. *)
LEMMA UnflattenBefore ==
    ASSUME NEW s \in Sizes, NEW i \in Nat, i + 1 < Product(s)
    PROVE  Before(Unflatten(i, s), Unflatten(i + 1, s))
  <1> DEFINE q(x, d) == x \div Inner(s, d)
  <1>1. PICK n \in Nat : n = Len(s) /\ DOMAIN s = 1..n
    BY DEF Sizes
  <1>2. ASSUME NEW x \in Nat, NEW d \in 0..n
        PROVE  q(x, d) \in Nat
    BY <1>1, Radix, Divides
  <1>3. ASSUME NEW x \in Nat, NEW d \in 1..n
        PROVE  q(x, d) = q(x, d - 1) * s[d] + Digit(x, s, d) /\ Digit(x, s, d) \in Nat
    <2>1. d \in 0..n /\ Inner(s, d) \in Positive /\ s[d] \in Positive
          /\ Inner(s, d - 1) = s[d] * Inner(s, d)
      BY <1>1, Radix
    <2>2. s[d] * Inner(s, d) = Inner(s, d) * s[d]
      BY <2>1 DEF Positive
    <2>3. q(x, d - 1) = q(x, d) \div s[d]
      BY <2>1, <2>2, DividesTwice
    <2>4. q(x, d) \in Nat
      BY <1>2, <2>1
    <2> HIDE DEF q
    <2>5. q(x, d) = (q(x, d) \div s[d]) * s[d] + (q(x, d) % s[d]) /\ q(x, d) % s[d] \in Nat
      BY <2>1, <2>4, Divides
    <2> QED
      BY <2>3, <2>5 DEF Digit, q
  <1>4. q(i, n) = i /\ q(i + 1, n) = i + 1
    <2>1. Inner(s, n) = 1
      BY <1>1, Radix
    <2>2. ASSUME NEW x \in Nat PROVE x \div 1 = x
      <3>1. x = x * 1 + 0 /\ 1 \in Positive
        BY DEF Positive
      <3> QED
        BY <3>1, DividesIs
    <2>3. i + 1 \in Nat
      OBVIOUS
    <2> QED
      BY <2>1, <2>2, <2>3
  <1>5. q(i, 0) = q(i + 1, 0)
    <2>1. Inner(s, 0) = Product(s) /\ Product(s) \in Positive /\ Product(s) \in Nat
      BY <1>1, Radix, ProductType DEF Positive
    <2>2. ASSUME NEW x \in Nat, x < Product(s) PROVE x \div Product(s) = 0
      <3>1. x = 0 * Product(s) + x
        BY <2>1
      <3> QED
        BY <2>1, <2>2, <3>1, DividesIs
    <2>3. i + 1 \in Nat /\ i < Product(s)
      BY <2>1
    <2> QED
      BY <2>1, <2>2, <2>3
  <1>6. ASSUME NEW d \in 0..n PROVE q(i, d) <= q(i + 1, d)
    <2>1. Inner(s, d) \in Positive /\ i + 1 \in Nat /\ i <= i + 1
      BY <1>1, Radix
    <2> QED
      BY <2>1, DividesGrows
  <1> HIDE DEF q
  <1> DEFINE T == {d \in 0..n : q(i, d) # q(i + 1, d)}
  <1>7. T \in SUBSET Nat /\ n \in T
    BY <1>4
  <1>8. PICK m \in T : \A k \in T : ~(k < m)
    <2> HIDE DEF T
    <2> QED
      BY <1>7, LeastNumber
  <1>9. m \in 1..n /\ \A e \in 0..(m - 1) : e \in 0..n /\ e < m
    BY <1>5, <1>7, <1>8
  <1>10. \A e \in 0..(m - 1) : q(i, e) = q(i + 1, e)
    BY <1>8, <1>9
  <1>11. Digit(i, s, m) < Digit(i + 1, s, m)
    <2>1. q(i, m) < q(i + 1, m)
      BY <1>2, <1>6, <1>8, <1>9
    <2>2. q(i, m - 1) = q(i + 1, m - 1)
      BY <1>9, <1>10
    <2>3. /\ q(i, m) = q(i, m - 1) * s[m] + Digit(i, s, m) /\ Digit(i, s, m) \in Nat
          /\ q(i + 1, m) = q(i + 1, m - 1) * s[m] + Digit(i + 1, s, m) /\ Digit(i + 1, s, m) \in Nat
      BY <1>3, <1>9
    <2>4. q(i, m - 1) * s[m] \in Nat
      <3>1. q(i, m - 1) \in Nat /\ s[m] \in Nat
        <4>1. m - 1 \in 0..n /\ m \in DOMAIN s
          BY <1>1, <1>9
        <4>2. s[m] \in Nat
          BY <4>1, Radix DEF Positive
        <4> QED
          BY <1>2, <4>1, <4>2
      <3> QED
        BY <3>1, Multiplied
    <2> QED
      BY <2>1, <2>2, <2>3, <2>4
  <1>12. \A e \in 1..(m - 1) : Digit(i, s, e) = Digit(i + 1, s, e)
    BY <1>10 DEF Digit, q
  <1>13. /\ \A d \in 1..n : Unflatten(i, s)[d] = Digit(i, s, d) /\ Unflatten(i + 1, s)[d] = Digit(i + 1, s, d)
         /\ DOMAIN Unflatten(i, s) = 1..n
    <2>1. i + 1 \in Nat
      OBVIOUS
    <2> QED
      BY <1>1, <2>1, UnflattenIs, ZenonT(60) DEF Unflatten
  <1>14. /\ Unflatten(i, s)[m] < Unflatten(i + 1, s)[m]
         /\ \A e \in 1..(m - 1) : Unflatten(i, s)[e] = Unflatten(i + 1, s)[e]
    BY <1>9, <1>11, <1>12, <1>13
  <1> QED
    BY <1>9, <1>13, <1>14 DEF Before

(* The weights of a concatenation. *)
LEMMA InnerConcat ==
    ASSUME NEW s \in Sizes, NEW t \in Sizes
    PROVE  /\ s \o t \in Sizes /\ Len(s \o t) = Len(s) + Len(t)
           /\ \A d \in DOMAIN s : /\ (s \o t)[d] = s[d]
                                  /\ Inner(s \o t, d) = Product(t) * Inner(s, d)
           /\ \A e \in DOMAIN t : /\ (s \o t)[Len(s) + e] = t[e]
                                  /\ Inner(s \o t, Len(s) + e) = Inner(t, e)
  <1>1. PICK n \in Nat : n = Len(s) /\ DOMAIN s = 1..n
    BY DEF Sizes
  <1>2. PICK k \in Nat : k = Len(t) /\ DOMAIN t = 1..k
    BY DEF Sizes
  <1>3. /\ s \o t \in Sizes /\ Len(s \o t) = n + k
        /\ \A i \in 1..(n + k) : (s \o t)[i] = IF i <= n THEN s[i] ELSE t[i - n]
    BY <1>1, <1>2, ConcatProperties DEF Sizes
  <1>4. ASSUME NEW d \in 1..n
        PROVE  (s \o t)[d] = s[d] /\ Inner(s \o t, d) = Product(t) * Inner(s, d)
    <2>1. (s \o t)[d] = s[d]
      BY <1>3
    <2>2. SubSeq(s \o t, 1, d) = SubSeq(s, 1, d)
      <3>1. 1 \in 1..Len(s) /\ d \in 1..Len(s)
        BY <1>1
      <3> QED
        BY <3>1, SubSeqOfConcat1 DEF Sizes
    <2>3. d \in 0..Len(s) /\ d \in 0..Len(s \o t)
      BY <1>1, <1>3
    <2>4. /\ Outer(s, d) \in Positive /\ Inner(s, d) \in Nat /\ Inner(s \o t, d) \in Nat
          /\ Outer(s \o t, d) * Inner(s \o t, d) = Product(s \o t)
          /\ Outer(s, d) * Inner(s, d) = Product(s)
      <3>1. /\ Outer(s, d) \in Positive /\ Inner(s, d) \in Positive
            /\ Outer(s, d) * Inner(s, d) = Product(s)
        BY <2>3, Radix
      <3>2. Inner(s \o t, d) \in Positive /\ Outer(s \o t, d) * Inner(s \o t, d) = Product(s \o t)
        BY <1>3, <2>3, Radix
      <3> QED
        BY <3>1, <3>2 DEF Positive
    <2>5. Outer(s \o t, d) = Outer(s, d)
      BY <2>2 DEF Outer
    <2>6. Product(s \o t) = Product(s) * Product(t) /\ Product(t) \in Nat
      BY ProductConcat, ProductType DEF Positive
    <2>7. (Outer(s, d) * Inner(s, d)) * Product(t) = Outer(s, d) * (Product(t) * Inner(s, d))
          /\ Product(t) * Inner(s, d) \in Nat
      BY <2>4, <2>6 DEF Positive
    <2>8. Outer(s, d) * Inner(s \o t, d) = Outer(s, d) * (Product(t) * Inner(s, d))
      BY <2>4, <2>5, <2>6, <2>7
    <2>9. Inner(s \o t, d) = Product(t) * Inner(s, d)
      BY <2>4, <2>7, <2>8, Cancelled
    <2> QED
      BY <2>1, <2>9
  <1>5. ASSUME NEW e \in 1..k
        PROVE  (s \o t)[n + e] = t[e] /\ Inner(s \o t, n + e) = Inner(t, e)
    <2>1. (s \o t)[n + e] = t[e]
      <3>1. n + e \in 1..(n + k) /\ ~(n + e <= n) /\ (n + e) - n = e
        OBVIOUS
      <3> QED
        BY <1>3, <3>1
    <2>2. CASE e = k
      <3>1. Inner(s \o t, Len(s \o t)) = 1 /\ Inner(t, Len(t)) = 1
        BY <1>3, Radix
      <3> QED
        BY <1>2, <1>3, <2>1, <2>2, <3>1
    <2>3. CASE e # k
      <3>1. /\ (n + e) + 1 \in (Len(s) + 1)..(Len(s) + Len(t))
            /\ n + k \in (Len(s) + 1)..(Len(s) + Len(t))
            /\ ((n + e) + 1) - Len(s) = e + 1 /\ (n + k) - Len(s) = k
        BY <1>1, <1>2, <2>3
      <3>2. SubSeq(s \o t, (n + e) + 1, n + k) = SubSeq(t, e + 1, k)
        BY <3>1, SubSeqOfConcat2 DEF Sizes
      <3> QED
        BY <1>2, <1>3, <2>1, <3>2 DEF Inner
    <2> QED
      BY <2>1, <2>2, <2>3
  <1> QED
    BY <1>1, <1>2, <1>3, <1>4, <1>5

(* Digits of two numbers are the digits of one. *)
LEMMA UnflattenConcat ==
    ASSUME NEW s \in Sizes, NEW t \in Sizes, NEW i \in Nat, NEW r \in Nat, r < Product(t)
    PROVE  Unflatten(i, s) \o Unflatten(r, t) = Unflatten(i * Product(t) + r, s \o t)
  <1> DEFINE x == i * Product(t) + r
  <1>1. PICK n \in Nat : n = Len(s) /\ DOMAIN s = 1..n
    BY DEF Sizes
  <1>2. PICK k \in Nat : k = Len(t) /\ DOMAIN t = 1..k
    BY DEF Sizes
  <1>3. Product(t) \in Positive /\ Product(t) \in Nat
    BY ProductType DEF Positive
  <1>4. x \in Nat
    BY <1>3
  <1>5. /\ Unflatten(i, s) \in Seq(Nat) /\ Len(Unflatten(i, s)) = n
        /\ \A d \in 1..n : Unflatten(i, s)[d] = Digit(i, s, d)
    BY <1>1, UnflattenIs DEF Point
  <1>6. /\ Unflatten(r, t) \in Seq(Nat) /\ Len(Unflatten(r, t)) = k
        /\ \A d \in 1..k : Unflatten(r, t)[d] = Digit(r, t, d)
    BY <1>2, UnflattenIs DEF Point
  <1>7. /\ Unflatten(x, s \o t) \in Seq(Nat) /\ Len(Unflatten(x, s \o t)) = n + k
        /\ \A d \in 1..(n + k) : Unflatten(x, s \o t)[d] = Digit(x, s \o t, d)
    <2>1. s \o t \in Sizes /\ Len(s \o t) = n + k /\ DOMAIN (s \o t) = 1..(n + k)
      BY <1>1, <1>2, InnerConcat DEF Sizes
    <2> HIDE DEF x
    <2> QED
      BY <1>4, <2>1, UnflattenIs DEF Point
  <1>8. ASSUME NEW d \in 1..n PROVE Digit(x, s \o t, d) = Digit(i, s, d)
    <2>1. (s \o t)[d] = s[d] /\ Inner(s \o t, d) = Product(t) * Inner(s, d)
      BY <1>1, InnerConcat
    <2>2. d \in 0..Len(s) /\ Inner(s, d) \in Positive
      BY <1>1, Radix
    <2>3. x \div (Product(t) * Inner(s, d)) = (x \div Product(t)) \div Inner(s, d)
      BY <1>3, <1>4, <2>2, DividesTwice
    <2>4. x \div Product(t) = i
      BY <1>3, <1>4, DividesIs
    <2> QED
      BY <2>1, <2>3, <2>4 DEF Digit
  <1>9. ASSUME NEW e \in 1..k PROVE Digit(x, s \o t, n + e) = Digit(r, t, e)
    <2>1. (s \o t)[n + e] = t[e] /\ Inner(s \o t, n + e) = Inner(t, e)
      <3>1. e \in DOMAIN t
        BY <1>2
      <3>2. (s \o t)[Len(s) + e] = t[e] /\ Inner(s \o t, Len(s) + e) = Inner(t, e)
        BY <3>1, InnerConcat
      <3> QED
        BY <1>1, <3>2
    <2>2. /\ e \in 0..Len(t) /\ e - 1 \in 0..Len(t) /\ t[e] \in Positive
          /\ Inner(t, e) \in Positive /\ Outer(t, e - 1) \in Positive
          /\ Product(t) = (Outer(t, e - 1) * t[e]) * Inner(t, e)
      <3>1. e \in 0..Len(t) /\ e - 1 \in 0..Len(t) /\ e \in DOMAIN t
        BY <1>2
      <3> QED
        BY <3>1, Radix
    <2>3. PICK a \in Nat, b \in Nat, c \in Positive :
             a = Outer(t, e - 1) /\ b = t[e] /\ c = Inner(t, e) /\ b \in Positive
      BY <2>2 DEF Positive
    <2>4. x = (i * (a * b)) * c + r /\ i * (a * b) \in Nat
      <3>1. i * ((a * b) * c) = (i * (a * b)) * c
        BY <2>3 DEF Positive
      <3> QED
        BY <2>2, <2>3, <3>1
    <2>5. x \div c = i * (a * b) + (r \div c)
      <3>1. PICK h \in Nat : h = i * (a * b)
        BY <2>4
      <3>2. x = h * c + r
        BY <2>4, <3>1
      <3>3. x \div c = h + (r \div c)
        BY <3>2, DividesShifted
      <3> QED
        BY <3>1, <3>3
    <2>6. r \div c \in Nat /\ i * (a * b) = (i * a) * b /\ i * a \in Nat
      <3>1. r \div c \in Nat
        BY Divides
      <3>2. i * (a * b) = (i * a) * b /\ i * a \in Nat
        OBVIOUS
      <3> QED
        BY <3>1, <3>2
    <2>7. (x \div c) % b = (r \div c) % b
      <3>1. ((i * a) * b + (r \div c)) % b = (r \div c) % b
        <4>1. PICK h \in Nat, y \in Nat : h = i * a /\ y = r \div c
          BY <2>6
        <4>2. (h * b + y) % b = y % b
          BY <2>3, DividesShifted
        <4> QED
          BY <4>1, <4>2
      <3> QED
        BY <2>5, <2>6, <3>1
    <2> QED
      BY <2>1, <2>3, <2>7 DEF Digit
  <1> DEFINE u == Unflatten(i, s) \o Unflatten(r, t)
  <1>10. /\ u \in Seq(Nat) /\ Len(u) = n + k
         /\ \A d \in 1..(n + k) :
               u[d] = IF d <= n THEN Unflatten(i, s)[d] ELSE Unflatten(r, t)[d - n]
    BY <1>5, <1>6, ConcatProperties
  <1> HIDE DEF u, x
  <1>11. ASSUME NEW d \in 1..(n + k) PROVE u[d] = Unflatten(x, s \o t)[d]
    <2>1. CASE d <= n
      <3>1. d \in 1..n
        BY <2>1
      <3> QED
        BY <1>5, <1>7, <1>8, <1>10, <2>1, <3>1
    <2>2. CASE ~(d <= n)
      <3>1. PICK e \in 1..k : d = n + e /\ e = d - n
        BY <2>2
      <3> QED
        BY <1>6, <1>7, <1>9, <1>10, <2>2, <3>1
    <2> QED
      BY <2>1, <2>2
  <1>12. u = Unflatten(x, s \o t)
    BY <1>7, <1>10, <1>11, SeqEqual
  <1> QED
    BY <1>12 DEF u, x

-----------------------------------------------------------------------------
(* Splitting the ranges of a child. *)

(* W has the dimensions of V, and perhaps more after them. *)
Extending(W, V) ==
    \A j \in DOMAIN V : j \in DOMAIN W /\ W[j] = V[j] /\ Outer(W, j) = Outer(V, j)

(* How dimension n of xs is put together from those of V. *)
Got(how, V, xs, n) ==
    \/ how = <<>> /\ xs[n] = 1
    \/ \E j \in DOMAIN V : how = <<j>> /\ V[j] = xs[n] /\ Outer(V, j) = Outer(xs, n)
    \/ \E j \in DOMAIN V :
          /\ j + 1 \in DOMAIN V /\ how = <<V[j + 1], j, j + 1>>
          /\ V[j + 1] * V[j] = xs[n] /\ Outer(V, j + 1) = Outer(xs, n)

(* sp hands the dimensions xs out to groups of G elements. *)
Kept(sp, G) == \A g \in 1..2 : Product(sp.ranges[g]) * sp.remaining[g] = G[g]
AllGot(getters, V, xs) ==
    Len(getters) = Len(xs) /\ \A n \in DOMAIN xs : Got(getters[n], V, xs, n)
Handed(sp, xs) ==
    /\ Product(xs) = Product(sp.ranges[1] \o sp.ranges[2])
    /\ AllGot(sp.getters, sp.ranges[1] \o sp.ranges[2], xs)
SplitInv(sp, xs, G) ==
    /\ sp \in Splitting /\ sp.ranges \in Sizes \X Sizes /\ sp.remaining[1] \in Positive
    /\ sp.ok =>
          /\ sp.remaining[2] \in Positive
          /\ sp.remaining[1] # 1 => sp.ranges[2] = <<>>
          /\ Kept(sp, G)
          /\ Handed(sp, xs)

(* One dimension more. *)
LEMMA ExtendingAppend ==
    ASSUME NEW V \in Sizes, NEW x \in Positive
    PROVE  /\ Append(V, x) \in Sizes /\ Extending(Append(V, x), V)
           /\ Len(Append(V, x)) = Len(V) + 1 /\ Append(V, x)[Len(V) + 1] = x
           /\ Outer(Append(V, x), Len(V) + 1) = Product(V) * x
  <1>1. PICK n \in Nat : n = Len(V) /\ DOMAIN V = 1..n
    BY DEF Sizes
  <1>2. /\ Append(V, x) \in Sizes /\ Len(Append(V, x)) = n + 1 /\ DOMAIN Append(V, x) = 1..(n + 1)
        /\ Append(V, x)[n + 1] = x /\ \A j \in 1..n : Append(V, x)[j] = V[j]
    BY <1>1 DEF Sizes
  <1>3. ASSUME NEW j \in 1..n PROVE Outer(Append(V, x), j) = Outer(V, j)
    <2>1. SubSeq(Append(V, x), 1, j) = SubSeq(V, 1, j)
      <3>1. Append(V, x) = V \o <<x>> /\ <<x>> \in Seq(Positive)
        BY DEF Sizes
      <3>2. 1 \in 1..Len(V) /\ j \in 1..Len(V)
        BY <1>1
      <3> QED
        BY <3>1, <3>2, SubSeqOfConcat1 DEF Sizes
    <2> QED
      BY <2>1 DEF Outer
  <1>4. Outer(Append(V, x), n + 1) = Product(V) * x
    <2>1. SubSeq(Append(V, x), 1, n + 1) = Append(V, x)
      BY <1>2, SubSeqFull DEF Sizes
    <2> QED
      BY <2>1, ProductAppend DEF Outer
  <1> QED
    BY <1>1, <1>2, <1>3, <1>4 DEF Extending

(* What was got stays so. *)
LEMMA GotStays ==
    ASSUME NEW V \in Sizes, NEW W \in Sizes, Extending(W, V), NEW xs \in Sizes, NEW x \in Positive,
           NEW n \in DOMAIN xs, NEW how, Got(how, V, xs, n)
    PROVE  Got(how, W, Append(xs, x), n)
  <1>1. Append(xs, x)[n] = xs[n] /\ Outer(Append(xs, x), n) = Outer(xs, n)
    BY ExtendingAppend DEF Extending
  <1>2. CASE how = <<>> /\ xs[n] = 1
    BY <1>1, <1>2 DEF Got
  <1>3. CASE \E j \in DOMAIN V : how = <<j>> /\ V[j] = xs[n] /\ Outer(V, j) = Outer(xs, n)
    <2>1. PICK j \in DOMAIN V : how = <<j>> /\ V[j] = xs[n] /\ Outer(V, j) = Outer(xs, n)
      BY <1>3
    <2>2. j \in DOMAIN W /\ W[j] = V[j] /\ Outer(W, j) = Outer(V, j)
      BY DEF Extending
    <2> QED
      BY <1>1, <2>1, <2>2 DEF Got
  <1>4. CASE \E j \in DOMAIN V :
                /\ j + 1 \in DOMAIN V /\ how = <<V[j + 1], j, j + 1>>
                /\ V[j + 1] * V[j] = xs[n] /\ Outer(V, j + 1) = Outer(xs, n)
    <2>1. PICK j \in DOMAIN V :
             /\ j + 1 \in DOMAIN V /\ how = <<V[j + 1], j, j + 1>>
             /\ V[j + 1] * V[j] = xs[n] /\ Outer(V, j + 1) = Outer(xs, n)
      BY <1>4
    <2>2. /\ j \in DOMAIN W /\ W[j] = V[j]
          /\ j + 1 \in DOMAIN W /\ W[j + 1] = V[j + 1] /\ Outer(W, j + 1) = Outer(V, j + 1)
      BY <2>1 DEF Extending
    <2> QED
      BY <1>1, <2>1, <2>2 DEF Got
  <1> QED
    BY <1>2, <1>3, <1>4 DEF Got

(* One dimension more is handed out. *)
LEMMA HandedMore ==
    ASSUME NEW V \in Sizes, NEW W \in Sizes, Extending(W, V), NEW xs \in Sizes, NEW x \in Positive,
           NEW getters \in Seq(Seq(Nat)), AllGot(getters, V, xs),
           NEW how \in Seq(Nat), Got(how, W, Append(xs, x), Len(xs) + 1)
    PROVE  AllGot(Append(getters, how), W, Append(xs, x))
  <1> DEFINE more == Append(getters, how)
  <1>0. Len(getters) = Len(xs) /\ \A n \in DOMAIN xs : Got(getters[n], V, xs, n)
    BY DEF AllGot
  <1>1. PICK k \in Nat : k = Len(xs) /\ DOMAIN xs = 1..k /\ DOMAIN Append(xs, x) = 1..(k + 1)
           /\ Len(Append(xs, x)) = k + 1
    BY DEF Sizes
  <1>2. Len(more) = k + 1 /\ more[k + 1] = how /\ \A n \in 1..k : more[n] = getters[n]
    BY <1>0, <1>1
  <1> HIDE DEF more
  <1>3. ASSUME NEW n \in 1..(k + 1) PROVE Got(more[n], W, Append(xs, x), n)
    <2>1. CASE n = k + 1
      BY <1>1, <1>2, <2>1
    <2>2. CASE n # k + 1
      <3>1. n \in DOMAIN xs /\ more[n] = getters[n]
        BY <1>1, <1>2, <2>2
      <3> QED
        BY <1>0, <3>1, GotStays
    <2> QED
      BY <2>1, <2>2
  <1> QED
    BY <1>1, <1>2, <1>3 DEF AllGot, more

(* What is left of a group divides it. *)
LEMMA DividesEvenly ==
    ASSUME NEW m \in Nat, NEW x \in Positive, m % x = 0
    PROVE  /\ x * (m \div x) = m /\ m \div x \in Nat
           /\ m \in Positive => m \div x \in Positive
  <1>1. PICK q \in Nat, r \in Nat : q = m \div x /\ r = m % x /\ m = q * x + r /\ r < x
    BY Quotient, Zenon
  <1>2. m = q * x /\ x \in Nat /\ q * x = x * q
    BY <1>1 DEF Positive
  <1>3. q = 0 => q * x = 0
    BY <1>2
  <1>4. m \in Positive => q \in Positive
    BY <1>1, <1>2, <1>3 DEF Positive
  <1> QED
    BY <1>1, <1>2, <1>4

(* A number that is not less than the divisor has a positive quotient. *)
LEMMA DividesPositive ==
    ASSUME NEW m \in Nat, NEW x \in Positive, x <= m
    PROVE  m \div x \in Positive
  <1>1. PICK q \in Nat, r \in Nat : q = m \div x /\ r = m % x /\ m = q * x + r /\ r < x
    BY Quotient, Zenon
  <1>2. q = 0 => q * x = 0
    BY DEF Positive
  <1>3. q # 0
    BY <1>1, <1>2 DEF Positive
  <1> QED
    BY <1>1, <1>3 DEF Positive

(* One component of a pair is replaced. *)
LEMMA PairWith ==
    ASSUME NEW A, NEW p \in A \X A, NEW g \in 1..2, NEW a \in A
    PROVE  /\ [p EXCEPT ![g] = a] \in A \X A /\ [p EXCEPT ![g] = a][g] = a
           /\ \A h \in 1..2 : h # g => [p EXCEPT ![g] = a][h] = p[h]
  <1>1. PICK b \in A, c \in A : p = <<b, c>>
    OBVIOUS
  <1>2. g = 1 \/ g = 2
    OBVIOUS
  <1>3. CASE g = 1
    <2>1. [p EXCEPT ![g] = a] = <<a, c>>
      BY <1>1, <1>3
    <2> QED
      BY <1>1, <1>3, <2>1
  <1>4. CASE g = 2
    <2>1. [p EXCEPT ![g] = a] = <<b, a>>
      BY <1>1, <1>4
    <2> QED
      BY <1>1, <1>4, <2>1
  <1> QED
    BY <1>2, <1>3, <1>4

(* t is sp with x taken from group g. *)
Taken(t, sp, g, x) ==
    /\ t.getters = sp.getters
    /\ t.ok <=> sp.ok /\ sp.remaining[g] % x = 0
    /\ t.remaining[g] = sp.remaining[g] \div x
    /\ t.ranges[g] = Append(sp.ranges[g], x)
    /\ \A h \in 1..2 : h # g => t.remaining[h] = sp.remaining[h] /\ t.ranges[h] = sp.ranges[h]

(* What TakeFrom takes. *)
LEMMA TakeFromIs ==
    ASSUME NEW sp \in Splitting, NEW g \in 1..2, NEW x \in Positive
    PROVE  TakeFrom(sp, g, x) \in Splitting /\ Taken(TakeFrom(sp, g, x), sp, g, x)
  <1> DEFINE rem == [sp.remaining EXCEPT ![g] = @ \div x]
             ran == [sp.ranges EXCEPT ![g] = Append(@, x)]
             t == TakeFrom(sp, g, x)
  <1>1. /\ sp.remaining \in Nat \X Nat /\ sp.ranges \in Seq(Nat) \X Seq(Nat)
        /\ sp.getters \in Seq(Seq(Nat)) /\ sp.ok \in BOOLEAN
    BY DEF Splitting
  <1>2. sp.remaining[g] \in Nat /\ sp.ranges[g] \in Seq(Nat) /\ x \in Nat
    BY <1>1 DEF Positive
  <1>3. sp.remaining[g] \div x \in Nat
    BY <1>2, Divides
  <1>4. Append(sp.ranges[g], x) \in Seq(Nat)
    BY <1>2
  <1>5. /\ rem \in Nat \X Nat /\ rem[g] = sp.remaining[g] \div x
        /\ \A h \in 1..2 : h # g => rem[h] = sp.remaining[h]
    BY <1>1, <1>3, PairWith
  <1>6. /\ ran \in Seq(Nat) \X Seq(Nat) /\ ran[g] = Append(sp.ranges[g], x)
        /\ \A h \in 1..2 : h # g => ran[h] = sp.ranges[h]
    <2>1. PICK A : A = Seq(Nat)
      OBVIOUS
    <2>2. PICK p \in A \X A : p = sp.ranges
      BY <1>1, <2>1
    <2>3. PICK a \in A : a = Append(sp.ranges[g], x)
      BY <1>4, <2>1
    <2>4. ran = [p EXCEPT ![g] = a]
      BY <2>2, <2>3
    <2> HIDE DEF ran
    <2>5. /\ [p EXCEPT ![g] = a] \in A \X A /\ [p EXCEPT ![g] = a][g] = a
          /\ \A h \in 1..2 : h # g => [p EXCEPT ![g] = a][h] = p[h]
      BY PairWith
    <2>6. ran \in A \X A /\ ran[g] = a /\ \A h \in 1..2 : h # g => ran[h] = p[h]
      BY <2>4, <2>5
    <2> QED
      BY <2>1, <2>2, <2>3, <2>6
  <1>7. /\ t.remaining = rem /\ t.ranges = ran /\ t.getters = sp.getters
        /\ t.ok = (sp.ok /\ sp.remaining[g] % x = 0)
    BY DEF TakeFrom, Splitting
  <1>8. t \in Splitting
    <2>1. t = [sp EXCEPT !.remaining = rem, !.ranges = ran,
                         !.ok = sp.ok /\ sp.remaining[g] % x = 0]
      BY DEF TakeFrom
    <2>2. (sp.ok /\ sp.remaining[g] % x = 0) \in BOOLEAN
      OBVIOUS
    <2> HIDE DEF rem, ran, t
    <2> QED
      BY <1>5, <1>6, <2>1, <2>2 DEF Splitting
  <1> HIDE DEF rem, ran, t
  <1> QED
    BY <1>5, <1>6, <1>7, <1>8 DEF t, Taken

(* b is sp with one getter more. *)
Gets(b, sp, how) ==
    /\ b.ranges = sp.ranges /\ b.remaining = sp.remaining
    /\ b.ok = sp.ok /\ b.getters = Append(sp.getters, how)

(* A getter is added. *)
LEMMA GetterAdded ==
    ASSUME NEW sp \in Splitting, NEW how \in Seq(Nat)
    PROVE  LET b == [sp EXCEPT !.getters = Append(@, how)]
           IN  b \in Splitting /\ Gets(b, sp, how)
  <1>1. Append(sp.getters, how) \in Seq(Seq(Nat))
    BY DEF Splitting
  <1> QED
    BY <1>1 DEF Splitting, Gets

(* The conditions on a split, one by one. *)
LEMMA SplitInvIs ==
    ASSUME NEW t \in Splitting, NEW xs, NEW G,
           NEW S1 \in Sizes, NEW S2 \in Sizes, NEW k1 \in Positive, NEW k2 \in Nat,
           t.ranges[1] = S1, t.ranges[2] = S2, t.remaining[1] = k1, t.remaining[2] = k2,
           t.ok => /\ k2 \in Positive /\ (k1 # 1 => S2 = <<>>)
                   /\ Product(S1) * k1 = G[1] /\ Product(S2) * k2 = G[2]
                   /\ Product(xs) = Product(S1 \o S2) /\ AllGot(t.getters, S1 \o S2, xs)
    PROVE  SplitInv(t, xs, G)
  <1>1. t.ranges \in Seq(Nat) \X Seq(Nat)
    BY DEF Splitting
  <1>2. t.ranges = <<S1, S2>>
    <2>1. PICK a, b : t.ranges = <<a, b>>
      BY <1>1
    <2> QED
      BY <2>1
  <1>3. t.ranges \in Sizes \X Sizes
    BY <1>2
  <1>4. t.ok => Kept(t, G)
    BY DEF Kept
  <1>5. t.ok => Handed(t, xs)
    BY DEF Handed
  <1> QED
    BY <1>3, <1>4, <1>5 DEF SplitInv

(* A size that is taken from one group becomes its next range. *)
LEMMA SizeTaken ==
    ASSUME NEW G, NEW sp, NEW xs \in Sizes, SplitInv(sp, xs, G), NEW x \in Positive, x # 1,
           NEW g \in 1..2, g = 1 => x <= sp.remaining[1], g = 2 => sp.remaining[1] = 1,
           NEW base \in Splitting,
           Gets(base, sp, <<Len(sp.ranges[1]) + Len(sp.ranges[2]) + 1>>)
    PROVE  SplitInv(TakeFrom(base, g, x), Append(xs, x), G)
  <1> DEFINE t == TakeFrom(base, g, x)
  <1>1. PICK R1 \in Sizes, R2 \in Sizes : sp.ranges = <<R1, R2>>
    BY DEF SplitInv
  <1>2. PICK m1 \in Positive, m2 \in Nat : sp.remaining = <<m1, m2>>
    <2>1. sp.remaining \in Nat \X Nat /\ sp.remaining[1] \in Positive
      BY DEF SplitInv, Splitting
    <2> QED
      BY <2>1
  <1>3. PICK V \in Sizes, n \in Nat : V = R1 \o R2 /\ n = Len(V) /\ n = Len(R1) + Len(R2)
    <2>1. R1 \o R2 \in Sizes /\ Len(R1 \o R2) = Len(R1) + Len(R2) /\ Len(R1 \o R2) \in Nat
      BY DEF Sizes
    <2> QED
      BY <2>1
  <1>4. /\ base.ranges = sp.ranges /\ base.remaining = sp.remaining
        /\ base.ok = sp.ok /\ base.getters = Append(sp.getters, <<n + 1>>)
        /\ sp.getters \in Seq(Seq(Nat)) /\ <<n + 1>> \in Seq(Nat)
    <2>1. <<n + 1>> \in Seq(Nat) /\ sp.getters \in Seq(Seq(Nat))
      BY DEF SplitInv, Splitting
    <2> QED
      BY <1>1, <1>3, <2>1 DEF Gets
  <1>5. /\ t \in Splitting /\ t.getters = Append(sp.getters, <<n + 1>>)
        /\ t.ok <=> sp.ok /\ sp.remaining[g] % x = 0
        /\ t.remaining[g] = sp.remaining[g] \div x
        /\ t.ranges[g] = Append(sp.ranges[g], x)
        /\ \A h \in 1..2 : h # g => t.remaining[h] = sp.remaining[h] /\ t.ranges[h] = sp.ranges[h]
    <2>1. t \in Splitting /\ Taken(t, base, g, x)
      BY TakeFromIs
    <2> HIDE DEF t
    <2> QED
      BY <1>4, <2>1 DEF Taken
  <1> HIDE DEF t
  <1>6. /\ Append(V, x) \in Sizes /\ Extending(Append(V, x), V)
        /\ Append(V, x)[n + 1] = x /\ Len(Append(V, x)) = n + 1
        /\ Outer(Append(V, x), n + 1) = Product(V) * x
    <2>1. /\ Append(V, x) \in Sizes /\ Extending(Append(V, x), V)
          /\ Len(Append(V, x)) = Len(V) + 1 /\ Append(V, x)[Len(V) + 1] = x
          /\ Outer(Append(V, x), Len(V) + 1) = Product(V) * x
      BY ExtendingAppend
    <2> QED
      BY <1>3, <2>1
  <1>7. /\ Append(xs, x) \in Sizes /\ Append(xs, x)[Len(xs) + 1] = x
        /\ Outer(Append(xs, x), Len(xs) + 1) = Product(xs) * x
    BY ExtendingAppend
  <1>8. sp.ok => /\ Product(Append(xs, x)) = Product(Append(V, x))
                 /\ AllGot(t.getters, Append(V, x), Append(xs, x))
    <2> SUFFICES ASSUME sp.ok
                 PROVE  /\ Product(Append(xs, x)) = Product(Append(V, x))
                        /\ AllGot(t.getters, Append(V, x), Append(xs, x))
      OBVIOUS
    <2>1. Product(xs) = Product(V) /\ AllGot(sp.getters, V, xs)
      BY <1>1, <1>3 DEF SplitInv, Handed
    <2>2. Got(<<n + 1>>, Append(V, x), Append(xs, x), Len(xs) + 1)
      <3>1. n + 1 \in DOMAIN Append(V, x)
        BY <1>6 DEF Sizes
      <3> QED
        BY <1>6, <1>7, <2>1, <3>1 DEF Got
    <2>3. Product(Append(xs, x)) = Product(Append(V, x))
      BY <1>3, <2>1, ProductAppend
    <2>4. PICK W \in Sizes : W = Append(V, x)
      BY <1>6
    <2>5. AllGot(Append(sp.getters, <<n + 1>>), W, Append(xs, x))
      BY <1>4, <1>6, <2>1, <2>2, <2>4, HandedMore
    <2> QED
      BY <1>5, <2>3, <2>4, <2>5
  <1>9. CASE g = 1
    <2>1. m1 \div x \in Positive
      BY <1>2, <1>9, DividesPositive DEF Positive
    <2>2. Append(R1, x) \in Sizes /\ Product(Append(R1, x)) = Product(R1) * x
      BY ProductAppend DEF Sizes
    <2>3. /\ t.ranges[1] = Append(R1, x) /\ t.ranges[2] = R2
          /\ t.remaining[1] = m1 \div x /\ t.remaining[2] = m2
      BY <1>1, <1>2, <1>5, <1>9
    <2>4. ASSUME t.ok
          PROVE  /\ m2 \in Positive /\ ((m1 \div x) # 1 => R2 = <<>>)
                 /\ Product(Append(R1, x)) * (m1 \div x) = G[1] /\ Product(R2) * m2 = G[2]
                 /\ Append(R1, x) \o R2 = Append(V, x)
      <3>1. sp.ok /\ m1 % x = 0
        BY <1>2, <1>5, <1>9, <2>4
      <3>2. m2 \in Positive /\ (m1 # 1 => R2 = <<>>) /\ Product(R1) * m1 = G[1] /\ Product(R2) * m2 = G[2]
        BY <1>1, <1>2, <3>1 DEF SplitInv, Kept
      <3>3. x * (m1 \div x) = m1 /\ m1 \div x \in Nat
        BY <3>1, DividesEvenly DEF Positive
      <3>4. (Product(R1) * x) * (m1 \div x) = Product(R1) * m1
        <4>1. PICK p \in Nat, q \in Nat, y \in Nat : p = Product(R1) /\ q = m1 \div x /\ y = x
          BY <3>3, ProductType DEF Positive
        <4>2. (p * y) * q = p * (y * q)
          OBVIOUS
        <4> QED
          BY <3>3, <4>1, <4>2
      <3>5. R2 = <<>>
        <4>1. m1 # 1
          BY <1>2, <1>9 DEF Positive
        <4> QED
          BY <3>2, <4>1
      <3>6. Append(R1, x) \o R2 = Append(V, x)
        BY <1>3, <2>2, <3>5 DEF Sizes
      <3> QED
        BY <2>2, <3>2, <3>4, <3>5, <3>6
    <2>5. PICK S1 \in Sizes, k1 \in Positive : S1 = Append(R1, x) /\ k1 = m1 \div x
      BY <2>1, <2>2
    <2>6. t.ok => /\ m2 \in Positive /\ (k1 # 1 => R2 = <<>>)
                  /\ Product(S1) * k1 = G[1] /\ Product(R2) * m2 = G[2]
                  /\ Product(Append(xs, x)) = Product(S1 \o R2)
                  /\ AllGot(t.getters, S1 \o R2, Append(xs, x))
      BY <1>5, <1>8, <2>4, <2>5
    <2>7. t \in Splitting /\ t.ranges[1] = S1 /\ t.ranges[2] = R2 /\ t.remaining[1] = k1 /\ t.remaining[2] = m2
      BY <1>5, <2>3, <2>5
    <2>8. SplitInv(t, Append(xs, x), G)
      BY <2>6, <2>7, SplitInvIs
    <2> QED
      BY <2>8 DEF t
  <1>10. CASE g = 2
    <2>1. m1 = 1
      BY <1>2, <1>10
    <2>2. Append(R2, x) \in Sizes /\ Product(Append(R2, x)) = Product(R2) * x
      BY ProductAppend DEF Sizes
    <2>3. /\ t.ranges[1] = R1 /\ t.ranges[2] = Append(R2, x)
          /\ t.remaining[1] = 1 /\ t.remaining[2] = m2 \div x /\ m2 \div x \in Nat
      BY <1>1, <1>2, <1>5, <1>10, <2>1, Divides, SMTT(60)
    <2>4. ASSUME t.ok
          PROVE  /\ m2 \div x \in Positive
                 /\ Product(R1) * 1 = G[1] /\ Product(Append(R2, x)) * (m2 \div x) = G[2]
                 /\ R1 \o Append(R2, x) = Append(V, x)
      <3>1. sp.ok /\ m2 % x = 0
        BY <1>2, <1>5, <1>10, <2>4
      <3>2. m2 \in Positive /\ Product(R1) * m1 = G[1] /\ Product(R2) * m2 = G[2]
        BY <1>1, <1>2, <3>1 DEF SplitInv, Kept
      <3>3. x * (m2 \div x) = m2 /\ m2 \div x \in Positive
        BY <3>1, <3>2, DividesEvenly
      <3>4. (Product(R2) * x) * (m2 \div x) = Product(R2) * m2
        <4>1. PICK p \in Nat, q \in Nat, y \in Nat : p = Product(R2) /\ q = m2 \div x /\ y = x
          BY <3>3, ProductType DEF Positive
        <4>2. (p * y) * q = p * (y * q)
          OBVIOUS
        <4> QED
          BY <3>3, <4>1, <4>2
      <3>5. R1 \o Append(R2, x) = Append(V, x)
        BY <1>3, <2>2 DEF Sizes
      <3> QED
        BY <2>1, <2>2, <3>2, <3>3, <3>4, <3>5
    <2>5. 1 \in Positive
      BY DEF Positive
    <2>6. PICK S2 \in Sizes, k1 \in Positive, k2 \in Nat :
             S2 = Append(R2, x) /\ k1 = 1 /\ k2 = m2 \div x
      BY <2>2, <2>3, <2>5
    <2>7. t.ok => /\ k2 \in Positive /\ (k1 # 1 => S2 = <<>>)
                  /\ Product(R1) * k1 = G[1] /\ Product(S2) * k2 = G[2]
                  /\ Product(Append(xs, x)) = Product(R1 \o S2)
                  /\ AllGot(t.getters, R1 \o S2, Append(xs, x))
      BY <1>5, <1>8, <2>4, <2>6
    <2>8. t \in Splitting /\ t.ranges[1] = R1 /\ t.ranges[2] = S2 /\ t.remaining[1] = k1 /\ t.remaining[2] = k2
      BY <1>5, <2>3, <2>6
    <2>9. SplitInv(t, Append(xs, x), G)
      BY <2>7, <2>8, SplitInvIs
    <2> QED
      BY <2>9 DEF t
  <1> QED
    BY <1>9, <1>10

(* A size that is too large for the first group is split over both. *)
LEMMA SizeSplit ==
    ASSUME NEW G, NEW sp, NEW xs \in Sizes, SplitInv(sp, xs, G), NEW x \in Positive,
           sp.remaining[1] # 1, sp.remaining[1] < x,
           NEW base \in Splitting,
           Gets(base, sp, <<x \div sp.remaining[1], Len(sp.ranges[1]) + Len(sp.ranges[2]) + 1,
                            Len(sp.ranges[1]) + Len(sp.ranges[2]) + 2>>),
           NEW t \in Splitting, NEW u \in Splitting, Taken(u, base, 1, sp.remaining[1]),
           Taken(t, u, 2, x \div sp.remaining[1]),
           NEW last \in Splitting,
           last.ranges = t.ranges, last.remaining = t.remaining, last.getters = t.getters,
           last.ok => t.ok /\ x % sp.remaining[1] = 0
    PROVE  SplitInv(last, Append(xs, x), G)
  <1>1. PICK R1 \in Sizes, R2 \in Sizes : sp.ranges = <<R1, R2>>
    BY DEF SplitInv
  <1>2. PICK m1 \in Positive, m2 \in Nat : sp.remaining = <<m1, m2>>
    <2>1. sp.remaining \in Nat \X Nat /\ sp.remaining[1] \in Positive
      BY DEF SplitInv, Splitting
    <2> QED
      BY <2>1
  <1>3. PICK q \in Positive : q = x \div m1
    <2>1. x \div m1 \in Positive
      BY <1>2, DividesPositive DEF Positive
    <2> QED
      BY <2>1
  <1>4. /\ base.ranges = <<R1, R2>> /\ base.remaining = <<m1, m2>> /\ base.ok = sp.ok
        /\ base.getters = Append(sp.getters, <<q, Len(R1) + Len(R2) + 1, Len(R1) + Len(R2) + 2>>)
    BY <1>1, <1>2, <1>3 DEF Gets
  <1>5. /\ u.getters = base.getters /\ u.ranges[1] = Append(R1, m1) /\ u.ranges[2] = R2
        /\ u.remaining[1] = m1 \div m1 /\ u.remaining[2] = m2 /\ (u.ok => sp.ok)
    BY <1>2, <1>4 DEF Taken
  <1>6. m1 \div m1 = 1
    <2>1. m1 \in Nat /\ 0 < m1 /\ m1 = 1 * m1 + 0
      BY DEF Positive
    <2> QED
      BY <2>1, DividesIs
  <1>7. /\ last.getters = base.getters /\ last.ranges[1] = Append(R1, m1) /\ last.ranges[2] = Append(R2, q)
        /\ last.remaining[1] = 1 /\ last.remaining[2] = m2 \div q
        /\ last.ok => sp.ok /\ m2 % q = 0 /\ x % m1 = 0
    <2>1. /\ t.getters = u.getters /\ t.ranges[2] = Append(u.ranges[2], q) /\ t.ranges[1] = u.ranges[1]
          /\ t.remaining[2] = u.remaining[2] \div q /\ t.remaining[1] = u.remaining[1]
          /\ t.ok <=> u.ok /\ u.remaining[2] % q = 0
      <3>1. x \div sp.remaining[1] = q
        BY <1>2, <1>3
      <3>2. Taken(t, u, 2, q)
        BY <3>1
      <3>3. 1 \in 1..2 /\ 1 # 2
        OBVIOUS
      <3> QED
        BY <3>2, <3>3, Zenon DEF Taken
    <2>2. last.ok => t.ok /\ x % m1 = 0
      BY <1>2
    <2> QED
      BY <1>5, <1>6, <2>1, <2>2
  <1>8. PICK S1 \in Sizes, S2 \in Sizes : S1 = Append(R1, m1) /\ S2 = Append(R2, q)
    <2>1. Append(R1, m1) \in Sizes /\ Append(R2, q) \in Sizes
      BY DEF Sizes
    <2> QED
      BY <2>1
  <1>9. PICK k1 \in Positive, k2 \in Nat : k1 = 1 /\ k2 = m2 \div q
    BY Divides DEF Positive
  <1>10. ASSUME last.ok
         PROVE  /\ k2 \in Positive /\ (k1 # 1 => S2 = <<>>)
                /\ Product(S1) * k1 = G[1] /\ Product(S2) * k2 = G[2]
                /\ Product(Append(xs, x)) = Product(S1 \o S2)
                /\ AllGot(last.getters, S1 \o S2, Append(xs, x))
    <2>1. sp.ok /\ m2 % q = 0 /\ x % m1 = 0
      BY <1>7, <1>10
    <2>2. /\ m2 \in Positive /\ R2 = <<>> /\ Product(R1) * m1 = G[1] /\ Product(R2) * m2 = G[2]
          /\ Product(xs) = Product(R1 \o R2) /\ AllGot(sp.getters, R1 \o R2, xs)
      BY <1>1, <1>2, <2>1 DEF SplitInv, Kept, Handed
    <2>3. R1 \o R2 = R1 /\ Len(R1) + Len(R2) = Len(R1) /\ Len(R1) \in Nat
      BY <2>2 DEF Sizes
    <2>4. m1 * q = x
      <3>1. x \in Nat
        BY DEF Positive
      <3> QED
        BY <1>3, <2>1, <3>1, DividesEvenly
    <2>5. q * k2 = m2 /\ k2 \in Positive
      BY <1>9, <2>1, <2>2, DividesEvenly
    <2>6. /\ S1 \in Sizes /\ Extending(S1, R1) /\ Len(S1) = Len(R1) + 1 /\ S1[Len(R1) + 1] = m1
          /\ Product(S1) = Product(R1) * m1
      BY <1>8, ExtendingAppend, ProductAppend
    <2>7. PICK W \in Sizes : W = Append(S1, q)
      <3>1. Append(S1, q) \in Sizes
        BY DEF Sizes
      <3> QED
        BY <3>1
    <2>8. /\ Extending(W, S1) /\ Len(W) = Len(S1) + 1 /\ W[Len(S1) + 1] = q
          /\ Outer(W, Len(S1) + 1) = Product(S1) * q /\ Product(W) = Product(S1) * q
      BY <2>7, ExtendingAppend, ProductAppend
    <2>9. S1 \o S2 = W
      <3>1. S2 = <<q>>
        BY <1>8, <2>2 DEF Sizes
      <3> QED
        BY <2>7, <3>1 DEF Sizes
    <2>10. Extending(W, R1)
      BY <2>6, <2>8 DEF Extending
    <2>11. (Product(R1) * m1) * q = Product(R1) * x
      <3>1. PICK p \in Nat, a \in Nat, b \in Nat : p = Product(R1) /\ a = m1 /\ b = q
        BY ProductType DEF Positive
      <3>2. (p * a) * b = p * (a * b)
        OBVIOUS
      <3> QED
        BY <2>4, <3>1, <3>2
    <2>12. Product(Append(xs, x)) = Product(W)
      BY <2>2, <2>3, <2>6, <2>8, <2>11, ProductAppend
    <2>13. AllGot(last.getters, W, Append(xs, x))
      <3>1. PICK n \in Nat : n = Len(R1)
        BY <2>3
      <3>2. W[n + 1] = m1 /\ W[n + 2] = q /\ n + 1 \in DOMAIN W /\ (n + 1) + 1 \in DOMAIN W
            /\ Outer(W, n + 2) = Product(S1) * q
        <4>1. Len(W) = n + 2 /\ n + 1 \in DOMAIN S1 /\ DOMAIN W = 1..(n + 2)
          BY <2>6, <2>8, <3>1 DEF Sizes
        <4>2. W[n + 1] = S1[n + 1] /\ (n + 1) + 1 = n + 2 /\ n + 1 = Len(S1)
          BY <2>6, <2>8, <3>1, <4>1 DEF Extending
        <4> QED
          BY <2>6, <2>8, <3>1, <4>1, <4>2
      <3>3. /\ Append(xs, x) \in Sizes /\ Append(xs, x)[Len(xs) + 1] = x
            /\ Outer(Append(xs, x), Len(xs) + 1) = Product(xs) * x
        BY ExtendingAppend
      <3>4. (n + 1) + 1 = n + 2 /\ W[n + 2] * W[n + 1] = x /\ Outer(W, n + 2) = Outer(Append(xs, x), Len(xs) + 1)
        <4>1. q * m1 = m1 * q
          BY DEF Positive
        <4> QED
          BY <2>2, <2>3, <2>4, <2>6, <2>11, <3>2, <3>3, <4>1
      <3>5. PICK how \in Seq(Nat) : how = <<q, n + 1, n + 2>>
        <4>1. <<q, n + 1, n + 2>> \in Seq(Nat)
          BY DEF Positive
        <4> QED
          BY <4>1
      <3>6. Got(how, W, Append(xs, x), Len(xs) + 1)
        BY <3>2, <3>3, <3>4, <3>5 DEF Got
      <3>7. AllGot(Append(sp.getters, how), W, Append(xs, x))
        <4>1. sp.getters \in Seq(Seq(Nat)) /\ AllGot(sp.getters, R1, xs)
          BY <2>2, <2>3 DEF SplitInv, Splitting
        <4> QED
          BY <2>10, <3>6, <4>1, HandedMore
      <3>8. last.getters = Append(sp.getters, how)
        BY <1>4, <1>7, <2>3, <3>1, <3>5
      <3> QED
        BY <3>7, <3>8
    <2>14. Product(S1) * k1 = G[1]
      <3>1. Product(S1) \in Nat
        BY ProductType DEF Positive
      <3> QED
        BY <1>9, <2>2, <2>6, <3>1
    <2>15. Product(S2) * k2 = G[2]
      <3>1. Product(R2) = 1 /\ Product(S2) = Product(R2) * q
        BY <1>8, <2>2, ProductEmpty, ProductAppend
      <3>2. Product(S2) = q /\ Product(R2) * m2 = m2
        BY <2>2, <3>1 DEF Positive
      <3> QED
        BY <2>2, <2>5, <3>2
    <2> QED
      BY <1>9, <2>5, <2>9, <2>12, <2>13, <2>14, <2>15
  <1>11. last.ranges[1] = S1 /\ last.ranges[2] = S2 /\ last.remaining[1] = k1 /\ last.remaining[2] = k2
    BY <1>7, <1>8, <1>9
  <1> QED
    BY <1>10, <1>11, SplitInvIs, ZenonT(60)

(* Handing out one size more. *)
LEMMA SplitSteps ==
    ASSUME NEW G, NEW sp, NEW xs \in Sizes, SplitInv(sp, xs, G), NEW x \in Positive
    PROVE  SplitInv(SplitSize(sp, x), Append(xs, x), G)
  <1> DEFINE first == sp.remaining[1]
             getter(how) == [sp EXCEPT !.getters = Append(@, how)]
             g == IF first = 1 THEN 2 ELSE 1
  <1>1. sp \in Splitting /\ first \in Positive /\ x \in Nat /\ first \in Nat
    BY DEF SplitInv, Positive
  <1>2. PICK n \in Nat : n = Len(sp.ranges[1]) + Len(sp.ranges[2])
    <2>1. PICK R1 \in Sizes, R2 \in Sizes : sp.ranges = <<R1, R2>>
      BY DEF SplitInv
    <2>2. Len(R1) \in Nat /\ Len(R2) \in Nat
      BY DEF Sizes
    <2> QED
      BY <2>1, <2>2
  <1>3. ASSUME NEW how \in Seq(Nat)
        PROVE  getter(how) \in Splitting /\ Gets(getter(how), sp, how)
    BY <1>1, GetterAdded
  <1>4. SplitSize(sp, x) =
            IF x = 1 THEN getter(<<>>)
            ELSE IF g = 1 /\ x > first
            THEN [TakeFrom(TakeFrom(getter(<<x \div first, n + 1, n + 2>>), 1, first), 2, x \div first)
                     EXCEPT !.ok = @ /\ x % first = 0]
            ELSE TakeFrom(getter(<<n + 1>>), g, x)
    BY <1>2 DEF SplitSize
  <1> HIDE DEF getter
  <1>5. CASE x = 1
    <2>1. PICK R1 \in Sizes, R2 \in Sizes : sp.ranges = <<R1, R2>>
      BY DEF SplitInv
    <2>2. PICK b \in Splitting : b = getter(<<>>) /\ Gets(b, sp, <<>>)
      <3>1. <<>> \in Seq(Nat)
        OBVIOUS
      <3> QED
        BY <1>3, <3>1
    <2>3. PICK V \in Sizes : V = R1 \o R2
      <3>1. R1 \o R2 \in Sizes
        BY DEF Sizes
      <3> QED
        BY <3>1
    <2>4. PICK m1 \in Positive, m2 \in Nat : sp.remaining[1] = m1 /\ sp.remaining[2] = m2
      BY <1>1 DEF Splitting
    <2>5. ASSUME b.ok
          PROVE  /\ m2 \in Positive /\ (m1 # 1 => R2 = <<>>)
                 /\ Product(R1) * m1 = G[1] /\ Product(R2) * m2 = G[2]
                 /\ Product(Append(xs, x)) = Product(R1 \o R2)
                 /\ AllGot(b.getters, R1 \o R2, Append(xs, x))
      <3>1. sp.ok
        BY <2>2, <2>5 DEF Gets
      <3>2. /\ m2 \in Positive /\ (m1 # 1 => R2 = <<>>)
            /\ Product(R1) * m1 = G[1] /\ Product(R2) * m2 = G[2]
            /\ Product(xs) = Product(V) /\ AllGot(sp.getters, V, xs)
        BY <2>1, <2>3, <2>4, <3>1 DEF SplitInv, Kept, Handed
      <3>3. Product(Append(xs, x)) = Product(xs)
        <4>1. Product(Append(xs, x)) = Product(xs) * x /\ Product(xs) \in Nat
          BY ProductAppend, ProductType DEF Positive
        <4> QED
          BY <1>5, <4>1
      <3>4. Append(xs, x)[Len(xs) + 1] = 1
        BY <1>5, ExtendingAppend
      <3>5. PICK how \in Seq(Nat) : how = <<>>
        <4>1. <<>> \in Seq(Nat)
          OBVIOUS
        <4> QED
          BY <4>1
      <3>6. Got(how, V, Append(xs, x), Len(xs) + 1)
        BY <3>4, <3>5 DEF Got
      <3>7. Extending(V, V)
        BY DEF Extending
      <3>8. sp.getters \in Seq(Seq(Nat))
        BY <1>1 DEF Splitting
      <3>9. AllGot(Append(sp.getters, how), V, Append(xs, x))
        BY <3>2, <3>6, <3>7, <3>8, HandedMore
      <3> QED
        BY <2>2, <2>3, <3>2, <3>3, <3>5, <3>9 DEF Gets
    <2>6. b.ranges[1] = R1 /\ b.ranges[2] = R2 /\ b.remaining[1] = m1 /\ b.remaining[2] = m2
      BY <2>1, <2>2, <2>4 DEF Gets
    <2>7. SplitInv(b, Append(xs, x), G)
      BY <2>5, <2>6, SplitInvIs
    <2> QED
      BY <1>4, <1>5, <2>2, <2>7
  <1>6. CASE x # 1 /\ g = 1 /\ x > first
    <2>1. first # 1 /\ first < x
      BY <1>1, <1>6
    <2>2. x \div first \in Positive
      BY <1>1, <2>1, DividesPositive
    <2>3. PICK how \in Seq(Nat) : how = <<x \div first, n + 1, n + 2>>
      <3>1. <<x \div first, n + 1, n + 2>> \in Seq(Nat)
        <4>1. x \div first \in Nat /\ n + 1 \in Nat /\ n + 2 \in Nat
          BY <2>2 DEF Positive
        <4>2. \A i, j, k \in Nat : <<i, j, k>> \in Seq(Nat)
          OBVIOUS
        <4> QED
          BY <4>1, <4>2
      <3> QED
        BY <3>1
    <2>4. PICK b \in Splitting : b = getter(how) /\ Gets(b, sp, how)
      BY <1>3
    <2>5. PICK u \in Splitting : u = TakeFrom(b, 1, first) /\ Taken(u, b, 1, first)
      <3>1. 1 \in 1..2
        OBVIOUS
      <3> QED
        BY <1>1, <3>1, TakeFromIs
    <2>6. PICK t \in Splitting : t = TakeFrom(u, 2, x \div first) /\ Taken(t, u, 2, x \div first)
      <3>1. 2 \in 1..2
        OBVIOUS
      <3> QED
        BY <2>2, <3>1, TakeFromIs
    <2>7. PICK last \in Splitting :
             /\ last = [t EXCEPT !.ok = @ /\ x % first = 0]
             /\ last.ranges = t.ranges /\ last.remaining = t.remaining /\ last.getters = t.getters
             /\ last.ok => t.ok /\ x % first = 0
      <3> DEFINE l == [t EXCEPT !.ok = @ /\ x % first = 0]
      <3>1. (t.ok /\ x % first = 0) \in BOOLEAN
        OBVIOUS
      <3>2. l \in Splitting /\ l.ok = (t.ok /\ x % first = 0)
            /\ l.ranges = t.ranges /\ l.remaining = t.remaining /\ l.getters = t.getters
        BY <3>1 DEF Splitting
      <3> HIDE DEF l
      <3>3. l.ok => t.ok /\ x % first = 0
        BY <3>2
      <3> QED
        BY <3>2, <3>3 DEF l
    <2>8. SplitSize(sp, x) = last
      BY <1>4, <1>6, <2>3, <2>4, <2>5, <2>6, <2>7
    <2>9. SplitInv(last, Append(xs, x), G)
      BY <1>2, <2>1, <2>3, <2>4, <2>5, <2>6, <2>7, SizeSplit, ZenonT(60)
    <2> QED
      BY <2>8, <2>9
  <1>7. CASE x # 1 /\ ~(g = 1 /\ x > first)
    <2>1. g \in 1..2 /\ (g = 1 => x <= first) /\ (g = 2 => first = 1)
      BY <1>1, <1>7
    <2>2. PICK how \in Seq(Nat) : how = <<n + 1>>
      <3>1. <<n + 1>> \in Seq(Nat)
        <4>1. n + 1 \in Nat
          OBVIOUS
        <4>2. \A k \in Nat : <<k>> \in Seq(Nat)
          OBVIOUS
        <4> QED
          BY <4>1, <4>2
      <3> QED
        BY <3>1
    <2>3. PICK b \in Splitting : b = getter(how) /\ Gets(b, sp, how)
      BY <1>3
    <2>4. PICK h \in 1..2 : h = g
      BY <2>1
    <2>5. SplitSize(sp, x) = TakeFrom(b, h, x)
      BY <1>4, <1>7, <2>2, <2>3, <2>4
    <2> HIDE DEF g
    <2>6. SplitInv(TakeFrom(b, h, x), Append(xs, x), G)
      BY <1>2, <1>7, <2>1, <2>2, <2>3, <2>4, SizeTaken
    <2> QED
      BY <2>5, <2>6
  <1> QED
    BY <1>5, <1>6, <1>7

-----------------------------------------------------------------------------
(* The coordinates of a child. *)

(* The ranges of parent and child. *)
Ranged == parent \in Sizes \X Sizes /\ lengths \in Sizes \X Sizes /\ active \in BOOLEAN

(* The sizes in play. *)
LEMMA RangedSizes ==
    ASSUME Ranged
    PROVE  /\ PointwiseSizes \in Sizes /\ ReductionSizes \in Sizes
           /\ lengths[1] \in Sizes /\ lengths[2] \in Sizes /\ ChildSizes \in Sizes
           /\ Nest = PointwiseSizes \o (IF active THEN ReductionSizes ELSE <<>>) /\ Nest \in Sizes
           /\ KernelGroups[1] = Product(PointwiseSizes)
           /\ KernelGroups[2] = (IF active THEN Product(ReductionSizes) ELSE 1)
           /\ KernelGroups[1] \in Positive /\ KernelGroups[2] \in Positive
           /\ Product(Nest) = KernelGroups[1] * KernelGroups[2]
  <1>1. PointwiseSizes \in Sizes /\ ReductionSizes \in Sizes /\ lengths[1] \in Sizes /\ lengths[2] \in Sizes
    BY DEF Ranged, PointwiseSizes, ReductionSizes
  <1>2. ChildSizes \in Sizes
    BY <1>1, InnerConcat DEF ChildSizes
  <1>3. PICK T \in Sizes : T = IF active THEN ReductionSizes ELSE <<>>
    <2>1. <<>> \in Sizes
      BY DEF Sizes
    <2> QED
      BY <1>1, <2>1
  <1>4. Nest = PointwiseSizes \o T /\ Nest \in Sizes /\ Product(Nest) = Product(PointwiseSizes) * Product(T)
    BY <1>1, <1>3, InnerConcat, ProductConcat DEF Nest
  <1>5. Product(T) = IF active THEN Product(ReductionSizes) ELSE 1
    BY <1>3, ProductEmpty
  <1>6. /\ KernelGroups[1] = Product(PointwiseSizes)
        /\ KernelGroups[2] = IF active THEN Product(ReductionSizes) ELSE 1
    BY DEF KernelGroups
  <1>7. Product(PointwiseSizes) \in Positive /\ Product(T) \in Positive
    BY <1>1, ProductType
  <1> QED
    BY <1>1, <1>2, <1>3, <1>4, <1>5, <1>6, <1>7

(* The child's sizes are handed out to the groups of the kernel. *)
LEMMA SplitHands ==
    ASSUME Ranged
    PROVE  SplitInv(Split, ChildSizes, KernelGroups)
  <1> DEFINE f == [p \in Splitting \X Nat |-> SplitSize(p[1], p[2])]
             none == [remaining |-> KernelGroups, ranges |-> <<<<>>, <<>>>>,
                      getters |-> <<>>, ok |-> TRUE]
             P == {xs \in Sizes : SplitInv(Fold(f, none, xs), xs, KernelGroups)}
  <1>1. Split = Fold(f, none, ChildSizes)
    BY DEF Split
  <1>2. KernelGroups[1] \in Positive /\ KernelGroups[2] \in Positive
    BY RangedSizes
  <1>3. PICK k1 \in Positive, k2 \in Positive : KernelGroups = <<k1, k2>> /\ k1 = KernelGroups[1] /\ k2 = KernelGroups[2]
    BY <1>2 DEF KernelGroups
  <1>4. <<>> \in P
    <2>1. <<>> \in Sizes /\ <<>> \in Seq(Nat) /\ <<>> \in Seq(Seq(Nat)) /\ Product(<<>>) = 1
      BY ProductEmpty DEF Sizes
    <2>2. k1 \in Nat /\ k2 \in Nat
      BY DEF Positive
    <2>3. none \in Splitting
      BY <1>3, <2>1, <2>2 DEF Splitting
    <2>4. none.ranges = <<<<>>, <<>>>> /\ none.remaining = <<k1, k2>> /\ none.getters = <<>>
      BY <1>3
    <2>5. PICK e \in Sizes : e = <<>> /\ e \o e = e /\ Len(e) = 0 /\ DOMAIN e = {}
      <3>1. <<>> \o <<>> = <<>> /\ Len(<<>>) = 0 /\ DOMAIN <<>> = {}
        OBVIOUS
      <3> QED
        BY <2>1, <3>1
    <2>6. AllGot(none.getters, e \o e, e)
      BY <2>4, <2>5 DEF AllGot
    <2>7. Product(e) * k1 = KernelGroups[1] /\ Product(e) * k2 = KernelGroups[2] /\ Product(e) = Product(e \o e)
      BY <1>3, <2>1, <2>2, <2>5
    <2>8. PICK t \in Splitting : t = none
      BY <2>3
    <2>9. t.ranges[1] = e /\ t.ranges[2] = e /\ t.remaining[1] = k1 /\ t.remaining[2] = k2
      BY <2>4, <2>5, <2>8
    <2> HIDE DEF none
    <2>10. SplitInv(t, e, KernelGroups)
      BY <2>2, <2>5, <2>6, <2>7, <2>8, <2>9, SplitInvIs
    <2>11. Fold(f, none, <<>>) = none
      BY FoldEmpty
    <2> QED
      BY <2>1, <2>5, <2>8, <2>10, <2>11
  <1> HIDE DEF none
  <1>5. ASSUME NEW xs \in Sizes, NEW x \in Positive, xs \in P
        PROVE  Append(xs, x) \in P
    <2>1. Fold(f, none, Append(xs, x)) = f[<<Fold(f, none, xs), x>>]
      BY FoldAppend DEF Sizes
    <2>2. SplitInv(Fold(f, none, xs), xs, KernelGroups)
      BY <1>5
    <2>3. PICK sp \in Splitting : sp = Fold(f, none, xs)
      BY <2>2 DEF SplitInv
    <2>4. f[<<sp, x>>] = SplitSize(sp, x)
      <3>1. <<sp, x>> \in Splitting \X Nat
        BY DEF Positive
      <3> QED
        BY <3>1
    <2> HIDE DEF f
    <2>5. SplitInv(SplitSize(sp, x), Append(xs, x), KernelGroups)
      BY <2>2, <2>3, SplitSteps
    <2>6. Append(xs, x) \in Sizes
      BY DEF Sizes
    <2> QED
      BY <2>1, <2>3, <2>4, <2>5, <2>6
  <1> HIDE DEF P
  <1>6. \A xs \in Seq(Positive) : xs \in P
    BY <1>4, <1>5, SequencesAreBuilt DEF Sizes
  <1>7. ChildSizes \in P
    BY <1>6, RangedSizes DEF Sizes
  <1> QED
    BY <1>1, <1>7 DEF P

(* The flat index, taken apart by the factors of both groups. *)
LEMMA RangesSet ==
    ASSUME Ranged, NEW at, Point(at, Nest),
           NEW factors, NEW F1 \in Sizes, NEW F2 \in Sizes, factors[1] = F1, factors[2] = F2,
           Product(F1) = KernelGroups[1], Product(F2) = KernelGroups[2]
    PROVE  SetRanges(at, factors)[1] \o SetRanges(at, factors)[2]
           = Unflatten(Flatten(at, Nest), F1 \o F2)
  <1>1. PICK P \in Sizes, R \in Sizes : P = PointwiseSizes /\ R = ReductionSizes
    BY RangedSizes
  <1>2. PICK n \in Nat : n = Len(P) /\ DOMAIN P = 1..n
    BY DEF Sizes
  <1> DEFINE p == SubSeq(at, 1, Len(PointwiseSizes))
             r == SubSeq(at, Len(PointwiseSizes) + 1, Len(at))
  <1>3. /\ SetRanges(at, factors)[1] = Unflatten(Flatten(p, P), F1)
        /\ SetRanges(at, factors)[2] = IF active THEN Unflatten(Flatten(r, R), F2) ELSE Unflatten(0, F2)
    BY <1>1 DEF SetRanges
  <1>4. at \in Seq(Nat) /\ Len(at) = Len(Nest) /\ \A d \in 1..Len(at) : at[d] < Nest[d]
    BY DEF Point, Within
  <1>5. CASE active
    <2>1. PICK k \in Nat : k = Len(R) /\ DOMAIN R = 1..k
      BY DEF Sizes
    <2>2. /\ Nest = P \o R /\ Len(at) = n + k
          /\ \A d \in 1..n : (P \o R)[d] = P[d]
          /\ \A e \in 1..k : (P \o R)[n + e] = R[e]
      <3>1. Nest = P \o R
        BY <1>1, <1>5, RangedSizes
      <3> QED
        BY <1>2, <1>4, <2>1, <3>1, InnerConcat
    <2>3. /\ p \in Seq(Nat) /\ Len(p) = n /\ \A d \in 1..n : p[d] = at[d]
          /\ r \in Seq(Nat) /\ Len(r) = k /\ \A e \in 1..k : r[e] = at[n + e]
          /\ at = p \o r
      <3>1. p = SubSeq(at, 1, n) /\ r = SubSeq(at, n + 1, n + k)
        BY <1>1, <1>2, <2>2
      <3> HIDE DEF p, r
      <3>2. p \in Seq(Nat) /\ Len(p) = n /\ \A d \in 1..n : p[d] = at[d]
        BY <1>4, <2>2, <3>1
      <3>3. r \in Seq(Nat) /\ Len(r) = k /\ \A e \in 1..k : r[e] = at[n + e]
        BY <1>4, <2>2, <3>1, SMTT(60)
      <3>4. p \o r = SubSeq(at, 1, n + k)
        <4>1. 1 \in 1..(Len(at) + 1) /\ n \in (1 - 1)..Len(at) /\ n + k \in n..Len(at)
          BY <2>2
        <4> QED
          BY <1>4, <3>1, <4>1, ConcatAdjacentSubSeq
      <3>5. SubSeq(at, 1, n + k) = at
        BY <1>4, <2>2, SubSeqFull
      <3> QED
        BY <3>2, <3>3, <3>4, <3>5
    <2>4. Point(p, P)
      <3> HIDE DEF p, r
      <3>1. \A d \in 1..n : d \in 1..Len(at)
        BY <2>2
      <3> QED
        BY <1>2, <1>4, <2>2, <2>3, <3>1 DEF Point, Within
    <2>5. Point(r, R)
      <3> HIDE DEF p, r
      <3>1. \A e \in 1..k : n + e \in 1..Len(at)
        BY <2>2
      <3>2. \A e \in 1..k : r[e] < R[e]
        BY <1>4, <2>2, <2>3, <3>1
      <3> QED
        BY <2>1, <2>3, <3>2 DEF Point, Within
    <2> HIDE DEF p, r
    <2>6. Flatten(at, Nest) = Flatten(p, P) * Product(R) + Flatten(r, R)
      BY <1>2, <2>1, <2>2, <2>3, FlattenConcat
    <2>7. Product(F2) = Product(R)
      BY <1>1, <1>5, RangedSizes
    <2>8. Flatten(p, P) \in Nat /\ Flatten(r, R) \in Nat /\ Flatten(r, R) < Product(F2)
      BY <2>4, <2>5, <2>7, FlattenBound
    <2>9. PICK i \in Nat, j \in Nat : i = Flatten(p, P) /\ j = Flatten(r, R) /\ j < Product(F2)
      BY <2>8
    <2>10. Unflatten(i, F1) \o Unflatten(j, F2) = Unflatten(i * Product(F2) + j, F1 \o F2)
      BY <2>9, UnflattenConcat
    <2> QED
      BY <1>3, <1>5, <2>6, <2>7, <2>9, <2>10
  <1>6. CASE ~active
    <2>1. Nest = P
      <3>1. Nest = P \o <<>>
        BY <1>1, <1>6, RangedSizes
      <3> QED
        BY <3>1 DEF Sizes
    <2>2. p = at
      BY <1>1, <1>4, <2>1, SubSeqFull
    <2> HIDE DEF p, r
    <2>3. Product(F2) = 1
      BY <1>6, RangedSizes
    <2>4. Flatten(at, P) \in Nat
      BY <2>1, FlattenBound
    <2>5. PICK h \in Nat : h = Flatten(at, P)
      BY <2>4
    <2>6. PICK z \in Nat : z = 0 /\ z < Product(F2)
      BY <2>3
    <2>7. Unflatten(h, F1) \o Unflatten(z, F2) = Unflatten(h * Product(F2) + z, F1 \o F2)
      BY <2>6, UnflattenConcat
    <2>8. h * Product(F2) + z = h
      BY <2>3, <2>6
    <2> QED
      BY <1>3, <1>6, <2>1, <2>2, <2>5, <2>6, <2>7, <2>8
  <1> QED
    BY <1>5, <1>6 DEF Ranged

(* A coordinate, put together from those of a split. *)
Merged(how, variables) ==
    CASE how = <<>> -> 0
      [] Len(how) = 1 -> variables[how[1]]
      [] Len(how) = 3 -> how[1] * variables[how[2]] + variables[how[3]]

(* The digits of a merged dimension. *)
LEMMA DigitsMerge ==
    ASSUME NEW f \in Nat, NEW V \in Sizes, NEW xs \in Sizes, Product(V) = Product(xs),
           NEW n \in DOMAIN xs, NEW how, Got(how, V, xs, n)
    PROVE  Digit(f, xs, n) = Merged(how, Unflatten(f, V))
  <1>1. n \in 0..Len(xs) /\ xs[n] \in Positive /\ Inner(xs, n) \in Positive /\ Outer(xs, n) \in Positive
        /\ Outer(xs, n) * Inner(xs, n) = Product(xs)
    <2>1. n \in 0..Len(xs)
      BY DEF Sizes
    <2> QED
      BY <2>1, Radix
  <1>2. ASSUME NEW j \in DOMAIN V
        PROVE  /\ j \in 0..Len(V) /\ V[j] \in Positive /\ Inner(V, j) \in Positive
               /\ Outer(V, j) * Inner(V, j) = Product(V) /\ Unflatten(f, V)[j] = Digit(f, V, j)
               /\ Inner(V, j - 1) = V[j] * Inner(V, j)
    <2>1. j \in 0..Len(V)
      BY DEF Sizes
    <2> QED
      BY <2>1, Radix, UnflattenIs
  <1>3. ASSUME NEW j \in DOMAIN V, Outer(V, j) = Outer(xs, n)
        PROVE  Inner(V, j) = Inner(xs, n)
    <2>1. PICK a \in Positive, b \in Nat, c \in Nat : a = Outer(xs, n) /\ b = Inner(V, j) /\ c = Inner(xs, n)
      BY <1>1, <1>2 DEF Positive
    <2>2. a * b = a * c
      BY <1>1, <1>2, <1>3, <2>1
    <2> QED
      BY <2>1, <2>2, Cancelled
  <1>4. PICK c \in Positive, y \in Nat : c = Inner(xs, n) /\ y = f \div c
    <2>1. f \div Inner(xs, n) \in Nat
      BY <1>1, Divides
    <2> QED
      BY <1>1, <2>1
  <1>5. CASE how = <<>> /\ xs[n] = 1
    <2>1. y % 1 = 0
      <3>1. y = y * 1 + 0 /\ 1 \in Positive
        BY DEF Positive
      <3> QED
        BY <3>1, DividesIs
    <2> QED
      BY <1>4, <1>5, <2>1 DEF Digit, Merged
  <1>6. CASE \E j \in DOMAIN V : how = <<j>> /\ V[j] = xs[n] /\ Outer(V, j) = Outer(xs, n)
    <2>1. PICK j \in DOMAIN V : how = <<j>> /\ V[j] = xs[n] /\ Outer(V, j) = Outer(xs, n)
      BY <1>6
    <2>2. Unflatten(f, V)[j] = Digit(f, xs, n)
      BY <1>2, <1>3, <2>1 DEF Digit
    <2>3. how # <<>> /\ Len(how) = 1 /\ how[1] = j
      BY <2>1
    <2> QED
      BY <2>2, <2>3 DEF Merged
  <1>7. CASE \E j \in DOMAIN V :
                /\ j + 1 \in DOMAIN V /\ how = <<V[j + 1], j, j + 1>>
                /\ V[j + 1] * V[j] = xs[n] /\ Outer(V, j + 1) = Outer(xs, n)
    <2>1. PICK j \in DOMAIN V :
             /\ j + 1 \in DOMAIN V /\ how = <<V[j + 1], j, j + 1>>
             /\ V[j + 1] * V[j] = xs[n] /\ Outer(V, j + 1) = Outer(xs, n)
      BY <1>7
    <2>2. PICK k \in DOMAIN V : k = j + 1 /\ k - 1 = j
      <3>1. j \in Nat
        BY DEF Sizes
      <3> QED
        BY <2>1, <3>1
    <2>3. PICK a \in Positive, b \in Positive : a = V[k] /\ b = V[j]
      BY <1>2
    <2>4. Inner(V, k) = c /\ Inner(V, j) = a * c /\ xs[n] = a * b
      BY <1>2, <1>3, <1>4, <2>1, <2>2, <2>3
    <2>5. f \div (a * c) = y \div a
      <3>1. f \div (c * a) = (f \div c) \div a
        BY DividesTwice
      <3>2. c * a = a * c
        BY DEF Positive
      <3> QED
        BY <1>4, <3>1, <3>2
    <2>6. Unflatten(f, V)[j] = (y \div a) % b /\ Unflatten(f, V)[k] = y % a
      BY <1>2, <1>4, <2>3, <2>4, <2>5 DEF Digit
    <2>7. Digit(f, xs, n) = y % (a * b)
      BY <1>4, <2>4 DEF Digit
    <2>8. y % (a * b) = ((y \div a) % b) * a + (y % a)
      BY DividesTwice
    <2>9. ((y \div a) % b) * a = a * ((y \div a) % b)
      <3>1. (y \div a) % b \in Nat /\ a \in Nat
        BY Divides DEF Positive
      <3>2. PICK z \in Nat : z = (y \div a) % b
        BY <3>1
      <3>3. z * a = a * z
        BY <3>1
      <3> QED
        BY <3>2, <3>3
    <2>10. how = <<a, j, k>>
      BY <2>1, <2>2, <2>3
    <2>11. how # <<>> /\ Len(how) = 3 /\ how[1] = a /\ how[2] = j /\ how[3] = k
      BY <2>10
    <2>12. Digit(f, xs, n) = how[1] * Unflatten(f, V)[how[2]] + Unflatten(f, V)[how[3]]
      BY <2>6, <2>7, <2>8, <2>9, <2>11
    <2> QED
      BY <2>11, <2>12 DEF Merged
  <1> QED
    BY <1>5, <1>6, <1>7 DEF Got

(* The coordinates of the child are those of the common flat index. *)
LEMMA MapChildIs ==
    ASSUME Ranged, Splits, NEW at, Point(at, Nest)
    PROVE  /\ MapChild(at) = Unflatten(Flatten(at, Nest), ChildSizes)
           /\ Product(ChildSizes) = Product(Nest)
  <1>1. /\ lengths[1] \in Sizes /\ lengths[2] \in Sizes /\ ChildSizes \in Sizes /\ Nest \in Sizes
        /\ Product(Nest) = KernelGroups[1] * KernelGroups[2]
        /\ KernelGroups[1] \in Positive /\ KernelGroups[2] \in Positive
    BY RangedSizes
  <1>2. PICK f \in Nat : f = Flatten(at, Nest)
    BY <1>1, FlattenBound
  <1>3. CASE TilingMatches
    <2>1. Product(lengths[1]) = KernelGroups[1] /\ Product(lengths[2]) = KernelGroups[2]
      BY <1>3 DEF TilingMatches
    <2>2. SetRanges(at, lengths)[1] \o SetRanges(at, lengths)[2] = Unflatten(f, ChildSizes)
      BY <1>1, <1>2, <2>1, RangesSet DEF ChildSizes
    <2>3. Product(ChildSizes) = Product(Nest)
      BY <1>1, <2>1, ProductConcat DEF ChildSizes
    <2> QED
      BY <1>2, <1>3, <2>2, <2>3 DEF MapChild
  <1>4. CASE ~TilingMatches
    <2>1. Split.ok /\ Split.remaining = <<1, 1>>
      BY <1>4 DEF Splits
    <2>2. SplitInv(Split, ChildSizes, KernelGroups)
      BY <2>1, SplitHands
    <2>3. PICK R1 \in Sizes, R2 \in Sizes : Split.ranges = <<R1, R2>>
      BY <2>2 DEF SplitInv
    <2>4. PICK V \in Sizes, xs \in Sizes : V = R1 \o R2 /\ xs = ChildSizes
      <3>1. R1 \o R2 \in Sizes
        BY InnerConcat
      <3> QED
        BY <1>1, <3>1
    <2>5. /\ Product(R1) * 1 = KernelGroups[1] /\ Product(R2) * 1 = KernelGroups[2]
          /\ Product(xs) = Product(V) /\ AllGot(Split.getters, V, xs)
      BY <2>1, <2>2, <2>3, <2>4 DEF SplitInv, Kept, Handed
    <2>6. Product(R1) = KernelGroups[1] /\ Product(R2) = KernelGroups[2]
      <3>1. Product(R1) \in Nat /\ Product(R2) \in Nat
        BY ProductType DEF Positive
      <3> QED
        BY <2>5, <3>1
    <2>7. Split.ranges[1] = R1 /\ Split.ranges[2] = R2
      BY <2>3
    <2>8. SetRanges(at, Split.ranges)[1] \o SetRanges(at, Split.ranges)[2] = Unflatten(f, V)
      <3>1. PICK factors : factors = Split.ranges
        OBVIOUS
      <3>2. factors[1] = R1 /\ factors[2] = R2
        BY <2>7, <3>1
      <3>3. SetRanges(at, factors)[1] \o SetRanges(at, factors)[2] = Unflatten(Flatten(at, Nest), R1 \o R2)
        BY <2>6, <3>2, RangesSet
      <3> QED
        BY <1>2, <2>4, <3>1, <3>3
    <2>9. Product(xs) = Product(Nest)
      BY <1>1, <2>4, <2>5, <2>6, ProductConcat
    <2>10. MapChild(at) = [n \in DOMAIN Split.getters |-> Merged(Split.getters[n], Unflatten(f, V))]
      <3>1. MapChild(at) =
              [n \in DOMAIN Split.getters |->
                 Merged(Split.getters[n], SetRanges(at, Split.ranges)[1] \o SetRanges(at, Split.ranges)[2])]
        BY <1>4 DEF MapChild, Merged
      <3> QED
        BY <2>8, <3>1
    <2>11. DOMAIN Split.getters = DOMAIN xs /\ \A n \in DOMAIN xs : Got(Split.getters[n], V, xs, n)
      <3>1. Split.getters \in Seq(Seq(Nat)) /\ xs \in Seq(Positive)
        BY <2>2 DEF SplitInv, Splitting, Sizes
      <3> QED
        BY <2>5, <3>1 DEF AllGot
    <2>12. \A n \in DOMAIN xs : MapChild(at)[n] = Digit(f, xs, n)
      <3>1. TAKE n \in DOMAIN xs
      <3>2. MapChild(at)[n] = Merged(Split.getters[n], Unflatten(f, V))
        BY <2>10, <2>11
      <3>3. Digit(f, xs, n) = Merged(Split.getters[n], Unflatten(f, V))
        BY <2>5, <2>11, DigitsMerge
      <3> QED
        BY <3>2, <3>3
    <2>13. \A n \in DOMAIN xs : Unflatten(f, xs)[n] = Digit(f, xs, n)
      BY UnflattenIs
    <2>14. MapChild(at) = [n \in DOMAIN xs |-> Digit(f, xs, n)]
      <3>1. MapChild(at) = [n \in DOMAIN xs |-> MapChild(at)[n]]
        BY <2>10, <2>11
      <3> QED
        BY <2>12, <3>1
    <2>15. Unflatten(f, xs) = [n \in DOMAIN xs |-> Digit(f, xs, n)]
      <3>1. Unflatten(f, xs) = [n \in DOMAIN xs |-> Unflatten(f, xs)[n]]
        BY DEF Unflatten
      <3> QED
        BY <2>13, <3>1
    <2> QED
      BY <1>2, <2>4, <2>9, <2>14, <2>15
  <1> QED
    BY <1>3, <1>4

-----------------------------------------------------------------------------
(* The loops. *)

(* The first iteration has the flat index 0. *)
LEMMA FlattenFirst ==
    ASSUME NEW s \in Sizes, NEW v \in Seq(Nat), Len(v) = Len(s), \A d \in DOMAIN v : v[d] = 0
    PROVE  Flatten(v, s) = 0
  <1> DEFINE P == {xs \in Sizes : \A w \in Seq(Nat) :
                     Len(w) = Len(xs) /\ (\A d \in DOMAIN w : w[d] = 0) => Flatten(w, xs) = 0}
  <1>1. <<>> \in P
    BY FlattenEmpty DEF Sizes
  <1>2. ASSUME NEW xs \in Sizes, NEW x \in Positive, xs \in P
        PROVE  Append(xs, x) \in P
    <2>1. PICK n \in Nat : n = Len(xs) /\ Append(xs, x) \in Sizes /\ Len(Append(xs, x)) = n + 1
      BY DEF Sizes
    <2>2. ASSUME NEW w \in Seq(Nat), Len(w) = n + 1, \A d \in DOMAIN w : w[d] = 0
          PROVE  Flatten(w, Append(xs, x)) = 0
      <3>1. PICK u \in Seq(Nat), y \in Nat :
               w = Append(u, y) /\ Len(u) = n /\ y = w[n + 1] /\ \A d \in 1..n : u[d] = w[d]
        BY <2>2, Appended, Zenon
      <3>2. DOMAIN w = 1..(n + 1) /\ DOMAIN u = 1..n
        BY <2>2, <3>1
      <3>3. y = 0 /\ \A d \in DOMAIN u : u[d] = 0
        BY <2>2, <3>1, <3>2
      <3>4. Flatten(u, xs) = 0
        BY <1>2, <2>1, <3>1, <3>3
      <3>5. Flatten(Append(u, y), Append(xs, x)) = Flatten(u, xs) * x + y
        BY <2>1, <3>1, FlattenAppend
      <3>6. 0 * x + 0 = 0
        BY DEF Positive
      <3> QED
        BY <3>1, <3>3, <3>4, <3>5, <3>6
    <2> QED
      BY <2>1, <2>2
  <1> HIDE DEF P
  <1>3. \A xs \in Seq(Positive) : xs \in P
    BY <1>1, <1>2, SequencesAreBuilt DEF Sizes
  <1> QED
    BY <1>3 DEF P, Sizes

(* The last iteration has the last flat index. *)
LEMMA FlattenLast ==
    ASSUME NEW s \in Sizes, NEW v \in Seq(Nat), Len(v) = Len(s), \A d \in DOMAIN v : v[d] + 1 = s[d]
    PROVE  Flatten(v, s) + 1 = Product(s)
  <1> DEFINE P == {xs \in Sizes : \A w \in Seq(Nat) :
                     Len(w) = Len(xs) /\ (\A d \in DOMAIN w : w[d] + 1 = xs[d])
                        => Flatten(w, xs) + 1 = Product(xs)}
  <1>1. <<>> \in P
    BY FlattenEmpty, ProductEmpty DEF Sizes
  <1>2. ASSUME NEW xs \in Sizes, NEW x \in Positive, xs \in P
        PROVE  Append(xs, x) \in P
    <2>1. PICK n \in Nat : n = Len(xs) /\ Append(xs, x) \in Sizes /\ Len(Append(xs, x)) = n + 1
             /\ Append(xs, x)[n + 1] = x /\ \A d \in 1..n : Append(xs, x)[d] = xs[d]
      BY DEF Sizes
    <2>2. ASSUME NEW w \in Seq(Nat), Len(w) = n + 1, \A d \in DOMAIN w : w[d] + 1 = Append(xs, x)[d]
          PROVE  Flatten(w, Append(xs, x)) + 1 = Product(Append(xs, x))
      <3>1. PICK u \in Seq(Nat), y \in Nat :
               w = Append(u, y) /\ Len(u) = n /\ y = w[n + 1] /\ \A d \in 1..n : u[d] = w[d]
        BY <2>2, Appended, Zenon
      <3>2. DOMAIN w = 1..(n + 1) /\ DOMAIN u = 1..n
        BY <2>2, <3>1
      <3>3. y + 1 = x /\ \A d \in DOMAIN u : u[d] + 1 = xs[d]
        BY <2>1, <2>2, <3>1, <3>2, SMTT(60)
      <3>4. Flatten(u, xs) + 1 = Product(xs)
        BY <1>2, <2>1, <3>1, <3>3
      <3>5. Flatten(Append(u, y), Append(xs, x)) = Flatten(u, xs) * x + y
        BY <2>1, <3>1, FlattenAppend
      <3>6. PICK h \in Nat : h = Flatten(u, xs)
        BY <2>1, <3>1, FlattenType
      <3>7. (h + 1) * x = h * x + x /\ h * x \in Nat /\ x \in Nat
        BY DEF Positive
      <3>8. Product(Append(xs, x)) = Product(xs) * x
        BY ProductAppend
      <3> QED
        BY <3>1, <3>3, <3>4, <3>5, <3>6, <3>7, <3>8, SMTT(60)
    <2> QED
      BY <2>1, <2>2
  <1> HIDE DEF P
  <1>3. \A xs \in Seq(Positive) : xs \in P
    BY <1>1, <1>2, SequencesAreBuilt DEF Sizes
  <1> QED
    BY <1>3 DEF P, Sizes

(* A bounded set of numbers has a greatest element. *)
LEMMA Greatest ==
    ASSUME NEW n \in Nat, NEW T \in SUBSET (0..n), T # {}
    PROVE  Max(T) \in T /\ \A k \in T : k <= Max(T)
  <1> DEFINE D == {n - k : k \in T}
  <1>1. D \in SUBSET Nat /\ D # {}
    <2>1. \A k \in T : n - k \in Nat
      OBVIOUS
    <2>2. PICK k \in T : TRUE
      OBVIOUS
    <2>3. n - k \in D
      OBVIOUS
    <2> QED
      BY <2>1, <2>3
  <1>2. PICK d \in D : \A e \in D : ~(e < d)
    <2> HIDE DEF D
    <2> QED
      BY <1>1, LeastNumber
  <1>3. PICK m \in T : d = n - m
    OBVIOUS
  <1>4. \A k \in T : m >= k
    BY <1>2, <1>3
  <1>5. Max(T) \in T /\ \A k \in T : Max(T) >= k
    BY <1>4 DEF Max
  <1> QED
    BY <1>5

(* The iteration that follows one that is not the last. *)
LEMMA Follows ==
    ASSUME Nest \in Sizes, NEW at, Point(at, Nest), ~ \A d \in DOMAIN Nest : at[d] + 1 = Nest[d]
    PROVE  Point(Following(at), Nest) /\ Flatten(Following(at), Nest) = Flatten(at, Nest) + 1
  <1>1. PICK n \in Nat : n = Len(Nest) /\ DOMAIN Nest = 1..n
    BY DEF Sizes
  <1>2. at \in Seq(Nat) /\ Len(at) = n /\ DOMAIN at = 1..n /\ \A d \in 1..n : at[d] \in Nat /\ at[d] < Nest[d]
    BY <1>1 DEF Point, Within
  <1>3. \A d \in 1..n : Nest[d] \in Nat /\ 0 < Nest[d]
    BY <1>1 DEF Sizes, Positive
  <1> DEFINE T == {d \in DOMAIN at : at[d] + 1 < Nest[d]}
  <1>4. T \in SUBSET (0..n) /\ T # {}
    <2>1. PICK d \in 1..n : at[d] + 1 # Nest[d]
      BY <1>1
    <2>2. at[d] + 1 < Nest[d]
      BY <1>2, <1>3, <2>1
    <2> QED
      BY <1>2, <2>2, SMTT(60)
  <1>5. PICK m \in T : m = Max(T) /\ \A k \in T : k <= m
    <2> HIDE DEF T
    <2> QED
      BY <1>4, Greatest
  <1>6. m \in 1..n /\ at[m] + 1 < Nest[m] /\ \A d \in (m + 1)..n : d \in 1..n /\ d \notin T
    <2>1. m \in 1..n /\ at[m] + 1 < Nest[m]
      BY <1>2
    <2>2. \A d \in (m + 1)..n : d \in 1..n /\ ~(d <= m)
      BY <2>1
    <2> HIDE DEF T
    <2> QED
      BY <1>5, <2>1, <2>2
  <1>7. \A d \in (m + 1)..n : at[d] + 1 = Nest[d]
    <2>1. TAKE d \in (m + 1)..n
    <2>2. d \in 1..n /\ ~(at[d] + 1 < Nest[d])
      BY <1>2, <1>6
    <2> QED
      BY <1>2, <1>3, <2>2, SMTT(60)
  <1>8. Following(at) = [d \in 1..n |-> IF d < m THEN at[d] ELSE IF d = m THEN at[d] + 1 ELSE 0]
    BY <1>2, <1>5 DEF Following
  <1>9. PICK w : w = Following(at)
    OBVIOUS
  <1>10. \A d \in 1..n : w[d] \in Nat /\ w[d] < Nest[d]
    <2>1. TAKE d \in 1..n
    <2>2. w[d] = IF d < m THEN at[d] ELSE IF d = m THEN at[d] + 1 ELSE 0
      BY <1>8, <1>9
    <2> QED
      BY <1>2, <1>3, <1>6, <2>2
  <1>11. w \in Seq(Nat) /\ Len(w) = n
    <2>1. w \in [1..n -> Nat]
      BY <1>8, <1>9, <1>10
    <2> QED
      BY <2>1
  <1>12. Succeeds(w, at, Nest, m)
    <2>1. \A d \in 1..(m - 1) : w[d] = at[d]
      BY <1>6, <1>8, <1>9
    <2>2. w[m] = at[m] + 1
      BY <1>6, <1>8, <1>9
    <2>3. \A d \in (m + 1)..n : w[d] = 0
      BY <1>6, <1>8, <1>9
    <2> QED
      BY <1>1, <1>7, <2>1, <2>2, <2>3 DEF Succeeds
  <1>13. Point(w, Nest)
    <2>1. DOMAIN w = 1..n
      BY <1>11
    <2> QED
      BY <1>1, <1>10, <1>11, <2>1 DEF Point, Within
  <1>14. Flatten(w, Nest) = Flatten(at, Nest) + 1
    BY <1>1, <1>2, <1>6, <1>11, <1>12, FlattenSucceeds
  <1> QED
    BY <1>9, <1>13, <1>14

-----------------------------------------------------------------------------
(* The invariant. *)

(* The layout fits to the ranges of the child. *)
Laid ==
    /\ layout.sizes \in Sizes
    /\ layout.strides \in [DOMAIN layout.sizes -> Nat] /\ layout.offset \in Nat
    /\ viewed \in BOOLEAN
    /\ IF viewed THEN Product(layout.sizes) = Product(ChildSizes) ELSE layout.sizes = ChildSizes

(* The flat index is the number of iterations so far. *)
Walking ==
    IF Len(visited) = Product(Nest) THEN TRUE
    ELSE Len(visited) < Product(Nest) /\ Flatten(index, Nest) = Len(visited)

(* Iteration n has brought the child to its n-th point. *)
Recorded ==
    \A n \in DOMAIN visited :
        /\ visited[n].at = Unflatten(n - 1, ChildSizes)
        /\ visited[n].address = ChildAddress(visited[n].at)
        /\ visited[n].access = MakeAccess(visited[n].address)

WalkInv ==
    /\ Ranged /\ Splits /\ Laid
    /\ Point(index, Nest)
    /\ \E S : visited \in Seq(S)
    /\ Walking
    /\ Recorded

(* The invariant holds before the first iteration. *)
LEMMA WalkInit == Init => WalkInv
  <1> SUFFICES ASSUME Init PROVE WalkInv
    OBVIOUS
  <1>1. Ranged
    <2>1. parent \in Sizes \X Sizes /\ lengths \in Sizes \X Sizes
      BY SizesAssumption DEF Init, Sizes, Positive
    <2> QED
      BY <2>1 DEF Ranged, Init
  <1>2. Splits
    BY DEF Init, Splits
  <1>3. Laid
    <2>1. PICK sizes \in BufferSizes, offset \in Offsets :
             /\ IF viewed THEN Product(sizes) = Product(ChildSizes) ELSE sizes = ChildSizes
             /\ \E strides \in [DOMAIN sizes -> Strides] :
                   layout = [sizes |-> sizes, strides |-> strides, offset |-> offset]
      BY DEF Init
    <2>2. PICK strides \in [DOMAIN sizes -> Strides] :
             layout = [sizes |-> sizes, strides |-> strides, offset |-> offset]
      BY <2>1
    <2>3. layout.sizes = sizes /\ layout.strides = strides /\ layout.offset = offset
      BY <2>2
    <2>4. sizes \in Sizes /\ offset \in Nat /\ Strides \subseteq Nat
      BY SizesAssumption DEF Sizes, Positive
    <2>5. strides \in [DOMAIN sizes -> Nat]
      BY <2>4
    <2>6. viewed \in BOOLEAN
      BY DEF Init
    <2> QED
      BY <2>1, <2>3, <2>4, <2>5, <2>6 DEF Laid
  <1>4. PICK s \in Sizes, n \in Nat : s = Nest /\ n = Len(s) /\ DOMAIN s = 1..n
    <2>1. Nest \in Sizes
      BY <1>1, RangedSizes
    <2>2. Len(Nest) \in Nat /\ DOMAIN Nest = 1..Len(Nest)
      BY <2>1 DEF Sizes
    <2> QED
      BY <2>1, <2>2
  <1>5. index = [d \in 1..n |-> 0]
    BY <1>4 DEF Init
  <1>6. index \in Seq(Nat) /\ Len(index) = n /\ DOMAIN index = 1..n /\ \A d \in 1..n : index[d] = 0
    <2>1. index \in [1..n -> Nat]
      BY <1>5
    <2> QED
      BY <1>5, <2>1
  <1>7. Point(index, Nest)
    <2>1. \A d \in 1..n : 0 < s[d]
      BY <1>4 DEF Sizes, Positive
    <2> QED
      BY <1>4, <1>6, <2>1 DEF Point, Within
  <1>8. visited = <<>>
    BY DEF Init
  <1>9. Walking
    <2>1. Flatten(index, s) = 0
      BY <1>4, <1>6, FlattenFirst
    <2>2. Len(visited) = 0 /\ Product(s) \in Nat /\ 0 < Product(s)
      BY <1>8, ProductType DEF Positive
    <2> QED
      BY <1>4, <2>1, <2>2 DEF Walking
  <1>10. Recorded
    BY <1>8 DEF Recorded
  <1>11. \E S : visited \in Seq(S)
    <2>1. visited \in Seq({})
      BY <1>8
    <2> QED
      BY <2>1
  <1> QED
    BY <1>1, <1>2, <1>3, <1>7, <1>9, <1>10, <1>11 DEF WalkInv

(* What the iterations leave alone. *)
LEMMA Remains ==
    ASSUME UNCHANGED <<parent, active, lengths, layout, viewed>>
    PROVE  /\ Nest' = Nest /\ ChildSizes' = ChildSizes
           /\ Ranged' = Ranged /\ Splits' = Splits /\ Laid' = Laid
           /\ \A at : ChildAddress(at)' = ChildAddress(at)
           /\ \A address : MakeAccess(address)' = MakeAccess(address)
  <1>1. PointwiseSizes' = PointwiseSizes /\ ReductionSizes' = ReductionSizes /\ ChildSizes' = ChildSizes
    BY DEF PointwiseSizes, ReductionSizes, ChildSizes
  <1>2. Nest' = Nest /\ KernelGroups' = KernelGroups
    BY <1>1 DEF Nest, KernelGroups
  <1>3. Splits' = Splits
    <2>1. TilingMatches' = TilingMatches
      BY <1>2 DEF TilingMatches
    <2>2. Split' = Split
      BY <1>1, <1>2 DEF Split
    <2> QED
      BY <2>1, <2>2 DEF Splits
  <1>4. Ranged' = Ranged /\ Laid' = Laid
    BY <1>1 DEF Ranged, Laid
  <1>5. ASSUME NEW at PROVE ChildAddress(at)' = ChildAddress(at)
    BY <1>1 DEF ChildAddress, AddressOf
  <1>6. ASSUME NEW address PROVE MakeAccess(address)' = MakeAccess(address)
    <2>1. Contiguous' = Contiguous /\ ActiveDims' = ActiveDims
      BY DEF Contiguous, ActiveDims
    <2>2. \A d : SizesBefore(d)' = SizesBefore(d)
      BY DEF SizesBefore, SortedBefore
    <2>3. IsDense' = IsDense
      BY <2>1, <2>2 DEF IsDense
    <2>4. Linearized' = Linearized
      BY <1>1, <1>2, <2>1 DEF Linearized
    <2> QED
      BY <2>3, <2>4 DEF MakeAccess, Buffered
  <1> QED
    BY <1>1, <1>2, <1>3, <1>4, <1>5, <1>6

(* Every iteration keeps the invariant. *)
LEMMA WalkNext == WalkInv /\ [Next]_vars => WalkInv'
  <1> SUFFICES ASSUME WalkInv, [Next]_vars PROVE WalkInv'
    OBVIOUS
  <1>1. CASE UNCHANGED vars
    <2>1. UNCHANGED <<parent, active, lengths, layout, viewed>> /\ visited' = visited /\ index' = index
      BY <1>1 DEF vars
    <2>2. Ranged' /\ Splits' /\ Laid' /\ Nest' = Nest /\ ChildSizes' = ChildSizes
      BY <2>1, Remains DEF WalkInv
    <2>3. Point(index, Nest)' /\ Walking'
      BY <2>1, <2>2 DEF WalkInv, Walking
    <2>4. Recorded'
      BY <2>1, <2>2, Remains DEF WalkInv, Recorded
    <2>5. (\E S : visited \in Seq(S))'
      BY <2>1 DEF WalkInv
    <2> QED
      BY <2>2, <2>3, <2>4, <2>5 DEF WalkInv
  <1>2. CASE Iterate
    <2>1. UNCHANGED <<parent, active, lengths, layout, viewed>> /\ Len(visited) # Product(Nest)
      BY <1>2 DEF Iterate, Finished
    <2>2. Ranged' /\ Splits' /\ Laid' /\ Nest' = Nest /\ ChildSizes' = ChildSizes
      BY <2>1, Remains DEF WalkInv
    <2>3. PICK k \in Nat : k = Len(visited) /\ k < Product(Nest) /\ Flatten(index, Nest) = k
      <3>1. Len(visited) \in Nat
        BY DEF WalkInv
      <3> QED
        BY <2>1, <3>1 DEF WalkInv, Walking
    <2>4. Nest \in Sizes /\ Product(Nest) \in Nat /\ Point(index, Nest)
      BY RangedSizes, ProductType DEF WalkInv, Positive
    <2>5. MapChild(index) = Unflatten(k, ChildSizes)
      BY <2>3, <2>4, MapChildIs DEF WalkInv
    <2>6. PICK e : /\ e = [at |-> MapChild(index), address |-> ChildAddress(MapChild(index)),
                           access |-> MakeAccess(ChildAddress(MapChild(index)))]
                   /\ visited' = Append(visited, e)
      BY <1>2 DEF Iterate
    <2>7. e.at = Unflatten(k, ChildSizes) /\ e.address = ChildAddress(e.at) /\ e.access = MakeAccess(e.address)
      BY <2>5, <2>6
    <2>8. PICK S : visited \in Seq(S) /\ e \in S
      <3>1. PICK R : visited \in Seq(R)
        BY DEF WalkInv
      <3>2. visited \in Seq(R \cup {e}) /\ e \in R \cup {e}
        BY <3>1
      <3> QED
        BY <3>2
    <2>9. /\ visited' \in Seq(S) /\ Len(visited') = k + 1 /\ DOMAIN visited' = 1..(k + 1)
          /\ visited'[k + 1] = e /\ DOMAIN visited = 1..k /\ \A n \in 1..k : visited'[n] = visited[n]
      BY <2>3, <2>6, <2>8
    <2>10. Recorded'
      <3>1. ASSUME NEW n \in 1..(k + 1)
            PROVE  /\ visited'[n].at = Unflatten(n - 1, ChildSizes)
                   /\ visited'[n].address = ChildAddress(visited'[n].at)
                   /\ visited'[n].access = MakeAccess(visited'[n].address)
        <4>1. CASE n = k + 1
          <5>1. n - 1 = k /\ visited'[n] = e
            BY <2>9, <4>1
          <5> QED
            BY <2>7, <5>1
        <4>2. CASE n # k + 1
          <5>1. n \in DOMAIN visited /\ visited'[n] = visited[n]
            BY <2>9, <4>2
          <5> QED
            BY <5>1 DEF WalkInv, Recorded
        <4> QED
          BY <4>1, <4>2
      <3>2. PICK w : w = visited'
        OBVIOUS
      <3>3. \A n \in DOMAIN w :
               /\ w[n].at = Unflatten(n - 1, ChildSizes)
               /\ w[n].address = ChildAddress(w[n].at)'
               /\ w[n].access = MakeAccess(w[n].address)'
        BY <2>1, <2>9, <3>1, <3>2, Remains
      <3> QED
        BY <2>2, <3>2, <3>3 DEF Recorded
    <2>11. CASE LastIteration
      <3>1. index' = index
        BY <1>2, <2>11 DEF Iterate
      <3>2. k + 1 = Product(Nest)
        <4>1. index \in Seq(Nat) /\ Len(index) = Len(Nest) /\ DOMAIN index = DOMAIN Nest
          BY <2>4 DEF Point, Within, Sizes
        <4>2. \A d \in DOMAIN index : index[d] + 1 = Nest[d]
          BY <2>11, <4>1 DEF LastIteration
        <4> QED
          BY <2>3, <2>4, <4>1, <4>2, FlattenLast
      <3>3. Walking'
        BY <2>2, <2>9, <3>2 DEF Walking
      <3>4. Point(index, Nest)'
        BY <2>2, <2>4, <3>1
      <3> QED
        BY <2>2, <2>9, <2>10, <3>3, <3>4 DEF WalkInv
    <2>12. CASE ~LastIteration
      <3>1. index' = Following(index)
        BY <1>2, <2>12 DEF Iterate
      <3>2. Point(Following(index), Nest) /\ Flatten(Following(index), Nest) = k + 1
        <4>1. ~ \A d \in DOMAIN Nest : index[d] + 1 = Nest[d]
          BY <2>12 DEF LastIteration
        <4> QED
          BY <2>3, <2>4, <4>1, Follows
      <3>3. k + 1 < Product(Nest)
        BY <2>4, <3>2, FlattenBound
      <3>4. Walking'
        BY <2>2, <2>9, <3>1, <3>2, <3>3 DEF Walking
      <3>5. Point(index, Nest)'
        BY <2>2, <3>1, <3>2
      <3> QED
        BY <2>2, <2>9, <2>10, <3>4, <3>5 DEF WalkInv
    <2> QED
      BY <2>11, <2>12
  <1> QED
    BY <1>1, <1>2 DEF Next

(* The invariant holds in every state. *)
THEOREM WalkHolds == Spec => []WalkInv
  BY WalkInit, WalkNext, PTL DEF Spec

(* A child meets every point of its own ranges once, in its own order.     *)
LEMMA WalkPoints == WalkInv => EveryPointOnce
  <1> SUFFICES ASSUME WalkInv PROVE EveryPointOnce
    OBVIOUS
  <1>1. PICK s \in Sizes : s = ChildSizes
    BY RangedSizes DEF WalkInv
  <1>2. Product(s) = Product(Nest) /\ Product(s) \in Nat
    BY <1>1, MapChildIs, ProductType, SMTT(60) DEF WalkInv, Positive
  <1>3. PICK k \in Nat : k = Len(visited) /\ DOMAIN visited = 1..k /\ k <= Product(s)
    <2>1. Len(visited) \in Nat /\ DOMAIN visited = 1..Len(visited)
      BY DEF WalkInv
    <2>2. Len(visited) <= Product(s)
      BY <1>2, <2>1 DEF WalkInv, Walking
    <2> QED
      BY <2>1, <2>2
  <1>4. \A n \in 1..k : visited[n].at = Unflatten(n - 1, s)
    BY <1>1, <1>3 DEF WalkInv, Recorded
  <1>5. \A n \in DOMAIN visited : Within(visited[n].at, ChildSizes)
    <2>1. TAKE n \in DOMAIN visited
    <2>2. n - 1 \in Nat /\ visited[n].at = Unflatten(n - 1, s)
      BY <1>3, <1>4
    <2> QED
      BY <1>1, <2>2, UnflattenIs DEF Point
  <1>6. \A n \in 2..Len(visited) : Before(visited[n - 1].at, visited[n].at)
    <2>1. TAKE n \in 2..Len(visited)
    <2>2. PICK i \in Nat : i = n - 2 /\ n \in 1..k /\ n - 1 \in 1..k /\ (n - 1) - 1 = i /\ n - 1 = i + 1
             /\ i + 1 < Product(s)
      <3>1. n - 2 \in Nat
        BY <1>3
      <3> QED
        BY <1>2, <1>3, <3>1
    <2>3. visited[n - 1].at = Unflatten(i, s) /\ visited[n].at = Unflatten(i + 1, s)
      BY <1>4, <2>2
    <2> QED
      BY <2>2, <2>3, UnflattenBefore
  <1>7. Finished => Len(visited) = Product(ChildSizes)
    BY <1>1, <1>2 DEF Finished
  <1> QED
    BY <1>5, <1>6, <1>7 DEF EveryPointOnce

(* The loops of a region bring a child to every point of its own ranges    *)
(* exactly once and in its own order, whatever the sizes (_flatten,        *)
(* _unflatten, map_child).                                                 *)
THEOREM PointsAreMetOnce == Spec => []EveryPointOnce
  BY WalkHolds, WalkPoints, PTL

-----------------------------------------------------------------------------
(* Layouts without holes. *)

(* What Append makes. *)
LEMMA AppendIs ==
    ASSUME NEW V, NEW xs \in Seq(V), NEW x \in V
    PROVE  /\ Len(xs) \in Nat /\ DOMAIN xs = 1..Len(xs) /\ Append(xs, x) \in Seq(V)
           /\ Len(Append(xs, x)) = Len(xs) + 1 /\ DOMAIN Append(xs, x) = 1..(Len(xs) + 1)
           /\ Append(xs, x)[Len(xs) + 1] = x /\ \A d \in 1..Len(xs) : Append(xs, x)[d] = xs[d]
  OBVIOUS

(* What replacing an element makes. *)
LEMMA ReplacedIs ==
    ASSUME NEW V, NEW xs \in Seq(V), NEW e \in 1..Len(xs), NEW v \in V
    PROVE  /\ [xs EXCEPT ![e] = v] \in Seq(V) /\ Len([xs EXCEPT ![e] = v]) = Len(xs)
           /\ [xs EXCEPT ![e] = v][e] = v
           /\ \A d \in 1..Len(xs) : d # e => [xs EXCEPT ![e] = v][d] = xs[d]
  <1>1. PICK n \in Nat : n = Len(xs) /\ DOMAIN xs = 1..n /\ \A d \in 1..n : xs[d] \in V
    OBVIOUS
  <1>2. [xs EXCEPT ![e] = v] \in [1..n -> V]
    BY <1>1
  <1>3. [xs EXCEPT ![e] = v] \in Seq(V) /\ Len([xs EXCEPT ![e] = v]) = n
    BY <1>1, <1>2
  <1> QED
    BY <1>1, <1>3

(* One size in place of a one. *)
LEMMA ProductWith ==
    ASSUME NEW s \in Sizes, NEW e \in DOMAIN s, s[e] = 1, NEW x \in Positive
    PROVE  [s EXCEPT ![e] = x] \in Sizes /\ Product([s EXCEPT ![e] = x]) = Product(s) * x
  <1>1. PICK n \in Nat : n = Len(s) /\ DOMAIN s = 1..n
    BY DEF Sizes
  <1>2. PICK w \in Sizes : w = [s EXCEPT ![e] = x] /\ Len(w) = n /\ DOMAIN w = 1..n /\ w[e] = x
           /\ \A d \in 1..n : d # e => w[d] = s[d]
    <2>1. [s EXCEPT ![e] = x] \in [1..n -> Positive]
      BY <1>1 DEF Sizes
    <2>2. [s EXCEPT ![e] = x] \in Sizes /\ Len([s EXCEPT ![e] = x]) = n
      BY <1>1, <2>1 DEF Sizes
    <2> QED
      BY <1>1, <2>2
  <1>3. e \in 1..n /\ e \in 0..n /\ e - 1 \in 0..n
    BY <1>1
  <1>4. Inner(w, e) = Inner(s, e)
    <2>1. SubSeq(w, e + 1, n) = SubSeq(s, e + 1, n)
      BY <1>1, <1>2, <1>3 DEF Sizes
    <2> QED
      BY <1>1, <1>2, <2>1 DEF Inner
  <1>5. Outer(w, e - 1) = Outer(s, e - 1)
    <2>1. SubSeq(w, 1, e - 1) = SubSeq(s, 1, e - 1)
      BY <1>1, <1>2, <1>3 DEF Sizes
    <2> QED
      BY <2>1 DEF Outer
  <1>6. /\ Outer(s, e) * Inner(s, e) = Product(s) /\ Outer(w, e) * Inner(w, e) = Product(w)
        /\ Outer(s, e) = Outer(s, e - 1) * s[e] /\ Outer(w, e) = Outer(w, e - 1) * w[e]
        /\ Outer(s, e - 1) \in Positive /\ Inner(s, e) \in Positive
    BY <1>1, <1>2, <1>3, Radix
  <1>7. PICK a \in Nat, b \in Nat, y \in Nat : a = Outer(s, e - 1) /\ b = Inner(s, e) /\ y = x
    BY <1>6 DEF Positive
  <1>8. (a * y) * b = ((a * 1) * b) * y
    OBVIOUS
  <1> QED
    BY <1>2, <1>4, <1>5, <1>6, <1>7, <1>8

(* The product of ones. *)
LEMMA ProductOnes ==
    ASSUME NEW s \in Sizes, \A d \in DOMAIN s : s[d] = 1
    PROVE  Product(s) = 1
  <1> DEFINE P == {xs \in Sizes : (\A d \in DOMAIN xs : xs[d] = 1) => Product(xs) = 1}
  <1>1. <<>> \in P
    BY ProductEmpty DEF Sizes
  <1>2. ASSUME NEW xs \in Sizes, NEW x \in Positive, xs \in P
        PROVE  Append(xs, x) \in P
    <2>1. PICK n \in Nat : n = Len(xs) /\ DOMAIN xs = 1..n
             /\ Append(xs, x) \in Sizes /\ DOMAIN Append(xs, x) = 1..(n + 1)
             /\ Append(xs, x)[n + 1] = x /\ \A d \in 1..n : Append(xs, x)[d] = xs[d]
      BY DEF Sizes
    <2>2. ASSUME \A d \in 1..(n + 1) : Append(xs, x)[d] = 1
          PROVE  Product(Append(xs, x)) = 1
      <3>1. x = 1 /\ \A d \in 1..n : xs[d] = 1
        <4>1. n + 1 \in 1..(n + 1) /\ \A d \in 1..n : d \in 1..(n + 1)
          OBVIOUS
        <4> QED
          BY <2>1, <2>2, <4>1
      <3>2. Product(xs) = 1
        BY <1>2, <2>1, <3>1
      <3> QED
        BY <3>1, <3>2, ProductAppend
    <2> QED
      BY <2>1, <2>2
  <1> HIDE DEF P
  <1>3. \A xs \in Seq(Positive) : xs \in P
    BY <1>1, <1>2, SequencesAreBuilt DEF Sizes
  <1> QED
    BY <1>3 DEF P, Sizes

(* One number more. *)
LEMMA TotalAppend ==
    ASSUME NEW xs \in Seq(Nat), NEW x \in Nat, Total(xs) \in Nat
    PROVE  Total(Append(xs, x)) = Total(xs) + x
  <1> DEFINE f == [p \in Nat \X Nat |-> p[1] + p[2]]
  <1>1. Total(Append(xs, x)) = f[<<Total(xs), x>>]
    BY FoldAppend DEF Total
  <1> QED
    BY <1>1

(* The total of natural numbers is one. *)
LEMMA TotalType ==
    ASSUME NEW xs \in Seq(Nat)
    PROVE  Total(xs) \in Nat
  <1> DEFINE P == {ys \in Seq(Nat) : Total(ys) \in Nat}
  <1>1. <<>> \in P
    BY FoldEmpty DEF Total
  <1>2. ASSUME NEW ys \in Seq(Nat), NEW x \in Nat, ys \in P
        PROVE  Append(ys, x) \in P
    <2>1. Total(Append(ys, x)) = Total(ys) + x /\ Total(ys) \in Nat
      BY <1>2, TotalAppend
    <2> QED
      BY <2>1
  <1> HIDE DEF P
  <1>3. \A ys \in Seq(Nat) : ys \in P
    BY <1>1, <1>2, SequencesAreBuilt
  <1> QED
    BY <1>3 DEF P

(* The total of zeros. *)
LEMMA TotalZeros ==
    ASSUME NEW xs \in Seq(Nat), \A d \in DOMAIN xs : xs[d] = 0
    PROVE  Total(xs) = 0
  <1> DEFINE P == {ys \in Seq(Nat) : (\A d \in DOMAIN ys : ys[d] = 0) => Total(ys) = 0}
  <1>1. <<>> \in P
    BY FoldEmpty DEF Total
  <1>2. ASSUME NEW ys \in Seq(Nat), NEW x \in Nat, ys \in P
        PROVE  Append(ys, x) \in P
    <2>1. PICK n \in Nat : n = Len(ys) /\ DOMAIN ys = 1..n
             /\ Append(ys, x) \in Seq(Nat) /\ DOMAIN Append(ys, x) = 1..(n + 1)
             /\ Append(ys, x)[n + 1] = x /\ \A d \in 1..n : Append(ys, x)[d] = ys[d]
      BY AppendIs
    <2>2. ASSUME \A d \in 1..(n + 1) : Append(ys, x)[d] = 0
          PROVE  Total(Append(ys, x)) = 0
      <3>1. x = 0 /\ \A d \in 1..n : ys[d] = 0
        <4>1. n + 1 \in 1..(n + 1) /\ \A d \in 1..n : d \in 1..(n + 1)
          OBVIOUS
        <4> QED
          BY <2>1, <2>2, <4>1
      <3>2. Total(ys) = 0
        BY <1>2, <2>1, <3>1
      <3> QED
        BY <3>1, <3>2, TotalAppend
    <2> QED
      BY <2>1, <2>2
  <1> HIDE DEF P
  <1>3. \A ys \in Seq(Nat) : ys \in P
    BY <1>1, <1>2, SequencesAreBuilt
  <1> QED
    BY <1>3 DEF P

(* One number in place of a zero. *)
LEMMA TotalWith ==
    ASSUME NEW xs \in Seq(Nat), NEW e \in DOMAIN xs, xs[e] = 0, NEW y \in Nat
    PROVE  Total([xs EXCEPT ![e] = y]) = Total(xs) + y
  <1> DEFINE Holds(zs) == \A d \in DOMAIN zs : \A v \in Nat :
                zs[d] = 0 => Total([zs EXCEPT ![d] = v]) = Total(zs) + v
             P == {zs \in Seq(Nat) : Holds(zs)}
  <1>1. <<>> \in P
    OBVIOUS
  <1>2. ASSUME NEW zs \in Seq(Nat), NEW x \in Nat, zs \in P
        PROVE  Append(zs, x) \in P
    <2> DEFINE more == Append(zs, x)
    <2>1. PICK n \in Nat : /\ n = Len(zs) /\ DOMAIN zs = 1..n /\ more \in Seq(Nat)
             /\ Len(more) = n + 1 /\ DOMAIN more = 1..(n + 1)
             /\ more[n + 1] = x /\ \A d \in 1..n : more[d] = zs[d]
      BY AppendIs
    <2> HIDE DEF more
    <2>2. ASSUME NEW d \in 1..(n + 1), NEW v \in Nat, more[d] = 0
          PROVE  Total([more EXCEPT ![d] = v]) = Total(more) + v
      <3> DEFINE w == [more EXCEPT ![d] = v]
      <3>1. w \in Seq(Nat) /\ Len(w) = n + 1 /\ w[d] = v
               /\ \A i \in 1..(n + 1) : i # d => w[i] = more[i]
        BY <2>1, ReplacedIs
      <3> HIDE DEF w
      <3>2. Total(zs) \in Nat /\ Total(more) = Total(zs) + x
        BY <2>1, TotalType, TotalAppend DEF more
      <3>3. CASE d = n + 1
        <4>1. w = Append(zs, v)
          <5>1. Append(zs, v) \in Seq(Nat) /\ Len(Append(zs, v)) = n + 1
            BY <2>1
          <5>2. \A i \in 1..(n + 1) : Append(zs, v)[i] = w[i]
            <6>1. TAKE i \in 1..(n + 1)
            <6>2. CASE i = n + 1
              BY <2>1, <3>1, <3>3, <6>2
            <6>3. CASE i # n + 1
              <7>1. i \in 1..n
                BY <6>3
              <7> QED
                BY <2>1, <3>1, <3>3, <6>3, <7>1
            <6> QED
              BY <6>2, <6>3
          <5> QED
            BY <3>1, <5>1, <5>2, SeqEqual
        <4>2. Total(w) = Total(zs) + v
          BY <3>2, <4>1, TotalAppend
        <4> QED
          BY <2>1, <2>2, <3>1, <3>2, <3>3, <4>2 DEF w
      <3>4. CASE d # n + 1
        <4>1. d \in 1..n /\ zs[d] = 0
          BY <2>1, <2>2, <3>4
        <4> DEFINE u == [zs EXCEPT ![d] = v]
        <4>2. u \in Seq(Nat) /\ Len(u) = n /\ u[d] = v
                 /\ \A i \in 1..n : i # d => u[i] = zs[i]
          BY <2>1, <4>1, ReplacedIs
        <4>3. Total(u) = Total(zs) + v /\ Total(u) \in Nat
          BY <1>2, <2>1, <4>1, <4>2, TotalType
        <4> HIDE DEF u
        <4>4. w = Append(u, x)
          <5>1. Append(u, x) \in Seq(Nat) /\ Len(Append(u, x)) = n + 1
            BY <4>2
          <5>2. \A i \in 1..(n + 1) : Append(u, x)[i] = w[i]
            <6>1. TAKE i \in 1..(n + 1)
            <6>2. CASE i = n + 1
              <7>1. Append(u, x)[i] = x
                BY <4>2, <6>2
              <7>2. w[i] = more[i]
                BY <3>1, <3>4, <6>2
              <7> QED
                BY <2>1, <6>2, <7>1, <7>2
            <6>3. CASE i # n + 1
              <7>1. i \in 1..n /\ Append(u, x)[i] = u[i]
                BY <4>2, <6>3
              <7> QED
                BY <2>1, <3>1, <4>2, <7>1
            <6> QED
              BY <6>2, <6>3
          <5> QED
            BY <3>1, <5>1, <5>2, SeqEqual
        <4>5. Total(w) = Total(u) + x
          BY <4>2, <4>3, <4>4, TotalAppend
        <4> QED
          BY <3>1, <3>2, <4>3, <4>5 DEF w
      <3> QED
        BY <3>3, <3>4
    <2> QED
      BY <2>1, <2>2 DEF more
  <1> HIDE DEF P, Holds
  <1>3. \A zs \in Seq(Nat) : zs \in P
    BY <1>1, <1>2, SequencesAreBuilt
  <1>4. Holds(xs)
    BY <1>3 DEF P
  <1> QED
    BY <1>4 DEF Holds

(* The sizes of the dimensions with keys below k, and their part of a sum. *)
MaskOf(s, key, k) == [d \in DOMAIN s |-> IF key[d] < k THEN s[d] ELSE 1]
PartOf(x, key, k) == [d \in DOMAIN x |-> IF key[d] < k THEN x[d] ELSE 0]

(* The dimensions have different keys. *)
Keys(key, n) ==
    key \in [1..n -> Nat] /\ \A d, e \in 1..n : key[d] = key[e] => d = e

(* A mask is a sequence of sizes. *)
LEMMA MaskType ==
    ASSUME NEW n \in Nat, NEW s \in Sizes, Len(s) = n, NEW key, NEW k \in Nat
    PROVE  /\ MaskOf(s, key, k) \in Sizes /\ Len(MaskOf(s, key, k)) = n
           /\ \A d \in 1..n : MaskOf(s, key, k)[d] = IF key[d] < k THEN s[d] ELSE 1
  <1>1. DOMAIN s = 1..n /\ \A d \in 1..n : s[d] \in Positive
    BY DEF Sizes
  <1>2. 1 \in Positive
    BY DEF Positive
  <1>3. MaskOf(s, key, k) \in [1..n -> Positive]
    BY <1>1, <1>2 DEF MaskOf
  <1>4. MaskOf(s, key, k) \in Seq(Positive) /\ Len(MaskOf(s, key, k)) = n
    <2>1. \A w : w \in [1..n -> Positive] => w \in Seq(Positive) /\ Len(w) = n
      OBVIOUS
    <2> QED
      BY <1>3, <2>1
  <1> QED
    BY <1>1, <1>4 DEF MaskOf, Sizes

(* A part is a sequence of numbers. *)
LEMMA PartType ==
    ASSUME NEW n \in Nat, NEW x \in Seq(Nat), Len(x) = n, NEW key, NEW k \in Nat
    PROVE  /\ PartOf(x, key, k) \in Seq(Nat) /\ Len(PartOf(x, key, k)) = n
           /\ \A d \in 1..n : PartOf(x, key, k)[d] = IF key[d] < k THEN x[d] ELSE 0
  <1>1. DOMAIN x = 1..n /\ \A d \in 1..n : x[d] \in Nat
    OBVIOUS
  <1>2. PartOf(x, key, k) \in [1..n -> Nat]
    BY <1>1 DEF PartOf
  <1>3. PartOf(x, key, k) \in Seq(Nat) /\ Len(PartOf(x, key, k)) = n
    <2>1. \A w : w \in [1..n -> Nat] => w \in Seq(Nat) /\ Len(w) = n
      OBVIOUS
    <2> QED
      BY <1>2, <2>1
  <1> QED
    BY <1>1, <1>3 DEF PartOf

(* Above all keys there is everything. *)
LEMMA MaskEnds ==
    ASSUME NEW n \in Nat, NEW s \in Sizes, Len(s) = n, NEW x \in Seq(Nat), Len(x) = n,
           NEW key, NEW k \in Nat, \A d \in 1..n : key[d] < k
    PROVE  MaskOf(s, key, k) = s /\ PartOf(x, key, k) = x
  <1>1. MaskOf(s, key, k) = s
    BY MaskType, SeqEqual DEF Sizes
  <1>2. PartOf(x, key, k) = x
    BY PartType, SeqEqual
  <1> QED
    BY <1>1, <1>2

(* Below all keys there is nothing. *)
LEMMA MaskStarts ==
    ASSUME NEW n \in Nat, NEW s \in Sizes, Len(s) = n, NEW x \in Seq(Nat), Len(x) = n,
           NEW key, Keys(key, n)
    PROVE  Product(MaskOf(s, key, 0)) = 1 /\ Total(PartOf(x, key, 0)) = 0
  <1>1. /\ MaskOf(s, key, 0) \in Sizes /\ Len(MaskOf(s, key, 0)) = n
        /\ PartOf(x, key, 0) \in Seq(Nat) /\ Len(PartOf(x, key, 0)) = n
        /\ \A d \in 1..n : MaskOf(s, key, 0)[d] = 1 /\ PartOf(x, key, 0)[d] = 0
    <2>1. \A d \in 1..n : ~(key[d] < 0)
      BY DEF Keys
    <2>2. PICK z \in Nat : z = 0
      OBVIOUS
    <2>3. /\ MaskOf(s, key, z) \in Sizes /\ Len(MaskOf(s, key, z)) = n
          /\ PartOf(x, key, z) \in Seq(Nat) /\ Len(PartOf(x, key, z)) = n
          /\ \A d \in 1..n : /\ MaskOf(s, key, z)[d] = (IF key[d] < z THEN s[d] ELSE 1)
                             /\ PartOf(x, key, z)[d] = (IF key[d] < z THEN x[d] ELSE 0)
      BY MaskType, PartType
    <2> QED
      BY <2>1, <2>2, <2>3
  <1>2. Product(MaskOf(s, key, 0)) = 1
    <2>1. DOMAIN MaskOf(s, key, 0) = 1..n
      BY <1>1 DEF Sizes
    <2> QED
      BY <1>1, <2>1, ProductOnes
  <1>3. Total(PartOf(x, key, 0)) = 0
    <2>1. DOMAIN PartOf(x, key, 0) = 1..n
      BY <1>1
    <2> QED
      BY <1>1, <2>1, TotalZeros
  <1> QED
    BY <1>2, <1>3

(* No dimension has the next key. *)
LEMMA MaskSame ==
    ASSUME NEW n \in Nat, NEW s \in Sizes, Len(s) = n, NEW x \in Seq(Nat), Len(x) = n,
           NEW key, Keys(key, n), NEW k \in Nat, \A d \in 1..n : key[d] # k
    PROVE  MaskOf(s, key, k + 1) = MaskOf(s, key, k) /\ PartOf(x, key, k + 1) = PartOf(x, key, k)
  <1>1. DOMAIN s = 1..n /\ DOMAIN x = 1..n
    BY DEF Sizes
  <1>2. \A d \in 1..n : key[d] < k + 1 <=> key[d] < k
    BY DEF Keys
  <1> QED
    BY <1>1, <1>2 DEF MaskOf, PartOf

(* One dimension has the next key. *)
LEMMA MaskMore ==
    ASSUME NEW n \in Nat, NEW s \in Sizes, Len(s) = n, NEW x \in Seq(Nat), Len(x) = n,
           NEW key, Keys(key, n), NEW e \in 1..n
    PROVE  /\ Product(MaskOf(s, key, key[e] + 1)) = Product(MaskOf(s, key, key[e])) * s[e]
           /\ Total(PartOf(x, key, key[e] + 1)) = Total(PartOf(x, key, key[e])) + x[e]
  <1>1. PICK k \in Nat : k = key[e]
    BY DEF Keys
  <1>2. DOMAIN s = 1..n /\ DOMAIN x = 1..n /\ s[e] \in Positive /\ x[e] \in Nat
    BY DEF Sizes
  <1>3. \A d \in 1..n : d # e => (key[d] < k + 1 <=> key[d] < k)
    <2>1. TAKE d \in 1..n
    <2>2. d # e => key[d] # k
      BY <1>1 DEF Keys
    <2>3. key[d] \in Nat
      BY DEF Keys
    <2> QED
      BY <2>2, <2>3
  <1>4. key[e] < k + 1 /\ ~(key[e] < k)
    BY <1>1
  <1> DEFINE m == MaskOf(s, key, k)
             p == PartOf(x, key, k)
  <1>5. /\ m \in Sizes /\ Len(m) = n /\ m[e] = 1 /\ DOMAIN m = 1..n
        /\ p \in Seq(Nat) /\ Len(p) = n /\ p[e] = 0 /\ DOMAIN p = 1..n
    <2>1. /\ m \in Sizes /\ Len(m) = n /\ p \in Seq(Nat) /\ Len(p) = n /\ m[e] = 1 /\ p[e] = 0
      <3>1. /\ MaskOf(s, key, k) \in Sizes /\ Len(MaskOf(s, key, k)) = n
            /\ PartOf(x, key, k) \in Seq(Nat) /\ Len(PartOf(x, key, k)) = n
            /\ MaskOf(s, key, k)[e] = (IF key[e] < k THEN s[e] ELSE 1)
            /\ PartOf(x, key, k)[e] = (IF key[e] < k THEN x[e] ELSE 0)
        BY MaskType, PartType
      <3> QED
        BY <1>4, <3>1
    <2> HIDE DEF m, p
    <2> QED
      BY <2>1 DEF Sizes
  <1>6. MaskOf(s, key, k + 1) = [m EXCEPT ![e] = s[e]]
    BY <1>2, <1>3, <1>4 DEF MaskOf
  <1>7. PartOf(x, key, k + 1) = [p EXCEPT ![e] = x[e]]
    BY <1>2, <1>3, <1>4 DEF PartOf
  <1> HIDE DEF m, p
  <1>8. Product([m EXCEPT ![e] = s[e]]) = Product(m) * s[e]
    BY <1>2, <1>5, ProductWith
  <1>9. Total([p EXCEPT ![e] = x[e]]) = Total(p) + x[e]
    BY <1>2, <1>5, TotalWith
  <1> QED
    BY <1>1, <1>6, <1>7, <1>8, <1>9 DEF m, p

(* There is a number above all keys. *)
LEMMA KeysBounded ==
    ASSUME NEW n \in Nat, NEW key, Keys(key, n)
    PROVE  \E k \in Nat : \A d \in 1..n : key[d] < k
  <1> DEFINE T == {m \in 0..n : \E k \in Nat : \A d \in 1..m : key[d] < k}
  <1>1. 0 \in T
    OBVIOUS
  <1>2. ASSUME NEW m \in 1..n, m - 1 \in T PROVE m \in T
    <2>1. PICK k \in Nat : \A d \in 1..(m - 1) : key[d] < k
      BY <1>2
    <2>2. key[m] \in Nat /\ \A d \in 1..m : key[d] \in Nat
      BY DEF Keys
    <2>3. k + key[m] + 1 \in Nat
      BY <2>2
    <2>4. \A d \in 1..m : key[d] < k + key[m] + 1
      <3>1. TAKE d \in 1..m
      <3>2. CASE d = m
        BY <2>2, <3>2
      <3>3. CASE d # m
        <4>1. d \in 1..(m - 1)
          BY <3>3
        <4> QED
          BY <2>1, <2>2, <4>1
      <3> QED
        BY <3>2, <3>3
    <2> QED
      BY <2>3, <2>4
  <1> HIDE DEF T
  <1>3. \A m \in 0..n : m \in T
    BY <1>1, <1>2, UpTo
  <1> QED
    BY <1>3 DEF T

(* The dimensions are ordered by keys, and the stride of each is the      *)
(* product of the sizes before it.                                         *)
Ordered(s, t, key) ==
    /\ Keys(key, Len(s)) /\ t \in [DOMAIN s -> Nat]
    /\ \A e \in DOMAIN s : s[e] # 1 => t[e] = Product(MaskOf(s, key, key[e]))

(* What a dimension adds to an address. *)
LEMMA TermType ==
    ASSUME NEW n \in Nat, NEW s \in Sizes, Len(s) = n, NEW t \in [DOMAIN s -> Nat],
           NEW c, DOMAIN c = 1..n, \A d \in 1..n : c[d] \in Nat
    PROVE  /\ [d \in DOMAIN c |-> t[d] * c[d]] \in Seq(Nat)
           /\ Len([d \in DOMAIN c |-> t[d] * c[d]]) = n
           /\ \A d \in 1..n : [i \in DOMAIN c |-> t[i] * c[i]][d] = t[d] * c[d]
  <1>1. DOMAIN s = 1..n
    BY DEF Sizes
  <1>2. \A d \in 1..n : t[d] * c[d] \in Nat
    <2>1. TAKE d \in 1..n
    <2>2. t[d] \in Nat /\ c[d] \in Nat
      BY <1>1
    <2> QED
      BY <2>2, Multiplied
  <1> DEFINE x == [d \in DOMAIN c |-> t[d] * c[d]]
  <1>3. x \in [1..n -> Nat]
    BY <1>2
  <1>4. \A d \in 1..n : x[d] = t[d] * c[d]
    OBVIOUS
  <1> HIDE DEF x
  <1>5. x \in Seq(Nat) /\ Len(x) = n
    BY <1>3
  <1> QED
    BY <1>4, <1>5 DEF x

(* Along the order of the strides, the coordinates make up the address.    *)
LEMMA Decomposed ==
    ASSUME NEW s \in Sizes, NEW t, NEW key, Ordered(s, t, key), NEW f \in Nat, f < Product(s),
           NEW c, c = [d \in DOMAIN s |-> IF s[d] = 1 THEN 0 ELSE Modular(f, t[d], s[d])]
    PROVE  Point(c, s) /\ Total([d \in DOMAIN c |-> t[d] * c[d]]) = f
  <1>1. PICK n \in Nat : n = Len(s) /\ DOMAIN s = 1..n
    BY DEF Sizes
  <1>2. t \in [DOMAIN s -> Nat] /\ Keys(key, n)
    BY <1>1 DEF Ordered
  <1>3. ASSUME NEW e \in 1..n, s[e] # 1
        PROVE  /\ key[e] \in Nat /\ t[e] = Product(MaskOf(s, key, key[e])) /\ t[e] \in Positive
               /\ c[e] = (f \div t[e]) % s[e] /\ c[e] \in Nat /\ c[e] < s[e]
    <2>1. key[e] \in Nat
      BY <1>2 DEF Keys
    <2>2. t[e] = Product(MaskOf(s, key, key[e]))
      BY <1>1, <1>3 DEF Ordered
    <2>3. MaskOf(s, key, key[e]) \in Sizes
      BY <1>1, <2>1, MaskType
    <2>4. t[e] \in Positive
      BY <2>2, <2>3, ProductType
    <2>5. c[e] = (f \div t[e]) % s[e]
      BY <1>1, <1>3 DEF Modular
    <2>6. f \div t[e] \in Nat /\ s[e] \in Positive
      <3>1. s[e] \in Positive
        BY <1>1 DEF Sizes
      <3> QED
        BY <2>4, <3>1, Divides
    <2> QED
      BY <2>1, <2>2, <2>4, <2>5, <2>6, Divides
  <1>4. ASSUME NEW e \in 1..n, s[e] = 1
        PROVE  c[e] = 0
    BY <1>1, <1>4
  <1>5. \A d \in 1..n : c[d] \in Nat /\ c[d] < s[d]
    <2>1. TAKE d \in 1..n
    <2> QED
      BY <1>3, <1>4
  <1>6. DOMAIN c = 1..n
    BY <1>1
  <1>7. c \in Seq(Nat) /\ Len(c) = n
    <2>1. c = [d \in 1..n |-> c[d]]
      BY <1>1
    <2>2. c \in [1..n -> Nat]
      BY <1>5, <2>1
    <2> QED
      BY <2>2
  <1>8. Point(c, s)
    BY <1>1, <1>5, <1>6, <1>7 DEF Point, Within
  <1> DEFINE x == [d \in DOMAIN c |-> t[d] * c[d]]
  <1>9. x \in Seq(Nat) /\ Len(x) = n /\ \A d \in 1..n : x[d] = t[d] * c[d]
    BY <1>1, <1>2, <1>5, <1>6, TermType
  <1> HIDE DEF x
  <1>10. PICK k \in Nat : \A d \in 1..n : key[d] < k
    BY <1>2, KeysBounded
  <1> DEFINE T == {i \in 0..k : Total(PartOf(x, key, i)) = f % Product(MaskOf(s, key, i))}
  <1>11. 0 \in T
    <2>1. Product(MaskOf(s, key, 0)) = 1 /\ Total(PartOf(x, key, 0)) = 0
      BY <1>1, <1>2, <1>9, MaskStarts
    <2>2. f % 1 = 0
      <3>1. f = f * 1 + 0 /\ 1 \in Positive
        BY DEF Positive
      <3> QED
        BY <3>1, DividesIs
    <2>3. 0 \in 0..k
      OBVIOUS
    <2> QED
      BY <2>1, <2>2, <2>3
  <1>12. ASSUME NEW i \in 1..k, i - 1 \in T PROVE i \in T
    <2>1. PICK j \in Nat : j = i - 1 /\ i = j + 1 /\ i \in 0..k
      <3>1. i - 1 \in Nat
        OBVIOUS
      <3> QED
        BY <3>1
    <2>2. Total(PartOf(x, key, j)) = f % Product(MaskOf(s, key, j))
      BY <1>12, <2>1
    <2>3. CASE \A d \in 1..n : key[d] # j
      <3>1. MaskOf(s, key, j + 1) = MaskOf(s, key, j) /\ PartOf(x, key, j + 1) = PartOf(x, key, j)
        BY <1>1, <1>2, <1>9, <2>3, MaskSame
      <3> QED
        BY <2>1, <2>2, <3>1
    <2>4. CASE \E d \in 1..n : key[d] = j
      <3>1. PICK e \in 1..n : key[e] = j
        BY <2>4
      <3>2. /\ Product(MaskOf(s, key, j + 1)) = Product(MaskOf(s, key, j)) * s[e]
            /\ Total(PartOf(x, key, j + 1)) = Total(PartOf(x, key, j)) + x[e]
        <4>1. /\ Product(MaskOf(s, key, key[e] + 1)) = Product(MaskOf(s, key, key[e])) * s[e]
              /\ Total(PartOf(x, key, key[e] + 1)) = Total(PartOf(x, key, key[e])) + x[e]
          BY <1>1, <1>2, <1>9, MaskMore
        <4> QED
          BY <3>1, <4>1
      <3>3. MaskOf(s, key, j) \in Sizes
        BY <1>1, MaskType
      <3>4. PICK a \in Positive, b \in Positive : a = Product(MaskOf(s, key, j)) /\ b = s[e]
        <4>1. s[e] \in Positive
          BY <1>1 DEF Sizes
        <4> QED
          BY <3>3, <4>1, ProductType
      <3>5. f % (a * b) = (f % a) + x[e]
        <4>1. CASE b = 1
          <5>1. x[e] = t[e] * 0 /\ t[e] \in Nat
            BY <1>1, <1>2, <1>4, <1>9, <3>4, <4>1
          <5>2. a * b = a /\ x[e] = 0
            BY <4>1, <5>1 DEF Positive
          <5>3. f % a \in Nat
            BY Divides
          <5> QED
            BY <5>2, <5>3
        <4>2. CASE b # 1
          <5>1. t[e] = a /\ c[e] = (f \div a) % b /\ x[e] = a * c[e] /\ c[e] \in Nat
            BY <1>3, <1>9, <3>1, <3>4, <4>2
          <5>2. f % (a * b) = ((f \div a) % b) * a + (f % a)
            BY DividesTwice
          <5>3. c[e] * a = a * c[e] /\ a * c[e] \in Nat /\ f % a \in Nat
            <6>1. f % a \in Nat
              BY Divides
            <6>2. PICK y \in Nat : y = c[e]
              BY <5>1
            <6>3. y * a = a * y /\ a * y \in Nat
              BY DEF Positive
            <6> QED
              BY <6>1, <6>2, <6>3
          <5> QED
            BY <5>1, <5>2, <5>3
        <4> QED
          BY <4>1, <4>2
      <3> QED
        BY <2>1, <2>2, <3>2, <3>4, <3>5
    <2> QED
      BY <2>3, <2>4
  <1> HIDE DEF T
  <1>13. \A i \in 0..k : i \in T
    BY <1>11, <1>12, UpTo
  <1>14. Total(PartOf(x, key, k)) = f % Product(MaskOf(s, key, k))
    BY <1>13 DEF T
  <1>15. MaskOf(s, key, k) = s /\ PartOf(x, key, k) = x
    BY <1>1, <1>2, <1>9, <1>10, MaskEnds
  <1>16. f % Product(s) = f
    <2>1. Product(s) \in Positive /\ f = 0 * Product(s) + f
      BY ProductType DEF Positive
    <2> QED
      BY <2>1, DividesIs
  <1> QED
    BY <1>8, <1>14, <1>15, <1>16 DEF x

(* The address of a point is less than the number of elements.             *)
LEMMA AddressBound ==
    ASSUME NEW s \in Sizes, NEW t, NEW key, Ordered(s, t, key), NEW c, Point(c, s)
    PROVE  /\ Total([d \in DOMAIN c |-> t[d] * c[d]]) \in Nat
           /\ Total([d \in DOMAIN c |-> t[d] * c[d]]) < Product(s)
  <1>1. PICK n \in Nat : n = Len(s) /\ DOMAIN s = 1..n
    BY DEF Sizes
  <1>2. t \in [DOMAIN s -> Nat] /\ Keys(key, n)
    BY <1>1 DEF Ordered
  <1>3. DOMAIN c = 1..n /\ \A d \in 1..n : c[d] \in Nat /\ c[d] < s[d]
    BY <1>1 DEF Point, Within
  <1> DEFINE x == [d \in DOMAIN c |-> t[d] * c[d]]
  <1>4. x \in Seq(Nat) /\ Len(x) = n /\ \A d \in 1..n : x[d] = t[d] * c[d]
    BY <1>1, <1>2, <1>3, TermType
  <1> HIDE DEF x
  <1>5. PICK k \in Nat : \A d \in 1..n : key[d] < k
    BY <1>2, KeysBounded
  <1> DEFINE T == {i \in 0..k : Total(PartOf(x, key, i)) < Product(MaskOf(s, key, i))}
  <1>6. 0 \in T
    <2>1. Product(MaskOf(s, key, 0)) = 1 /\ Total(PartOf(x, key, 0)) = 0
      BY <1>1, <1>2, <1>4, MaskStarts
    <2>2. 0 \in 0..k
      OBVIOUS
    <2> QED
      BY <2>1, <2>2
  <1>7. ASSUME NEW i \in 1..k, i - 1 \in T PROVE i \in T
    <2>1. PICK j \in Nat : j = i - 1 /\ i = j + 1 /\ i \in 0..k
      <3>1. i - 1 \in Nat
        OBVIOUS
      <3> QED
        BY <3>1
    <2>2. Total(PartOf(x, key, j)) < Product(MaskOf(s, key, j))
      BY <1>7, <2>1
    <2>3. CASE \A d \in 1..n : key[d] # j
      <3>1. MaskOf(s, key, j + 1) = MaskOf(s, key, j) /\ PartOf(x, key, j + 1) = PartOf(x, key, j)
        BY <1>1, <1>2, <1>4, <2>3, MaskSame
      <3> QED
        BY <2>1, <2>2, <3>1
    <2>4. CASE \E d \in 1..n : key[d] = j
      <3>1. PICK e \in 1..n : key[e] = j
        BY <2>4
      <3>2. /\ Product(MaskOf(s, key, j + 1)) = Product(MaskOf(s, key, j)) * s[e]
            /\ Total(PartOf(x, key, j + 1)) = Total(PartOf(x, key, j)) + x[e]
        <4>1. /\ Product(MaskOf(s, key, key[e] + 1)) = Product(MaskOf(s, key, key[e])) * s[e]
              /\ Total(PartOf(x, key, key[e] + 1)) = Total(PartOf(x, key, key[e])) + x[e]
          BY <1>1, <1>2, <1>4, MaskMore
        <4> QED
          BY <3>1, <4>1
      <3>3. MaskOf(s, key, j) \in Sizes /\ PartOf(x, key, j) \in Seq(Nat)
        BY <1>1, <1>4, MaskType, PartType
      <3>4. PICK a \in Positive, b \in Positive, p \in Nat :
               a = Product(MaskOf(s, key, j)) /\ b = s[e] /\ p = Total(PartOf(x, key, j)) /\ p < a
        <4>1. s[e] \in Positive
          BY <1>1 DEF Sizes
        <4> QED
          BY <2>2, <3>3, <4>1, ProductType, TotalType
      <3>5. PICK y \in Nat : y = c[e] /\ y < b
        BY <1>3, <3>4
      <3>6. p + x[e] < a * b
        <4>1. CASE b = 1
          <5>1. y = 0
            BY <3>5, <4>1
          <5>2. x[e] = t[e] * 0 /\ t[e] \in Nat
            BY <1>1, <1>2, <1>4, <3>5, <5>1
          <5>3. a * b = a /\ x[e] = 0
            BY <4>1, <5>2 DEF Positive
          <5> QED
            BY <3>4, <5>3
        <4>2. CASE b # 1
          <5>1. t[e] = a
            BY <1>1, <3>1, <3>4, <4>2 DEF Ordered
          <5>2. x[e] = y * a /\ a \in Nat /\ b \in Nat /\ y * a \in Nat
            <6>1. x[e] = a * y
              BY <1>4, <3>5, <5>1
            <6>2. a * y = y * a /\ y * a \in Nat
              BY DEF Positive
            <6> QED
              BY <6>1, <6>2 DEF Positive
          <5>3. (y + 1) * a <= b * a
            BY <3>5, <5>2, MultipliedGrows
          <5>4. (y + 1) * a = y * a + a /\ b * a = a * b /\ a * b \in Nat
            BY <5>2
          <5> QED
            BY <3>4, <5>2, <5>3, <5>4
        <4> QED
          BY <4>1, <4>2
      <3> QED
        BY <2>1, <3>2, <3>4, <3>6
    <2> QED
      BY <2>3, <2>4
  <1> HIDE DEF T
  <1>8. \A i \in 0..k : i \in T
    BY <1>6, <1>7, UpTo
  <1>9. Total(PartOf(x, key, k)) < Product(MaskOf(s, key, k))
    BY <1>8 DEF T
  <1>10. MaskOf(s, key, k) = s /\ PartOf(x, key, k) = x
    BY <1>1, <1>2, <1>4, <1>5, MaskEnds
  <1>11. Total(x) \in Nat
    BY <1>4, TotalType
  <1> QED
    BY <1>9, <1>10, <1>11 DEF x

(* Smaller strides, and earlier dimensions, have smaller keys.             *)
LEMMA SortKeys ==
    ASSUME NEW n \in Nat, NEW a \in Nat, NEW b \in Nat, NEW d \in 1..n, NEW e \in 1..n
    PROVE  /\ a * (n + 1) + d \in Nat
           /\ a * (n + 1) + d < b * (n + 1) + e <=> a < b \/ (a = b /\ d < e)
           /\ a * (n + 1) + d = b * (n + 1) + e => d = e
  <1>1. ASSUME NEW x \in Nat, NEW y \in Nat, x < y, NEW i \in 1..n, NEW j \in 1..n
        PROVE  x * (n + 1) + i < y * (n + 1) + j
    <2>1. PICK m \in Nat : m = n + 1
      <3>1. n + 1 \in Nat
        OBVIOUS
      <3> QED
        BY <3>1
    <2>2. (x + 1) * m <= y * m
      BY <1>1, MultipliedGrows
    <2>3. (x + 1) * m = x * m + m /\ x * m \in Nat /\ y * m \in Nat
      OBVIOUS
    <2> QED
      BY <2>1, <2>2, <2>3
  <1>2. a * (n + 1) \in Nat /\ b * (n + 1) \in Nat
    <2>1. n + 1 \in Nat
      OBVIOUS
    <2> QED
      BY <2>1, Multiplied
  <1>3. PICK u \in Nat, v \in Nat : u = a * (n + 1) /\ v = b * (n + 1)
    BY <1>2
  <1>4. CASE a < b
    <2>1. u + d < v + e
      BY <1>1, <1>3, <1>4
    <2> QED
      BY <1>3, <1>4, <2>1
  <1>5. CASE b < a
    <2>1. v + e < u + d
      BY <1>1, <1>3, <1>5
    <2> QED
      BY <1>3, <1>5, <2>1
  <1>6. CASE a = b
    BY <1>3, <1>6
  <1> QED
    BY <1>4, <1>5, <1>6

(* A contiguous layout is ordered from its last dimension.                 *)
LEMMA ContiguousIsOrdered ==
    ASSUME Laid, Contiguous
    PROVE  \E key : Ordered(layout.sizes, layout.strides, key)
  <1>0. PICK s \in Sizes, n \in Nat : s = layout.sizes /\ n = Len(s) /\ DOMAIN s = 1..n
    <2>1. layout.sizes \in Sizes /\ Len(layout.sizes) \in Nat /\ DOMAIN layout.sizes = 1..Len(layout.sizes)
      BY DEF Laid, Sizes
    <2> QED
      BY <2>1
  <1>1. PICK t : s = layout.sizes /\ t = layout.strides /\ t \in [DOMAIN s -> Nat]
           /\ n = Len(s) /\ DOMAIN s = 1..n
    BY <1>0 DEF Laid
  <1> DEFINE key == [d \in 1..n |-> n - d]
  <1>2. Keys(key, n)
    <2>1. \A d \in 1..n : key[d] = n - d /\ n - d \in Nat
      OBVIOUS
    <2>2. key \in [1..n -> Nat]
      BY <2>1
    <2> HIDE DEF key
    <2> QED
      BY <2>1, <2>2 DEF Keys
  <1>3. \A d \in 1..n : key[d] = n - d
    OBVIOUS
  <1> HIDE DEF key
  <1>4. ASSUME NEW e \in 1..n, s[e] # 1
        PROVE  t[e] = Product(MaskOf(s, key, key[e]))
    <2>1. t[e] = Inner(s, e)
      BY <1>1, <1>4 DEF Contiguous, Inner
    <2>2. PICK m \in Sizes : m = MaskOf(s, key, key[e]) /\ Len(m) = n /\ DOMAIN m = 1..n
             /\ \A d \in 1..n : m[d] = IF key[d] < key[e] THEN s[d] ELSE 1
      <3>1. key[e] \in Nat
        BY <1>2 DEF Keys
      <3>2. /\ MaskOf(s, key, key[e]) \in Sizes /\ Len(MaskOf(s, key, key[e])) = n
            /\ \A d \in 1..n : MaskOf(s, key, key[e])[d] = IF key[d] < key[e] THEN s[d] ELSE 1
        BY <1>1, <3>1, MaskType
      <3>3. DOMAIN MaskOf(s, key, key[e]) = 1..n
        BY <1>1 DEF MaskOf
      <3> QED
        BY <3>2, <3>3
    <2>3. \A d \in 1..n : m[d] = IF e < d THEN s[d] ELSE 1
      <3>1. \A d \in 1..n : key[d] < key[e] <=> e < d
        BY <1>3
      <3> QED
        BY <2>2, <3>1
    <2>4. Outer(m, e) = 1
      <3>1. SubSeq(m, 1, e) \in Sizes /\ \A d \in DOMAIN SubSeq(m, 1, e) : SubSeq(m, 1, e)[d] = 1
        <4>1. Len(SubSeq(m, 1, e)) = e /\ \A d \in 1..e : SubSeq(m, 1, e)[d] = m[d]
          BY <2>2 DEF Sizes
        <4>2. SubSeq(m, 1, e) \in Sizes /\ DOMAIN SubSeq(m, 1, e) = 1..e
          BY <2>2 DEF Sizes
        <4>3. \A d \in 1..e : m[d] = 1
          BY <2>3
        <4> QED
          BY <4>1, <4>2, <4>3
      <3> QED
        BY <3>1, ProductOnes DEF Outer
    <2>5. Inner(m, e) = Inner(s, e)
      <3>1. SubSeq(m, e + 1, n) = SubSeq(s, e + 1, n)
        BY <1>1, <2>2, <2>3 DEF Sizes
      <3> QED
        BY <1>1, <2>2, <3>1 DEF Inner
    <2>6. Outer(m, e) * Inner(m, e) = Product(m) /\ Inner(m, e) \in Nat
      <3>1. e \in 0..Len(m)
        BY <2>2
      <3>2. Outer(m, e) * Inner(m, e) = Product(m) /\ Inner(m, e) \in Positive
        BY <3>1, Radix
      <3> QED
        BY <3>2 DEF Positive
    <2> QED
      BY <2>1, <2>2, <2>4, <2>5, <2>6
  <1>5. Ordered(s, t, key)
    BY <1>1, <1>2, <1>4 DEF Ordered
  <1> QED
    BY <1>1, <1>5

(* A layout without holes is ordered by its strides, or contiguous.        *)
LEMMA DenseIsOrdered ==
    ASSUME Laid, IsDense
    PROVE  \E key : Ordered(layout.sizes, layout.strides, key)
  <1>0. PICK s \in Sizes, n \in Nat : s = layout.sizes /\ n = Len(s) /\ DOMAIN s = 1..n
    <2>1. layout.sizes \in Sizes /\ Len(layout.sizes) \in Nat /\ DOMAIN layout.sizes = 1..Len(layout.sizes)
      BY DEF Laid, Sizes
    <2> QED
      BY <2>1
  <1>1. PICK t : s = layout.sizes /\ t = layout.strides /\ t \in [DOMAIN s -> Nat]
           /\ n = Len(s) /\ DOMAIN s = 1..n
    BY <1>0 DEF Laid
  <1>2. CASE Contiguous
    BY <1>2, ContiguousIsOrdered
  <1>3. CASE \A d \in ActiveDims : layout.strides[d] = Product(SizesBefore(d))
    <2> DEFINE key == [d \in 1..n |-> t[d] * (n + 1) + d]
    <2>1. \A d \in 1..n : key[d] = t[d] * (n + 1) + d /\ t[d] \in Nat
      BY <1>1
    <2>2. \A d \in 1..n : key[d] \in Nat
      BY <2>1, SortKeys
    <2>3. key \in [1..n -> Nat]
      BY <2>2
    <2> HIDE DEF key
    <2>4. ASSUME NEW d \in 1..n, NEW e \in 1..n
          PROVE  (key[d] < key[e] <=> SortedBefore(d, e)) /\ (key[d] = key[e] => d = e)
      <3>1. PICK a \in Nat, b \in Nat : a = t[d] /\ b = t[e]
        BY <2>1
      <3>2. /\ a * (n + 1) + d < b * (n + 1) + e <=> a < b \/ (a = b /\ d < e)
            /\ a * (n + 1) + d = b * (n + 1) + e => d = e
        BY SortKeys
      <3>3. key[d] = a * (n + 1) + d /\ key[e] = b * (n + 1) + e
        BY <2>1, <3>1
      <3>4. SortedBefore(d, e) <=> a < b \/ (a = b /\ d < e)
        BY <1>1, <3>1 DEF SortedBefore
      <3> QED
        BY <3>2, <3>3, <3>4
    <2>5. Keys(key, n)
      BY <2>3, <2>4 DEF Keys
    <2>6. ASSUME NEW e \in 1..n, s[e] # 1
          PROVE  t[e] = Product(MaskOf(s, key, key[e]))
      <3>1. MaskOf(s, key, key[e]) = SizesBefore(e)
        <4>1. SizesBefore(e) = [d \in 1..n |-> IF SortedBefore(d, e) THEN s[d] ELSE 1]
          BY <1>1 DEF SizesBefore
        <4>2. MaskOf(s, key, key[e]) = [d \in 1..n |-> IF key[d] < key[e] THEN s[d] ELSE 1]
          BY <1>1 DEF MaskOf
        <4> QED
          BY <2>4, <4>1, <4>2
      <3>2. e \in ActiveDims
        BY <1>1, <2>6 DEF ActiveDims
      <3> QED
        BY <1>1, <1>3, <3>1, <3>2
    <2>7. Ordered(s, t, key)
      BY <1>1, <2>5, <2>6 DEF Ordered
    <2> QED
      BY <1>1, <2>7
  <1> QED
    BY <1>2, <1>3 DEF IsDense

(* The flat index of a point in its buffer.                                *)
LEMMA AddressOffset ==
    ASSUME Laid, Ranged, NEW at, Point(at, ChildSizes),
           NEW key, Ordered(layout.sizes, layout.strides, key)
    PROVE  \E f \in Nat : ChildAddress(at) = layout.offset + f /\ f < Product(layout.sizes)
  <1>1. CASE viewed
    <2>1. Flatten(at, ChildSizes) \in Nat /\ Flatten(at, ChildSizes) < Product(ChildSizes)
      BY RangedSizes, FlattenBound
    <2>2. Product(layout.sizes) = Product(ChildSizes)
      BY <1>1 DEF Laid
    <2>3. ChildAddress(at) = layout.offset + Flatten(at, ChildSizes)
      BY <1>1 DEF ChildAddress
    <2> QED
      BY <2>1, <2>2, <2>3
  <1>2. CASE ~viewed
    <2>1. layout.sizes \in Sizes /\ layout.sizes = ChildSizes
      BY <1>2 DEF Laid
    <2>2. PICK s \in Sizes : s = layout.sizes
      BY <2>1
    <2>3. PICK t : t = layout.strides
      OBVIOUS
    <2>4. s = layout.sizes /\ t = layout.strides /\ Point(at, s)
      BY <2>1, <2>2, <2>3
    <2>5. PICK f \in Nat : f = Total([d \in DOMAIN at |-> t[d] * at[d]]) /\ f < Product(s)
      BY <2>4, AddressBound
    <2>6. ChildAddress(at) = layout.offset + f
      BY <1>2, <2>4, <2>5 DEF ChildAddress, AddressOf
    <2> QED
      BY <2>4, <2>5, <2>6
  <1> QED
    BY <1>1, <1>2

(* An access denotes the address it is made from.                          *)
LEMMA AccessIsRight ==
    ASSUME Laid, Ranged, NEW at, Point(at, ChildSizes), NEW address, address = ChildAddress(at),
           NEW access, access = MakeAccess(address)
    PROVE  IF access.mode = "buffer" THEN access.at = <<address>>
           ELSE Within(access.at, layout.sizes) /\ AddressOf(access.at) = address
  <1>1. CASE ~IsDense \/ Linearized
    <2>1. access = [mode |-> "buffer", at |-> <<address>>]
      BY <1>1 DEF MakeAccess, Buffered
    <2> QED
      BY <2>1
  <1>2. CASE ~(~IsDense \/ Linearized)
    <2>1. PICK key : Ordered(layout.sizes, layout.strides, key)
      BY <1>2, DenseIsOrdered
    <2>3. PICK f \in Nat : address = layout.offset + f /\ f < Product(layout.sizes)
      BY <2>1, AddressOffset
    <2>4. address - layout.offset = f /\ layout.sizes \in Sizes
      BY <2>3 DEF Laid
    <2> DEFINE c == [d \in DOMAIN layout.sizes |->
                       IF layout.sizes[d] = 1 THEN 0 ELSE Modular(f, layout.strides[d], layout.sizes[d])]
    <2>5. access = [mode |-> "logical", at |-> c]
      BY <1>2, <2>4 DEF MakeAccess
    <2>6. Point(c, layout.sizes) /\ Total([d \in DOMAIN c |-> layout.strides[d] * c[d]]) = f
      <3>1. PICK s \in Sizes : s = layout.sizes
        BY <2>4
      <3>2. PICK t : t = layout.strides
        OBVIOUS
      <3>3. PICK w : w = [d \in DOMAIN s |-> IF s[d] = 1 THEN 0 ELSE Modular(f, t[d], s[d])]
        OBVIOUS
      <3>4. w = c
        BY <3>1, <3>2, <3>3
      <3>5. Ordered(s, t, key) /\ f \in Nat /\ f < Product(s)
        BY <2>1, <2>3, <3>1, <3>2
      <3>6. Point(w, s) /\ Total([d \in DOMAIN w |-> t[d] * w[d]]) = f
        BY <3>3, <3>5, Decomposed
      <3> HIDE DEF c
      <3> QED
        BY <3>1, <3>2, <3>4, <3>6
    <2> HIDE DEF c
    <2>7. AddressOf(c) = address
      BY <2>3, <2>6 DEF AddressOf
    <2>8. access.mode # "buffer" /\ access.at = c
      BY <2>5
    <2> QED
      BY <2>6, <2>7, <2>8 DEF Point
  <1> QED
    BY <1>1, <1>2

(* What is printed is the element the child means.                         *)
LEMMA WalkAccesses == WalkInv => AccessDenotesAddress
  <1> SUFFICES ASSUME WalkInv PROVE AccessDenotesAddress
    OBVIOUS
  <1>1. Laid /\ Ranged /\ Recorded
    BY DEF WalkInv
  <1>2. ChildSizes \in Sizes
    BY <1>1, RangedSizes
  <1>3. ASSUME NEW n \in DOMAIN visited
        PROVE  LET access == visited[n].access IN
               IF access.mode = "buffer" THEN access.at = <<visited[n].address>>
               ELSE Within(access.at, layout.sizes) /\ AddressOf(access.at) = visited[n].address
    <2>1. PICK at, address, access :
             at = visited[n].at /\ address = visited[n].address /\ access = visited[n].access
      OBVIOUS
    <2>2. n - 1 \in Nat
      BY DEF WalkInv
    <2>3. at = Unflatten(n - 1, ChildSizes) /\ address = ChildAddress(at) /\ access = MakeAccess(address)
      BY <1>1, <2>1 DEF Recorded
    <2>4. Point(at, ChildSizes)
      BY <1>2, <2>2, <2>3, UnflattenIs
    <2>5. IF access.mode = "buffer" THEN access.at = <<address>>
          ELSE Within(access.at, layout.sizes) /\ AddressOf(access.at) = address
      BY <1>1, <2>3, <2>4, AccessIsRight
    <2> QED
      BY <2>1, <2>5
  <1> QED
    BY <1>3 DEF AccessDenotesAddress

(* A printed access denotes the element that the child means, whatever the *)
(* sizes, the strides and the order of the dimensions (_make_access,       *)
(* _is_dense).                                                             *)
THEOREM AccessesAreRight == Spec => []AccessDenotesAddress
  BY WalkHolds, WalkAccesses, PTL
=============================================================================
