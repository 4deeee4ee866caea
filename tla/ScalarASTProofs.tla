--------------------------- MODULE ScalarASTProofs ---------------------------
(***************************************************************************)
(* Proofs about ScalarAST: the roles of tensors match what the program     *)
(* does, and the program computes the graph.  First trees, and what the    *)
(* recursive definitions say of a tree made from smaller ones; then the    *)
(* stores of statements, with which roles are settled; then loop nests,    *)
(* operations and the whole program.                                       *)
(***************************************************************************)
EXTENDS ScalarAST, WellFoundedInduction, SequenceTheorems, TLAPS

-----------------------------------------------------------------------------
(* Induction. *)

(* A set of natural numbers has a least element. *)
LEMMA LeastNumber ==
    ASSUME NEW T \in SUBSET Nat, T # {}
    PROVE  \E m \in T : \A k \in T : ~(k < m)
  <1>1. \E m \in T : \A k \in T : ~ (<<k, m>> \in OpToRel(<, Nat))
    BY NatLessThanWellFounded, WFMin, Zenon
  <1>2. \A x, y \in Nat : x < y => <<x, y>> \in OpToRel(<, Nat)
    BY Zenon DEF OpToRel
  <1> QED
    BY <1>1, <1>2, Zenon

(* What holds at 0 and passes from each number to the next holds up to n.  *)
LEMMA UpTo ==
    ASSUME NEW n \in Nat, NEW T, 0 \in T, \A k \in 1..n : k - 1 \in T => k \in T
    PROVE  \A k \in 0..n : k \in T
  <1> DEFINE R == {k \in 0..n : k \notin T}
  <1>1. SUFFICES ASSUME R # {} PROVE FALSE
    OBVIOUS
  <1>2. R \in SUBSET Nat
    OBVIOUS
  <1>3. PICK m \in R : \A k \in R : ~(k < m)
    <2> HIDE DEF R
    <2> QED
      BY <1>1, <1>2, LeastNumber
  <1>4. m \in 1..n /\ m - 1 \in 0..n /\ m - 1 < m
    OBVIOUS
  <1>5. m - 1 \notin R
    BY <1>3, <1>4
  <1> QED
    BY <1>4, <1>5

-----------------------------------------------------------------------------
(* Trees. *)

(* Paths below a child. *)
LEMMA Paths ==
    ASSUME NEW c \in Nat, NEW q \in Seq(Nat)
    PROVE  /\ Under(c, q) \in Seq(Nat)
           /\ Under(c, q) # <<>>
           /\ Under(c, q)[1] = c
           /\ Tail(Under(c, q)) = q
           /\ \A d \in Nat : Append(Under(c, q), d) = Under(c, Append(q, d))
           /\ Under(c, <<>>) = Append(<<>>, c)
  <1>1. <<c>> \in Seq(Nat) /\ Len(<<c>>) = 1
    OBVIOUS
  <1>2. Under(c, q) \in Seq(Nat) /\ Len(Under(c, q)) = Len(q) + 1 /\ Under(c, q)[1] = c
    BY <1>1 DEF Under
  <1>3. Tail(Under(c, q)) = q
    <2>1. Tail(Under(c, q)) \in Seq(Nat) /\ Len(Tail(Under(c, q))) = Len(q)
      BY <1>2
    <2>2. \A i \in 1..Len(q) : Tail(Under(c, q))[i] = q[i]
      BY <1>1, <1>2 DEF Under
    <2> QED
      BY <2>1, <2>2, SeqEqual
  <1>4. ASSUME NEW d \in Nat PROVE Append(Under(c, q), d) = Under(c, Append(q, d))
    <2>1. Append(q, d) \in Seq(Nat) /\ Append(Under(c, q), d) \in Seq(Nat)
      BY <1>2
    <2>2. Len(Append(Under(c, q), d)) = Len(q) + 2 /\ Len(Under(c, Append(q, d))) = Len(q) + 2
      BY <1>1, <1>2, <2>1 DEF Under
    <2>3. Under(c, Append(q, d)) \in Seq(Nat)
      BY <1>1, <2>1 DEF Under
    <2>4. \A i \in 1..(Len(q) + 2) : Append(Under(c, q), d)[i] = Under(c, Append(q, d))[i]
      BY <1>1, <1>2, <2>1, <2>2 DEF Under
    <2> QED
      BY <2>1, <2>2, <2>3, <2>4, SeqEqual
  <1>5. Under(c, <<>>) = Append(<<>>, c)
    BY <1>1 DEF Under
  <1> QED
    BY <1>2, <1>3, <1>4, <1>5

(* Operands of a node, and nodes of expressions and statements. *)
Arity(node) ==
    IF node.k \in {"num", "var", "dummy", "store"} THEN 0
    ELSE IF node.k \in {"load", "loop"} THEN 1
    ELSE 2

Expressions == {"num", "var", "load", "binary"}
Statements == {"dummy", "store", "seq", "loop"}

(* A tree of these kinds of nodes, all with their operands. *)
Good(t, kinds) ==
    /\ DOMAIN t \subseteq Seq(Nat)
    /\ <<>> \in DOMAIN t
    /\ \A p \in DOMAIN t : t[p].k \in kinds
    /\ \A p \in DOMAIN t : \A c \in 1..Arity(t[p]) : Append(p, c) \in DOMAIN t

(* The root of a tree, and the nodes below it. *)
LEMMA TreeRoot ==
    ASSUME NEW node, NEW children
    PROVE  Tree(node, children)[<<>>] = node /\ <<>> \in DOMAIN Tree(node, children)
  BY DEF Tree

(* A child of a tree keeps its paths and labels, one step further down.   *)
LEMMA TreeBelow ==
    ASSUME NEW node, NEW children, DOMAIN children \subseteq Nat,
           NEW c \in DOMAIN children, DOMAIN children[c] \subseteq Seq(Nat),
           NEW q \in DOMAIN children[c]
    PROVE  /\ Under(c, q) \in DOMAIN Tree(node, children)
           /\ Tree(node, children)[Under(c, q)] = children[c][q]
  <1> DEFINE below == UNION {{Under(d, path) : path \in DOMAIN children[d]} : d \in DOMAIN children}
  <1>1. Under(c, q) \in below
    OBVIOUS
  <1> HIDE DEF below
  <1>2. Under(c, q) # <<>> /\ Under(c, q)[1] = c /\ Tail(Under(c, q)) = q
    BY Paths
  <1>3. PICK p : p = Under(c, q)
    OBVIOUS
  <1>4. Tree(node, children) =
          [path \in {<<>>} \cup below |->
             IF path = <<>> THEN node ELSE children[path[1]][Tail(path)]]
    BY DEF Tree, below
  <1>5. p \in DOMAIN Tree(node, children) /\ Tree(node, children)[p] = children[p[1]][Tail(p)]
    BY <1>1, <1>2, <1>3, <1>4
  <1> QED
    BY <1>2, <1>3, <1>5

(* Below its root a tree is one of its children.                          *)
LEMMA TreeInside ==
    ASSUME NEW node, NEW children, NEW p \in DOMAIN Tree(node, children), p # <<>>
    PROVE  \E c \in DOMAIN children : \E q \in DOMAIN children[c] : p = Under(c, q)
  BY DEF Tree

(* Good children make a good tree.                                        *)
LEMMA TreeIsGood ==
    ASSUME NEW kinds, NEW node, node.k \in kinds, NEW children, DOMAIN children = 1..Arity(node),
           \A c \in DOMAIN children : Good(children[c], kinds)
    PROVE  Good(Tree(node, children), kinds)
  <1>1. PICK t : t = Tree(node, children)
    OBVIOUS
  <1>2. Arity(node) \in {0, 1, 2} /\ DOMAIN children \subseteq Nat
    BY DEF Arity
  <1>3. ASSUME NEW c \in DOMAIN children, NEW q \in DOMAIN children[c]
        PROVE  /\ c \in Nat /\ q \in Seq(Nat) /\ Under(c, q) \in Seq(Nat)
               /\ Under(c, q) \in DOMAIN t /\ t[Under(c, q)] = children[c][q]
    <2>1. c \in Nat /\ DOMAIN children[c] \subseteq Seq(Nat)
      BY <1>2 DEF Good
    <2>2. Under(c, q) \in Seq(Nat)
      BY <2>1, Paths
    <2>3. q \in DOMAIN children[c] /\ c \in DOMAIN children
      OBVIOUS
    <2>4. Under(c, q) \in DOMAIN t /\ t[Under(c, q)] = children[c][q]
      BY ONLY <1>1, <1>2, <2>1, <2>3, TreeBelow
    <2> QED
      BY <2>1, <2>2, <2>4
  <1>4. t[<<>>] = node /\ <<>> \in DOMAIN t
    BY <1>1, TreeRoot
  <1>5. \A p \in DOMAIN t : p # <<>> =>
           \E c \in DOMAIN children : \E q \in DOMAIN children[c] : p = Under(c, q)
    BY ONLY <1>1, TreeInside
  <1>6. DOMAIN t \subseteq Seq(Nat)
    BY <1>3, <1>5, EmptySeq, ZenonT(60)
  <1>7. \A p \in DOMAIN t : t[p].k \in kinds
    BY <1>3, <1>4, <1>5 DEF Good
  <1>8. ASSUME NEW p \in DOMAIN t, NEW d \in 1..Arity(t[p])
        PROVE  Append(p, d) \in DOMAIN t
    <2>1. CASE p = <<>>
      <3>1. d \in DOMAIN children /\ d \in Nat
        BY <1>2, <1>4, <2>1
      <3>2. <<>> \in DOMAIN children[d]
        BY <3>1 DEF Good
      <3>3. Append(<<>>, d) = Under(d, <<>>)
        BY <3>1, <3>2, <1>3, Paths
      <3> QED
        BY <1>3, <2>1, <3>1, <3>2, <3>3
    <2>2. CASE p # <<>>
      <3>1. PICK c \in DOMAIN children : \E q \in DOMAIN children[c] : p = Under(c, q)
        BY <1>5, <2>2
      <3>2. PICK q \in DOMAIN children[c] : p = Under(c, q)
        BY <3>1
      <3>3. t[p] = children[c][q]
        BY <1>3, <3>2
      <3>4. Append(q, d) \in DOMAIN children[c]
        BY <3>3 DEF Good
      <3>5. d \in Nat
        BY DEF Arity
      <3>6. Append(p, d) = Under(c, Append(q, d))
        BY <1>3, <3>2, <3>5, Paths
      <3> QED
        BY <1>3, <3>4, <3>6
    <2> QED
      BY <2>1, <2>2
  <1> QED
    BY <1>1, <1>4, <1>6, <1>7, <1>8 DEF Good

-----------------------------------------------------------------------------
(* Values of expressions. *)

Evaluates(f, t, env, mem) ==
    f = [p \in DOMAIN t |->
            ValueAt(t[p], env, mem, f[Append(p, 1)], f[Append(p, 2)])]

(* The root of t has the value v. *)
HasValue(t, env, mem, v) ==
    /\ Good(t, Expressions)
    /\ \E f : Evaluates(f, t, env, mem)
    /\ \A f : Evaluates(f, t, env, mem) => f[<<>>] = v

(* A node does not look further than its operands. *)
LEMMA ValueAtOperands ==
    ASSUME NEW env, NEW mem, NEW node, node.k \in Expressions,
           NEW x1, NEW x2, NEW y1, NEW y2,
           Arity(node) > 0 => x1 = x2, Arity(node) > 1 => y1 = y2
    PROVE  ValueAt(node, env, mem, x1, y1) = ValueAt(node, env, mem, x2, y2)
  BY DEF ValueAt, Arity, Expressions

(* The value of a tree comes from those of the children. *)
LEMMA HasValueTree ==
    ASSUME NEW env, NEW mem, NEW node, node.k \in Expressions,
           NEW children, DOMAIN children = 1..Arity(node), NEW v,
           \A c \in DOMAIN children : HasValue(children[c], env, mem, v[c]),
           NEW x, NEW y, Arity(node) > 0 => x = v[1], Arity(node) > 1 => y = v[2]
    PROVE  HasValue(Tree(node, children), env, mem, ValueAt(node, env, mem, x, y))
  <1>1. PICK t : t = Tree(node, children)
    OBVIOUS
  <1>2. Arity(node) \in {0, 1, 2}
    BY DEF Arity
  <1>3. \A c \in DOMAIN children : Good(children[c], Expressions)
    BY DEF HasValue
  <1>4. /\ Good(t, Expressions)
        /\ t[<<>>] = node
        /\ \A p \in DOMAIN t : p # <<>> =>
              \E c \in DOMAIN children : \E q \in DOMAIN children[c] : p = Under(c, q)
        /\ \A c \in DOMAIN children : \A q \in DOMAIN children[c] :
              Under(c, q) \in DOMAIN t /\ t[Under(c, q)] = children[c][q]
    <2>1. DOMAIN children \subseteq Nat /\ \A c \in DOMAIN children : DOMAIN children[c] \subseteq Seq(Nat)
      BY <1>2, <1>3 DEF Good
    <2>2. Good(t, Expressions)
      BY <1>1, <1>3, TreeIsGood
    <2>3. t[<<>>] = node
      BY <1>1, TreeRoot
    <2>4. \A p \in DOMAIN t : p # <<>> =>
             \E c \in DOMAIN children : \E q \in DOMAIN children[c] : p = Under(c, q)
      BY ONLY <1>1, TreeInside
    <2>5. \A c \in DOMAIN children : \A q \in DOMAIN children[c] :
             Under(c, q) \in DOMAIN t /\ t[Under(c, q)] = children[c][q]
      BY ONLY <1>1, <2>1, TreeBelow
    <2> QED
      BY <2>2, <2>3, <2>4, <2>5
  <1>5. <<>> \in DOMAIN t
    BY <1>4 DEF Good
  <1>6. ASSUME NEW c \in DOMAIN children
        PROVE  /\ c \in {1, 2} /\ <<>> \in DOMAIN children[c] /\ c <= Arity(node)
               /\ Append(<<>>, c) = Under(c, <<>>)
               /\ \A q \in DOMAIN children[c] :
                     /\ q \in Seq(Nat)
                     /\ Under(c, q)[1] = c /\ Tail(Under(c, q)) = q /\ Under(c, q) # <<>>
                     /\ \A d \in {1, 2} : Append(Under(c, q), d) = Under(c, Append(q, d))
    <2>1. c \in {1, 2} /\ c <= Arity(node)
      BY <1>2
    <2>2. c \in Nat /\ <<>> \in DOMAIN children[c] /\ DOMAIN children[c] \subseteq Seq(Nat)
      BY <1>3, <2>1 DEF Good
    <2>3. {1, 2} \subseteq Nat
      OBVIOUS
    <2> QED
      BY <2>1, <2>2, <2>3, Paths, EmptySeq, ZenonT(60)
  <1> DEFINE solution(c) == CHOOSE g : Evaluates(g, children[c], env, mem)
             f == [p \in DOMAIN t |->
                     IF p = <<>> THEN ValueAt(node, env, mem, x, y) ELSE solution(p[1])[Tail(p)]]
  <1>7. \A c \in DOMAIN children : Evaluates(solution(c), children[c], env, mem)
    BY DEF HasValue
  <1>8. f[<<>>] = ValueAt(node, env, mem, x, y) /\ DOMAIN f = DOMAIN t
    BY <1>5
  <1>9. \A c \in DOMAIN children : \A q \in DOMAIN children[c] :
           f[Under(c, q)] = solution(c)[q]
    BY <1>4, <1>6, ZenonT(60)
  <1>10. f = [p \in DOMAIN t |-> f[p]]
    OBVIOUS
  <1> HIDE DEF f, solution
  <1>11. \A c \in DOMAIN children : solution(c)[<<>>] = v[c]
    BY <1>7 DEF HasValue
  <1>12. ASSUME NEW p \in DOMAIN t
         PROVE  f[p] = ValueAt(t[p], env, mem, f[Append(p, 1)], f[Append(p, 2)])
    <2>1. CASE p = <<>>
      <3>1. ASSUME NEW c \in DOMAIN children PROVE f[Append(p, c)] = v[c]
        BY <1>6, <1>9, <1>11, <2>1
      <3>2. PICK x1, y1 : x1 = f[Append(p, 1)] /\ y1 = f[Append(p, 2)]
        OBVIOUS
      <3>3. (Arity(node) > 0 => x = x1) /\ (Arity(node) > 1 => y = y1)
        <4>1. Arity(node) > 0 => 1 \in DOMAIN children
          BY <1>2
        <4>2. Arity(node) > 1 => 2 \in DOMAIN children
          BY <1>2
        <4> QED
          BY <3>1, <3>2, <4>1, <4>2
      <3>4. ValueAt(node, env, mem, x, y) = ValueAt(node, env, mem, x1, y1)
        BY <3>3, ValueAtOperands
      <3> QED
        BY <1>4, <1>8, <2>1, <3>2, <3>4
    <2>2. CASE p # <<>>
      <3>1. PICK c \in DOMAIN children : \E q \in DOMAIN children[c] : p = Under(c, q)
        BY <1>4, <2>2
      <3>2. PICK q \in DOMAIN children[c] : p = Under(c, q)
        BY <3>1
      <3>3. PICK n : n = t[p]
        OBVIOUS
      <3>4. n = children[c][q] /\ n.k \in Expressions
        BY <1>3, <1>4, <3>2, <3>3 DEF Good
      <3>5. PICK g : g = solution(c)
        OBVIOUS
      <3>6. g[q] = ValueAt(n, env, mem, g[Append(q, 1)], g[Append(q, 2)])
        BY <1>7, <3>4, <3>5 DEF Evaluates
      <3>7. Arity(n) \in {0, 1, 2} /\ \A d \in 1..Arity(n) : Append(q, d) \in DOMAIN children[c]
        BY <1>3, <3>4 DEF Good, Arity
      <3>8. ASSUME NEW d \in {1, 2}, d <= Arity(n)
            PROVE  f[Append(p, d)] = g[Append(q, d)]
        <4>1. Append(q, d) \in DOMAIN children[c]
          BY <3>7, <3>8
        <4>2. Append(p, d) = Under(c, Append(q, d))
          BY <1>6, <3>2
        <4> QED
          BY <1>9, <3>5, <4>1, <4>2
      <3>9. PICK x1, y1, x2, y2 : /\ x1 = f[Append(p, 1)] /\ y1 = f[Append(p, 2)]
                                 /\ x2 = g[Append(q, 1)] /\ y2 = g[Append(q, 2)]
        OBVIOUS
      <3>10. (Arity(n) > 0 => x1 = x2) /\ (Arity(n) > 1 => y1 = y2)
        BY <3>7, <3>8, <3>9
      <3>11. ValueAt(n, env, mem, x1, y1) = ValueAt(n, env, mem, x2, y2)
        BY <3>4, <3>10, ValueAtOperands
      <3> QED
        BY <1>9, <3>2, <3>3, <3>5, <3>6, <3>9, <3>11
    <2> QED
      BY <2>1, <2>2
  <1>13. Evaluates(f, t, env, mem)
    BY <1>8, <1>10, <1>12 DEF Evaluates
  <1>14. ASSUME NEW h, Evaluates(h, t, env, mem)
         PROVE  h[<<>>] = ValueAt(node, env, mem, x, y)
    <2>1. \A p \in DOMAIN t : h[p] = ValueAt(t[p], env, mem, h[Append(p, 1)], h[Append(p, 2)])
      BY <1>14 DEF Evaluates
    <2>2. ASSUME NEW c \in DOMAIN children PROVE h[Append(<<>>, c)] = v[c]
      <3> DEFINE g == [q \in DOMAIN children[c] |-> h[Under(c, q)]]
      <3>1. ASSUME NEW q \in DOMAIN children[c]
            PROVE  g[q] = ValueAt(children[c][q], env, mem, g[Append(q, 1)], g[Append(q, 2)])
        <4>1. PICK p \in DOMAIN t : p = Under(c, q)
          BY <1>4
        <4>2. PICK n : n = children[c][q]
          OBVIOUS
        <4>3. n = t[p] /\ n.k \in Expressions
          BY <1>3, <1>4, <4>1, <4>2 DEF Good
        <4>4. Arity(n) \in {0, 1, 2} /\ \A d \in 1..Arity(n) : Append(q, d) \in DOMAIN children[c]
          BY <1>3, <4>2 DEF Good, Arity
        <4>5. ASSUME NEW d \in {1, 2}, d <= Arity(n)
              PROVE  h[Append(p, d)] = g[Append(q, d)]
          <5>1. Append(q, d) \in DOMAIN children[c]
            BY <4>4, <4>5
          <5>2. Append(p, d) = Under(c, Append(q, d))
            BY <1>6, <4>1
          <5> QED
            BY <5>1, <5>2
        <4>6. PICK x1, y1, x2, y2 : /\ x1 = h[Append(p, 1)] /\ y1 = h[Append(p, 2)]
                                   /\ x2 = g[Append(q, 1)] /\ y2 = g[Append(q, 2)]
          OBVIOUS
        <4>7. (Arity(n) > 0 => x1 = x2) /\ (Arity(n) > 1 => y1 = y2)
          BY <4>4, <4>5, <4>6
        <4>8. ValueAt(n, env, mem, x1, y1) = ValueAt(n, env, mem, x2, y2)
          BY <4>3, <4>7, ValueAtOperands
        <4>9. g[q] = h[p]
          BY <4>1
        <4> QED
          BY <2>1, <4>1, <4>2, <4>3, <4>6, <4>8, <4>9
      <3>2. g = [q \in DOMAIN children[c] |-> g[q]]
        OBVIOUS
      <3>3. <<>> \in DOMAIN children[c] /\ g[<<>>] = h[Append(<<>>, c)]
        BY <1>6
      <3> HIDE DEF g
      <3>4. Evaluates(g, children[c], env, mem)
        BY <3>1, <3>2 DEF Evaluates
      <3> QED
        BY <3>3, <3>4 DEF HasValue
    <2>3. PICK x1, y1 : x1 = h[Append(<<>>, 1)] /\ y1 = h[Append(<<>>, 2)]
      OBVIOUS
    <2>4. (Arity(node) > 0 => x = x1) /\ (Arity(node) > 1 => y = y1)
      <3>1. Arity(node) > 0 => 1 \in DOMAIN children
        BY <1>2
      <3>2. Arity(node) > 1 => 2 \in DOMAIN children
        BY <1>2
      <3> QED
        BY <2>2, <2>3, <3>1, <3>2
    <2>5. ValueAt(node, env, mem, x, y) = ValueAt(node, env, mem, x1, y1)
      BY <2>4, ValueAtOperands
    <2> QED
      BY <1>4, <1>5, <2>1, <2>3, <2>5
  <1> QED
    BY <1>1, <1>4, <1>13, <1>14 DEF HasValue

-----------------------------------------------------------------------------
(* Stores of statements, for each environment. *)

Unrolls(f, t) ==
    f = [p \in DOMAIN t |->
            StoresAt(t[p], f[Append(p, 1)], f[Append(p, 2)])]

(* The root of t has the value v. *)
HasStores(t, v) ==
    /\ Good(t, Statements)
    /\ \E f : Unrolls(f, t)
    /\ \A f : Unrolls(f, t) => f[<<>>] = v

(* A node does not look further than its operands. *)
LEMMA StoresAtOperands ==
    ASSUME NEW node, node.k \in Statements,
           NEW x1, NEW x2, NEW y1, NEW y2,
           Arity(node) > 0 => x1 = x2, Arity(node) > 1 => y1 = y2
    PROVE  StoresAt(node, x1, y1) = StoresAt(node, x2, y2)
  BY DEF StoresAt, Arity, Statements

(* The value of a tree comes from those of the children. *)
LEMMA HasStoresTree ==
    ASSUME NEW node, node.k \in Statements,
           NEW children, DOMAIN children = 1..Arity(node), NEW v,
           \A c \in DOMAIN children : HasStores(children[c], v[c]),
           NEW x, NEW y, Arity(node) > 0 => x = v[1], Arity(node) > 1 => y = v[2]
    PROVE  HasStores(Tree(node, children), StoresAt(node, x, y))
  <1>1. PICK t : t = Tree(node, children)
    OBVIOUS
  <1>2. Arity(node) \in {0, 1, 2}
    BY DEF Arity
  <1>3. \A c \in DOMAIN children : Good(children[c], Statements)
    BY DEF HasStores
  <1>4. /\ Good(t, Statements)
        /\ t[<<>>] = node
        /\ \A p \in DOMAIN t : p # <<>> =>
              \E c \in DOMAIN children : \E q \in DOMAIN children[c] : p = Under(c, q)
        /\ \A c \in DOMAIN children : \A q \in DOMAIN children[c] :
              Under(c, q) \in DOMAIN t /\ t[Under(c, q)] = children[c][q]
    <2>1. DOMAIN children \subseteq Nat /\ \A c \in DOMAIN children : DOMAIN children[c] \subseteq Seq(Nat)
      BY <1>2, <1>3 DEF Good
    <2>2. Good(t, Statements)
      BY <1>1, <1>3, TreeIsGood
    <2>3. t[<<>>] = node
      BY <1>1, TreeRoot
    <2>4. \A p \in DOMAIN t : p # <<>> =>
             \E c \in DOMAIN children : \E q \in DOMAIN children[c] : p = Under(c, q)
      BY ONLY <1>1, TreeInside
    <2>5. \A c \in DOMAIN children : \A q \in DOMAIN children[c] :
             Under(c, q) \in DOMAIN t /\ t[Under(c, q)] = children[c][q]
      BY ONLY <1>1, <2>1, TreeBelow
    <2> QED
      BY <2>2, <2>3, <2>4, <2>5
  <1>5. <<>> \in DOMAIN t
    BY <1>4 DEF Good
  <1>6. ASSUME NEW c \in DOMAIN children
        PROVE  /\ c \in {1, 2} /\ <<>> \in DOMAIN children[c] /\ c <= Arity(node)
               /\ Append(<<>>, c) = Under(c, <<>>)
               /\ \A q \in DOMAIN children[c] :
                     /\ q \in Seq(Nat)
                     /\ Under(c, q)[1] = c /\ Tail(Under(c, q)) = q /\ Under(c, q) # <<>>
                     /\ \A d \in {1, 2} : Append(Under(c, q), d) = Under(c, Append(q, d))
    <2>1. c \in {1, 2} /\ c <= Arity(node)
      BY <1>2
    <2>2. c \in Nat /\ <<>> \in DOMAIN children[c] /\ DOMAIN children[c] \subseteq Seq(Nat)
      BY <1>3, <2>1 DEF Good
    <2>3. {1, 2} \subseteq Nat
      OBVIOUS
    <2> QED
      BY <2>1, <2>2, <2>3, Paths, EmptySeq, ZenonT(60)
  <1> DEFINE solution(c) == CHOOSE g : Unrolls(g, children[c])
             f == [p \in DOMAIN t |->
                     IF p = <<>> THEN StoresAt(node, x, y) ELSE solution(p[1])[Tail(p)]]
  <1>7. \A c \in DOMAIN children : Unrolls(solution(c), children[c])
    BY DEF HasStores
  <1>8. f[<<>>] = StoresAt(node, x, y) /\ DOMAIN f = DOMAIN t
    BY <1>5
  <1>9. \A c \in DOMAIN children : \A q \in DOMAIN children[c] :
           f[Under(c, q)] = solution(c)[q]
    BY <1>4, <1>6, ZenonT(60)
  <1>10. f = [p \in DOMAIN t |-> f[p]]
    OBVIOUS
  <1> HIDE DEF f, solution
  <1>11. \A c \in DOMAIN children : solution(c)[<<>>] = v[c]
    BY <1>7 DEF HasStores
  <1>12. ASSUME NEW p \in DOMAIN t
         PROVE  f[p] = StoresAt(t[p], f[Append(p, 1)], f[Append(p, 2)])
    <2>1. CASE p = <<>>
      <3>1. ASSUME NEW c \in DOMAIN children PROVE f[Append(p, c)] = v[c]
        BY <1>6, <1>9, <1>11, <2>1
      <3>2. PICK x1, y1 : x1 = f[Append(p, 1)] /\ y1 = f[Append(p, 2)]
        OBVIOUS
      <3>3. (Arity(node) > 0 => x = x1) /\ (Arity(node) > 1 => y = y1)
        <4>1. Arity(node) > 0 => 1 \in DOMAIN children
          BY <1>2
        <4>2. Arity(node) > 1 => 2 \in DOMAIN children
          BY <1>2
        <4> QED
          BY <3>1, <3>2, <4>1, <4>2
      <3>4. StoresAt(node, x, y) = StoresAt(node, x1, y1)
        BY <3>3, StoresAtOperands
      <3> QED
        BY <1>4, <1>8, <2>1, <3>2, <3>4
    <2>2. CASE p # <<>>
      <3>1. PICK c \in DOMAIN children : \E q \in DOMAIN children[c] : p = Under(c, q)
        BY <1>4, <2>2
      <3>2. PICK q \in DOMAIN children[c] : p = Under(c, q)
        BY <3>1
      <3>3. PICK n : n = t[p]
        OBVIOUS
      <3>4. n = children[c][q] /\ n.k \in Statements
        BY <1>3, <1>4, <3>2, <3>3 DEF Good
      <3>5. PICK g : g = solution(c)
        OBVIOUS
      <3>6. g[q] = StoresAt(n, g[Append(q, 1)], g[Append(q, 2)])
        BY <1>7, <3>4, <3>5 DEF Unrolls
      <3>7. Arity(n) \in {0, 1, 2} /\ \A d \in 1..Arity(n) : Append(q, d) \in DOMAIN children[c]
        BY <1>3, <3>4 DEF Good, Arity
      <3>8. ASSUME NEW d \in {1, 2}, d <= Arity(n)
            PROVE  f[Append(p, d)] = g[Append(q, d)]
        <4>1. Append(q, d) \in DOMAIN children[c]
          BY <3>7, <3>8
        <4>2. Append(p, d) = Under(c, Append(q, d))
          BY <1>6, <3>2
        <4> QED
          BY <1>9, <3>5, <4>1, <4>2
      <3>9. PICK x1, y1, x2, y2 : /\ x1 = f[Append(p, 1)] /\ y1 = f[Append(p, 2)]
                                 /\ x2 = g[Append(q, 1)] /\ y2 = g[Append(q, 2)]
        OBVIOUS
      <3>10. (Arity(n) > 0 => x1 = x2) /\ (Arity(n) > 1 => y1 = y2)
        BY <3>7, <3>8, <3>9
      <3>11. StoresAt(n, x1, y1) = StoresAt(n, x2, y2)
        BY <3>4, <3>10, StoresAtOperands
      <3> QED
        BY <1>9, <3>2, <3>3, <3>5, <3>6, <3>9, <3>11
    <2> QED
      BY <2>1, <2>2
  <1>13. Unrolls(f, t)
    BY <1>8, <1>10, <1>12 DEF Unrolls
  <1>14. ASSUME NEW h, Unrolls(h, t)
         PROVE  h[<<>>] = StoresAt(node, x, y)
    <2>1. \A p \in DOMAIN t : h[p] = StoresAt(t[p], h[Append(p, 1)], h[Append(p, 2)])
      BY <1>14 DEF Unrolls
    <2>2. ASSUME NEW c \in DOMAIN children PROVE h[Append(<<>>, c)] = v[c]
      <3> DEFINE g == [q \in DOMAIN children[c] |-> h[Under(c, q)]]
      <3>1. ASSUME NEW q \in DOMAIN children[c]
            PROVE  g[q] = StoresAt(children[c][q], g[Append(q, 1)], g[Append(q, 2)])
        <4>1. PICK p \in DOMAIN t : p = Under(c, q)
          BY <1>4
        <4>2. PICK n : n = children[c][q]
          OBVIOUS
        <4>3. n = t[p] /\ n.k \in Statements
          BY <1>3, <1>4, <4>1, <4>2 DEF Good
        <4>4. Arity(n) \in {0, 1, 2} /\ \A d \in 1..Arity(n) : Append(q, d) \in DOMAIN children[c]
          BY <1>3, <4>2 DEF Good, Arity
        <4>5. ASSUME NEW d \in {1, 2}, d <= Arity(n)
              PROVE  h[Append(p, d)] = g[Append(q, d)]
          <5>1. Append(q, d) \in DOMAIN children[c]
            BY <4>4, <4>5
          <5>2. Append(p, d) = Under(c, Append(q, d))
            BY <1>6, <4>1
          <5> QED
            BY <5>1, <5>2
        <4>6. PICK x1, y1, x2, y2 : /\ x1 = h[Append(p, 1)] /\ y1 = h[Append(p, 2)]
                                   /\ x2 = g[Append(q, 1)] /\ y2 = g[Append(q, 2)]
          OBVIOUS
        <4>7. (Arity(n) > 0 => x1 = x2) /\ (Arity(n) > 1 => y1 = y2)
          BY <4>4, <4>5, <4>6
        <4>8. StoresAt(n, x1, y1) = StoresAt(n, x2, y2)
          BY <4>3, <4>7, StoresAtOperands
        <4>9. g[q] = h[p]
          BY <4>1
        <4> QED
          BY <2>1, <4>1, <4>2, <4>3, <4>6, <4>8, <4>9
      <3>2. g = [q \in DOMAIN children[c] |-> g[q]]
        OBVIOUS
      <3>3. <<>> \in DOMAIN children[c] /\ g[<<>>] = h[Append(<<>>, c)]
        BY <1>6
      <3> HIDE DEF g
      <3>4. Unrolls(g, children[c])
        BY <3>1, <3>2 DEF Unrolls
      <3> QED
        BY <3>3, <3>4 DEF HasStores
    <2>3. PICK x1, y1 : x1 = h[Append(<<>>, 1)] /\ y1 = h[Append(<<>>, 2)]
      OBVIOUS
    <2>4. (Arity(node) > 0 => x = x1) /\ (Arity(node) > 1 => y = y1)
      <3>1. Arity(node) > 0 => 1 \in DOMAIN children
        BY <1>2
      <3>2. Arity(node) > 1 => 2 \in DOMAIN children
        BY <1>2
      <3> QED
        BY <2>2, <2>3, <3>1, <3>2
    <2>5. StoresAt(node, x, y) = StoresAt(node, x1, y1)
      BY <2>4, StoresAtOperands
    <2> QED
      BY <1>4, <1>5, <2>1, <2>3, <2>5
  <1> QED
    BY <1>1, <1>4, <1>13, <1>14 DEF HasStores

-----------------------------------------------------------------------------
(* Stores as they are written. *)

Collects(f, t) ==
    f = [p \in DOMAIN t |->
            WrittenAt(t[p], f[Append(p, 1)], f[Append(p, 2)])]

(* The root of t has the value v. *)
HasWritten(t, v) ==
    /\ Good(t, Statements)
    /\ \E f : Collects(f, t)
    /\ \A f : Collects(f, t) => f[<<>>] = v

(* A node does not look further than its operands. *)
LEMMA WrittenAtOperands ==
    ASSUME NEW node, node.k \in Statements,
           NEW x1, NEW x2, NEW y1, NEW y2,
           Arity(node) > 0 => x1 = x2, Arity(node) > 1 => y1 = y2
    PROVE  WrittenAt(node, x1, y1) = WrittenAt(node, x2, y2)
  BY DEF WrittenAt, Arity, Statements

(* The value of a tree comes from those of the children. *)
LEMMA HasWrittenTree ==
    ASSUME NEW node, node.k \in Statements,
           NEW children, DOMAIN children = 1..Arity(node), NEW v,
           \A c \in DOMAIN children : HasWritten(children[c], v[c]),
           NEW x, NEW y, Arity(node) > 0 => x = v[1], Arity(node) > 1 => y = v[2]
    PROVE  HasWritten(Tree(node, children), WrittenAt(node, x, y))
  <1>1. PICK t : t = Tree(node, children)
    OBVIOUS
  <1>2. Arity(node) \in {0, 1, 2}
    BY DEF Arity
  <1>3. \A c \in DOMAIN children : Good(children[c], Statements)
    BY DEF HasWritten
  <1>4. /\ Good(t, Statements)
        /\ t[<<>>] = node
        /\ \A p \in DOMAIN t : p # <<>> =>
              \E c \in DOMAIN children : \E q \in DOMAIN children[c] : p = Under(c, q)
        /\ \A c \in DOMAIN children : \A q \in DOMAIN children[c] :
              Under(c, q) \in DOMAIN t /\ t[Under(c, q)] = children[c][q]
    <2>1. DOMAIN children \subseteq Nat /\ \A c \in DOMAIN children : DOMAIN children[c] \subseteq Seq(Nat)
      BY <1>2, <1>3 DEF Good
    <2>2. Good(t, Statements)
      BY <1>1, <1>3, TreeIsGood
    <2>3. t[<<>>] = node
      BY <1>1, TreeRoot
    <2>4. \A p \in DOMAIN t : p # <<>> =>
             \E c \in DOMAIN children : \E q \in DOMAIN children[c] : p = Under(c, q)
      BY ONLY <1>1, TreeInside
    <2>5. \A c \in DOMAIN children : \A q \in DOMAIN children[c] :
             Under(c, q) \in DOMAIN t /\ t[Under(c, q)] = children[c][q]
      BY ONLY <1>1, <2>1, TreeBelow
    <2> QED
      BY <2>2, <2>3, <2>4, <2>5
  <1>5. <<>> \in DOMAIN t
    BY <1>4 DEF Good
  <1>6. ASSUME NEW c \in DOMAIN children
        PROVE  /\ c \in {1, 2} /\ <<>> \in DOMAIN children[c] /\ c <= Arity(node)
               /\ Append(<<>>, c) = Under(c, <<>>)
               /\ \A q \in DOMAIN children[c] :
                     /\ q \in Seq(Nat)
                     /\ Under(c, q)[1] = c /\ Tail(Under(c, q)) = q /\ Under(c, q) # <<>>
                     /\ \A d \in {1, 2} : Append(Under(c, q), d) = Under(c, Append(q, d))
    <2>1. c \in {1, 2} /\ c <= Arity(node)
      BY <1>2
    <2>2. c \in Nat /\ <<>> \in DOMAIN children[c] /\ DOMAIN children[c] \subseteq Seq(Nat)
      BY <1>3, <2>1 DEF Good
    <2>3. {1, 2} \subseteq Nat
      OBVIOUS
    <2> QED
      BY <2>1, <2>2, <2>3, Paths, EmptySeq, ZenonT(60)
  <1> DEFINE solution(c) == CHOOSE g : Collects(g, children[c])
             f == [p \in DOMAIN t |->
                     IF p = <<>> THEN WrittenAt(node, x, y) ELSE solution(p[1])[Tail(p)]]
  <1>7. \A c \in DOMAIN children : Collects(solution(c), children[c])
    BY DEF HasWritten
  <1>8. f[<<>>] = WrittenAt(node, x, y) /\ DOMAIN f = DOMAIN t
    BY <1>5
  <1>9. \A c \in DOMAIN children : \A q \in DOMAIN children[c] :
           f[Under(c, q)] = solution(c)[q]
    BY <1>4, <1>6, ZenonT(60)
  <1>10. f = [p \in DOMAIN t |-> f[p]]
    OBVIOUS
  <1> HIDE DEF f, solution
  <1>11. \A c \in DOMAIN children : solution(c)[<<>>] = v[c]
    BY <1>7 DEF HasWritten
  <1>12. ASSUME NEW p \in DOMAIN t
         PROVE  f[p] = WrittenAt(t[p], f[Append(p, 1)], f[Append(p, 2)])
    <2>1. CASE p = <<>>
      <3>1. ASSUME NEW c \in DOMAIN children PROVE f[Append(p, c)] = v[c]
        BY <1>6, <1>9, <1>11, <2>1
      <3>2. PICK x1, y1 : x1 = f[Append(p, 1)] /\ y1 = f[Append(p, 2)]
        OBVIOUS
      <3>3. (Arity(node) > 0 => x = x1) /\ (Arity(node) > 1 => y = y1)
        <4>1. Arity(node) > 0 => 1 \in DOMAIN children
          BY <1>2
        <4>2. Arity(node) > 1 => 2 \in DOMAIN children
          BY <1>2
        <4> QED
          BY <3>1, <3>2, <4>1, <4>2
      <3>4. WrittenAt(node, x, y) = WrittenAt(node, x1, y1)
        BY <3>3, WrittenAtOperands
      <3> QED
        BY <1>4, <1>8, <2>1, <3>2, <3>4
    <2>2. CASE p # <<>>
      <3>1. PICK c \in DOMAIN children : \E q \in DOMAIN children[c] : p = Under(c, q)
        BY <1>4, <2>2
      <3>2. PICK q \in DOMAIN children[c] : p = Under(c, q)
        BY <3>1
      <3>3. PICK n : n = t[p]
        OBVIOUS
      <3>4. n = children[c][q] /\ n.k \in Statements
        BY <1>3, <1>4, <3>2, <3>3 DEF Good
      <3>5. PICK g : g = solution(c)
        OBVIOUS
      <3>6. g[q] = WrittenAt(n, g[Append(q, 1)], g[Append(q, 2)])
        BY <1>7, <3>4, <3>5 DEF Collects
      <3>7. Arity(n) \in {0, 1, 2} /\ \A d \in 1..Arity(n) : Append(q, d) \in DOMAIN children[c]
        BY <1>3, <3>4 DEF Good, Arity
      <3>8. ASSUME NEW d \in {1, 2}, d <= Arity(n)
            PROVE  f[Append(p, d)] = g[Append(q, d)]
        <4>1. Append(q, d) \in DOMAIN children[c]
          BY <3>7, <3>8
        <4>2. Append(p, d) = Under(c, Append(q, d))
          BY <1>6, <3>2
        <4> QED
          BY <1>9, <3>5, <4>1, <4>2
      <3>9. PICK x1, y1, x2, y2 : /\ x1 = f[Append(p, 1)] /\ y1 = f[Append(p, 2)]
                                 /\ x2 = g[Append(q, 1)] /\ y2 = g[Append(q, 2)]
        OBVIOUS
      <3>10. (Arity(n) > 0 => x1 = x2) /\ (Arity(n) > 1 => y1 = y2)
        BY <3>7, <3>8, <3>9
      <3>11. WrittenAt(n, x1, y1) = WrittenAt(n, x2, y2)
        BY <3>4, <3>10, WrittenAtOperands
      <3> QED
        BY <1>9, <3>2, <3>3, <3>5, <3>6, <3>9, <3>11
    <2> QED
      BY <2>1, <2>2
  <1>13. Collects(f, t)
    BY <1>8, <1>10, <1>12 DEF Collects
  <1>14. ASSUME NEW h, Collects(h, t)
         PROVE  h[<<>>] = WrittenAt(node, x, y)
    <2>1. \A p \in DOMAIN t : h[p] = WrittenAt(t[p], h[Append(p, 1)], h[Append(p, 2)])
      BY <1>14 DEF Collects
    <2>2. ASSUME NEW c \in DOMAIN children PROVE h[Append(<<>>, c)] = v[c]
      <3> DEFINE g == [q \in DOMAIN children[c] |-> h[Under(c, q)]]
      <3>1. ASSUME NEW q \in DOMAIN children[c]
            PROVE  g[q] = WrittenAt(children[c][q], g[Append(q, 1)], g[Append(q, 2)])
        <4>1. PICK p \in DOMAIN t : p = Under(c, q)
          BY <1>4
        <4>2. PICK n : n = children[c][q]
          OBVIOUS
        <4>3. n = t[p] /\ n.k \in Statements
          BY <1>3, <1>4, <4>1, <4>2 DEF Good
        <4>4. Arity(n) \in {0, 1, 2} /\ \A d \in 1..Arity(n) : Append(q, d) \in DOMAIN children[c]
          BY <1>3, <4>2 DEF Good, Arity
        <4>5. ASSUME NEW d \in {1, 2}, d <= Arity(n)
              PROVE  h[Append(p, d)] = g[Append(q, d)]
          <5>1. Append(q, d) \in DOMAIN children[c]
            BY <4>4, <4>5
          <5>2. Append(p, d) = Under(c, Append(q, d))
            BY <1>6, <4>1
          <5> QED
            BY <5>1, <5>2
        <4>6. PICK x1, y1, x2, y2 : /\ x1 = h[Append(p, 1)] /\ y1 = h[Append(p, 2)]
                                   /\ x2 = g[Append(q, 1)] /\ y2 = g[Append(q, 2)]
          OBVIOUS
        <4>7. (Arity(n) > 0 => x1 = x2) /\ (Arity(n) > 1 => y1 = y2)
          BY <4>4, <4>5, <4>6
        <4>8. WrittenAt(n, x1, y1) = WrittenAt(n, x2, y2)
          BY <4>3, <4>7, WrittenAtOperands
        <4>9. g[q] = h[p]
          BY <4>1
        <4> QED
          BY <2>1, <4>1, <4>2, <4>3, <4>6, <4>8, <4>9
      <3>2. g = [q \in DOMAIN children[c] |-> g[q]]
        OBVIOUS
      <3>3. <<>> \in DOMAIN children[c] /\ g[<<>>] = h[Append(<<>>, c)]
        BY <1>6
      <3> HIDE DEF g
      <3>4. Collects(g, children[c])
        BY <3>1, <3>2 DEF Collects
      <3> QED
        BY <3>3, <3>4 DEF HasWritten
    <2>3. PICK x1, y1 : x1 = h[Append(<<>>, 1)] /\ y1 = h[Append(<<>>, 2)]
      OBVIOUS
    <2>4. (Arity(node) > 0 => x = x1) /\ (Arity(node) > 1 => y = y1)
      <3>1. Arity(node) > 0 => 1 \in DOMAIN children
        BY <1>2
      <3>2. Arity(node) > 1 => 2 \in DOMAIN children
        BY <1>2
      <3> QED
        BY <2>2, <2>3, <3>1, <3>2
    <2>5. WrittenAt(node, x, y) = WrittenAt(node, x1, y1)
      BY <2>4, WrittenAtOperands
    <2> QED
      BY <1>4, <1>5, <2>1, <2>3, <2>5
  <1> QED
    BY <1>1, <1>4, <1>13, <1>14 DEF HasWritten

-----------------------------------------------------------------------------
(* The nodes. *)

(* The children of nodes of each arity. *)
LEMMA Children ==
    /\ DOMAIN <<>> = 1..0
    /\ \A x : DOMAIN <<x>> = 1..1 /\ <<x>>[1] = x
    /\ \A x, y : DOMAIN <<x, y>> = 1..2 /\ <<x, y>>[1] = x /\ <<x, y>>[2] = y
  OBVIOUS

(* The value of a node without operands, with one and with two. *)
LEMMA LeafValue ==
    ASSUME NEW env, NEW mem, NEW node, node.k \in Expressions, Arity(node) = 0,
           NEW w, \A x, y : ValueAt(node, env, mem, x, y) = w
    PROVE  HasValue(Leaf(node), env, mem, w)
  <1>1. PICK ch : ch = <<>>
    OBVIOUS
  <1>2. DOMAIN ch = 1..Arity(node) /\ DOMAIN ch = {}
    BY <1>1
  <1>3. HasValue(Tree(node, ch), env, mem, ValueAt(node, env, mem, 0, 0))
    <2>1. \A c \in DOMAIN ch : HasValue(ch[c], env, mem, ch[c])
      BY <1>2
    <2> QED
      BY <1>2, <2>1, HasValueTree
  <1> QED
    BY <1>1, <1>3 DEF Leaf

(* An expression with one operand has the value its operator gives the    *)
(* operand's.                                                             *)
LEMMA UnaryValue ==
    ASSUME NEW env, NEW mem, NEW node, node.k \in Expressions, Arity(node) = 1,
           NEW e, NEW v, HasValue(e, env, mem, v),
           NEW w, \A y : ValueAt(node, env, mem, v, y) = w
    PROVE  HasValue(Tree(node, <<e>>), env, mem, w)
  <1>1. PICK ch, vs : ch = <<e>> /\ vs = <<v>>
    OBVIOUS
  <1>2. DOMAIN ch = 1..Arity(node) /\ DOMAIN ch = {1} /\ ch[1] = e /\ vs[1] = v
    BY <1>1
  <1>3. HasValue(Tree(node, ch), env, mem, ValueAt(node, env, mem, v, 0))
    <2>1. \A c \in DOMAIN ch : HasValue(ch[c], env, mem, vs[c])
      BY <1>2
    <2> QED
      BY <1>2, <2>1, HasValueTree
  <1> QED
    BY <1>1, <1>3

(* An expression with two operands has the value its operator gives the   *)
(* operands'.                                                             *)
LEMMA BinaryValue ==
    ASSUME NEW env, NEW mem, NEW node, node.k \in Expressions, Arity(node) = 2,
           NEW e, NEW v, HasValue(e, env, mem, v), NEW f, NEW u, HasValue(f, env, mem, u)
    PROVE  HasValue(Tree(node, <<e, f>>), env, mem, ValueAt(node, env, mem, v, u))
  <1>1. PICK ch, vs : ch = <<e, f>> /\ vs = <<v, u>>
    OBVIOUS
  <1>2. /\ DOMAIN ch = 1..Arity(node) /\ DOMAIN ch = {1, 2}
        /\ ch[1] = e /\ vs[1] = v /\ ch[2] = f /\ vs[2] = u
    BY <1>1
  <1>3. HasValue(Tree(node, ch), env, mem, ValueAt(node, env, mem, v, u))
    <2>1. \A c \in DOMAIN ch : HasValue(ch[c], env, mem, vs[c])
      BY <1>2
    <2> QED
      BY <1>2, <2>1, HasValueTree
  <1> QED
    BY <1>1, <1>3

(* The same of each constructor. *)
LEMMA ValueOfNum ==
    ASSUME NEW env, NEW mem, NEW n
    PROVE  HasValue(Num(n), env, mem, n)
  <1>1. PICK node : node = [k |-> "num", value |-> n]
    OBVIOUS
  <1>2. node.k \in Expressions /\ Arity(node) = 0
    BY <1>1 DEF Expressions, Arity
  <1>3. \A x, y : ValueAt(node, env, mem, x, y) = n
    BY <1>1 DEF ValueAt
  <1> QED
    BY <1>1, <1>2, <1>3, LeafValue DEF Num

(* A variable's value is the environment's.                               *)
LEMMA ValueOfVar ==
    ASSUME NEW env, NEW mem, NEW x
    PROVE  HasValue(Var(x), env, mem, env[x])
  <1>1. PICK node : node = [k |-> "var", name |-> x]
    OBVIOUS
  <1>2. node.k \in Expressions /\ Arity(node) = 0
    BY <1>1 DEF Expressions, Arity
  <1>3. \A u, v : ValueAt(node, env, mem, u, v) = env[x]
    BY <1>1 DEF ValueAt
  <1> QED
    BY <1>1, <1>2, <1>3, LeafValue DEF Var

(* A load has the value the memory holds at its index.                    *)
LEMMA ValueOfLoad ==
    ASSUME NEW env, NEW mem, NEW base, NEW e, NEW v, HasValue(e, env, mem, v)
    PROVE  HasValue(Load(base, e), env, mem, mem[<<base, v>>])
  <1>1. PICK node : node = [k |-> "load", base |-> base]
    OBVIOUS
  <1>2. node.k \in Expressions /\ Arity(node) = 1
    BY <1>1 DEF Expressions, Arity
  <1>3. \A y : ValueAt(node, env, mem, v, y) = mem[<<base, v>>]
    BY <1>1 DEF ValueAt
  <1> QED
    BY <1>1, <1>2, <1>3, UnaryValue DEF Load

(* What the three operators compute.                                      *)
LEMMA ValueOfBinaryOp ==
    ASSUME NEW env, NEW mem, NEW e, NEW v, HasValue(e, env, mem, v),
           NEW f, NEW u, HasValue(f, env, mem, u)
    PROVE  /\ HasValue(BinaryOp("+", e, f), env, mem, v + u)
           /\ HasValue(BinaryOp("*", e, f), env, mem, v * u)
           /\ HasValue(BinaryOp("mix", e, f), env, mem, Mix(v, u))
  <1>1. ASSUME NEW op, NEW node, node = [k |-> "binary", op |-> op]
        PROVE  HasValue(BinaryOp(op, e, f), env, mem, ValueAt(node, env, mem, v, u))
    <2>1. node.k \in Expressions /\ Arity(node) = 2
      BY <1>1 DEF Expressions, Arity
    <2> QED
      BY <1>1, <2>1, BinaryValue DEF BinaryOp
  <1>2. ASSUME NEW node, node = [k |-> "binary", op |-> "+"]
        PROVE  ValueAt(node, env, mem, v, u) = v + u
    BY <1>2 DEF ValueAt
  <1>3. ASSUME NEW node, node = [k |-> "binary", op |-> "*"]
        PROVE  ValueAt(node, env, mem, v, u) = v * u
    BY <1>3 DEF ValueAt
  <1>4. ASSUME NEW node, node = [k |-> "binary", op |-> "mix"]
        PROVE  ValueAt(node, env, mem, v, u) = Mix(v, u)
    BY <1>4 DEF ValueAt
  <1>5. PICK n1, n2, n3 : /\ n1 = [k |-> "binary", op |-> "+"]
                          /\ n2 = [k |-> "binary", op |-> "*"]
                          /\ n3 = [k |-> "binary", op |-> "mix"]
    OBVIOUS
  <1>6. HasValue(BinaryOp("+", e, f), env, mem, v + u)
    <2>1. HasValue(BinaryOp("+", e, f), env, mem, ValueAt(n1, env, mem, v, u))
      BY <1>1, <1>5
    <2> QED
      BY <1>2, <1>5, <2>1
  <1>7. HasValue(BinaryOp("*", e, f), env, mem, v * u)
    <2>1. HasValue(BinaryOp("*", e, f), env, mem, ValueAt(n2, env, mem, v, u))
      BY <1>1, <1>5
    <2> QED
      BY <1>3, <1>5, <2>1
  <1>8. HasValue(BinaryOp("mix", e, f), env, mem, Mix(v, u))
    <2>1. HasValue(BinaryOp("mix", e, f), env, mem, ValueAt(n3, env, mem, v, u))
      BY <1>1, <1>5
    <2> QED
      BY <1>4, <1>5, <2>1
  <1> QED
    BY <1>6, <1>7, <1>8

(* This is what Eval gives. *)
LEMMA ValueIsEval ==
    ASSUME NEW env, NEW mem, NEW e, NEW v, HasValue(e, env, mem, v)
    PROVE  Eval(e, env, mem) = v
  <1> DEFINE f == CHOOSE g : Evaluates(g, e, env, mem)
  <1>1. Evaluates(f, e, env, mem)
    BY DEF HasValue
  <1>2. Eval(e, env, mem) = f[<<>>]
    BY DEF Eval, Evaluates
  <1> HIDE DEF f
  <1> QED
    BY <1>1, <1>2 DEF HasValue

(* The stores of each constructor. *)
Everywhere(node) == [env \in Environments |-> <<[node |-> node, env |-> env]>>]
InTurn(x, y) == [env \in Environments |-> x[env] \o y[env]]
Rounds(x, var, n) ==
    [env \in Environments |-> FlattenSeq([j \in 1..n |-> x[[env EXCEPT ![var] = j - 1]]])]

(* A statement without substatements makes its own stores.                *)
LEMMA StoresOfLeaf ==
    ASSUME NEW node, node.k \in Statements, Arity(node) = 0
    PROVE  HasStores(Leaf(node), StoresAt(node, 0, 0)) /\ HasWritten(Leaf(node), WrittenAt(node, 0, 0))
  <1>1. PICK ch : ch = <<>>
    OBVIOUS
  <1>2. DOMAIN ch = 1..Arity(node) /\ DOMAIN ch = {}
    BY <1>1
  <1>3. HasStores(Tree(node, ch), StoresAt(node, 0, 0))
    <2>1. \A c \in DOMAIN ch : HasStores(ch[c], ch[c])
      BY <1>2
    <2> QED
      BY <1>2, <2>1, HasStoresTree
  <1>4. HasWritten(Tree(node, ch), WrittenAt(node, 0, 0))
    <2>1. \A c \in DOMAIN ch : HasWritten(ch[c], ch[c])
      BY <1>2
    <2> QED
      BY <1>2, <2>1, HasWrittenTree
  <1> QED
    BY <1>1, <1>3, <1>4 DEF Leaf

(* The empty statement stores nothing.                                    *)
LEMMA StoresOfDummy ==
    HasWritten(Dummy, <<>>) /\ HasStores(Dummy, [env \in Environments |-> <<>>])
  <1>1. PICK node : node = [k |-> "dummy"]
    OBVIOUS
  <1>2. node.k \in Statements /\ Arity(node) = 0
    BY <1>1 DEF Statements, Arity
  <1>3. WrittenAt(node, 0, 0) = <<>> /\ StoresAt(node, 0, 0) = [env \in Environments |-> <<>>]
    BY <1>1 DEF WrittenAt, StoresAt
  <1> QED
    BY <1>1, <1>2, <1>3, StoresOfLeaf DEF Dummy

(* A store is made once, wherever it is run.                              *)
LEMMA StoresOfStore ==
    ASSUME NEW base, NEW index, NEW value,
           NEW node, node = [k |-> "store", base |-> base, index |-> index, value |-> value]
    PROVE  /\ HasWritten(Store(base, index, value), <<node>>)
           /\ HasStores(Store(base, index, value), Everywhere(node))
  <1>1. node.k \in Statements /\ Arity(node) = 0
    BY DEF Statements, Arity
  <1>2. WrittenAt(node, 0, 0) = <<node>> /\ StoresAt(node, 0, 0) = Everywhere(node)
    BY DEF WrittenAt, StoresAt, Everywhere
  <1> QED
    BY <1>1, <1>2, StoresOfLeaf DEF Store

(* A sequence makes the stores of its first part, then of its second.     *)
LEMMA StoresOfSeq2 ==
    ASSUME NEW s, NEW t
    PROVE  /\ \A v, u : HasWritten(s, v) /\ HasWritten(t, u) => HasWritten(Seq2(s, t), v \o u)
           /\ \A v, u : HasStores(s, v) /\ HasStores(t, u) => HasStores(Seq2(s, t), InTurn(v, u))
  <1>1. PICK node, ch : node = [k |-> "seq"] /\ ch = <<s, t>>
    OBVIOUS
  <1>2. node.k \in Statements /\ Arity(node) = 2
    BY <1>1 DEF Statements, Arity
  <1>3. DOMAIN ch = 1..Arity(node) /\ DOMAIN ch = {1, 2} /\ ch[1] = s /\ ch[2] = t
    BY <1>1, <1>2
  <1>4. ASSUME NEW v, NEW u, HasWritten(s, v), HasWritten(t, u)
        PROVE  HasWritten(Seq2(s, t), v \o u)
    <2>1. PICK vs : vs = <<v, u>>
      OBVIOUS
    <2>2. vs[1] = v /\ vs[2] = u
      BY <2>1
    <2>3. \A c \in DOMAIN ch : HasWritten(ch[c], vs[c])
      BY <1>3, <1>4, <2>2
    <2>4. HasWritten(Tree(node, ch), WrittenAt(node, v, u))
      BY <1>2, <1>3, <2>2, <2>3, HasWrittenTree
    <2>5. WrittenAt(node, v, u) = v \o u
      BY <1>1 DEF WrittenAt
    <2> QED
      BY <1>1, <2>4, <2>5 DEF Seq2
  <1>5. ASSUME NEW v, NEW u, HasStores(s, v), HasStores(t, u)
        PROVE  HasStores(Seq2(s, t), InTurn(v, u))
    <2>1. PICK vs : vs = <<v, u>>
      OBVIOUS
    <2>2. vs[1] = v /\ vs[2] = u
      BY <2>1
    <2>3. \A c \in DOMAIN ch : HasStores(ch[c], vs[c])
      BY <1>3, <1>5, <2>2
    <2>4. HasStores(Tree(node, ch), StoresAt(node, v, u))
      BY <1>2, <1>3, <2>2, <2>3, HasStoresTree
    <2>5. StoresAt(node, v, u) = InTurn(v, u)
      BY <1>1 DEF StoresAt, InTurn
    <2> QED
      BY <1>1, <2>4, <2>5 DEF Seq2
  <1> QED
    BY <1>4, <1>5

(* A loop makes the stores of its body once for each value of its         *)
(* variable.                                                              *)
LEMMA StoresOfLoop ==
    ASSUME NEW s, NEW var, NEW n
    PROVE  /\ \A v : HasWritten(s, v) => HasWritten(Loop(var, Num(n), s), v)
           /\ \A v : HasStores(s, v) => HasStores(Loop(var, Num(n), s), Rounds(v, var, n))
  <1>1. PICK node, ch : node = [k |-> "loop", var |-> var, end |-> Num(n)] /\ ch = <<s>>
    OBVIOUS
  <1>2. node.k \in Statements /\ Arity(node) = 1
    BY <1>1 DEF Statements, Arity
  <1>3. DOMAIN ch = 1..Arity(node) /\ DOMAIN ch = {1} /\ ch[1] = s
    BY <1>1, <1>2
  <1>4. ASSUME NEW v, HasWritten(s, v)
        PROVE  HasWritten(Loop(var, Num(n), s), v)
    <2>1. PICK vs : vs = <<v>>
      OBVIOUS
    <2>2. vs[1] = v
      BY <2>1
    <2>3. \A c \in DOMAIN ch : HasWritten(ch[c], vs[c])
      BY <1>3, <1>4, <2>2
    <2>4. HasWritten(Tree(node, ch), WrittenAt(node, v, 0))
      <3>1. (Arity(node) > 0 => v = vs[1]) /\ (Arity(node) > 1 => 0 = vs[2])
        BY <1>2, <2>2
      <3>2. DOMAIN ch = 1..Arity(node) /\ node.k \in Statements
        BY <1>2, <1>3
      <3> QED
        BY ONLY <2>3, <3>1, <3>2, HasWrittenTree
    <2>5. WrittenAt(node, v, 0) = v
      BY <1>1 DEF WrittenAt
    <2> QED
      BY <1>1, <2>4, <2>5 DEF Loop
  <1>5. ASSUME NEW v, HasStores(s, v)
        PROVE  HasStores(Loop(var, Num(n), s), Rounds(v, var, n))
    <2>1. PICK vs : vs = <<v>>
      OBVIOUS
    <2>2. vs[1] = v
      BY <2>1
    <2>3. \A c \in DOMAIN ch : HasStores(ch[c], vs[c])
      BY <1>3, <1>5, <2>2
    <2>4. HasStores(Tree(node, ch), StoresAt(node, v, 0))
      <3>1. (Arity(node) > 0 => v = vs[1]) /\ (Arity(node) > 1 => 0 = vs[2])
        BY <1>2, <2>2
      <3>2. DOMAIN ch = 1..Arity(node) /\ node.k \in Statements
        BY <1>2, <1>3
      <3> QED
        BY ONLY <2>3, <3>1, <3>2, HasStoresTree
    <2>5. node.k = "loop" /\ node.var = var /\ node.end = Num(n)
      BY <1>1
    <2>6. \A env : Eval(node.end, env, <<>>) = n
      <3>1. ASSUME NEW env, NEW mem PROVE Eval(Num(n), env, mem) = n
        BY ValueOfNum, ValueIsEval
      <3> QED
        BY <2>5, <3>1
    <2>7. StoresAt(node, v, 0) = Rounds(v, var, n)
      <3>1. StoresAt(node, v, 0) =
              [env \in Environments |->
                 FlattenSeq([j \in 1..Eval(node.end, env, <<>>) |->
                               v[[env EXCEPT ![node.var] = j - 1]]])]
        BY <2>5 DEF StoresAt
      <3>2. ASSUME NEW env \in Environments
            PROVE  FlattenSeq([j \in 1..Eval(node.end, env, <<>>) |->
                                 v[[env EXCEPT ![node.var] = j - 1]]])
                   = FlattenSeq([j \in 1..n |-> v[[env EXCEPT ![var] = j - 1]]])
        <4>1. PICK m, x : m = Eval(node.end, env, <<>>) /\ x = node.var
          OBVIOUS
        <4>2. m = n /\ x = var
          BY <2>5, <2>6, <4>1
        <4> QED
          BY <4>1, <4>2
      <3> QED
        BY <3>1, <3>2 DEF Rounds
    <2> QED
      BY <1>1, <2>4, <2>7 DEF Loop
  <1> QED
    BY <1>4, <1>5

(* A statement has one list of stores: the one the relations describe.    *)
LEMMA StoresAreThese ==
    ASSUME NEW s
    PROVE  /\ \A v : HasWritten(s, v) => StoresOf(s) = v
           /\ \A v : HasStores(s, v) => \A env : Stores(s, env) = v[env]
  <1>1. ASSUME NEW v, HasWritten(s, v) PROVE StoresOf(s) = v
    <2> DEFINE f == CHOOSE g : Collects(g, s)
    <2>1. Collects(f, s)
      BY <1>1 DEF HasWritten
    <2>2. StoresOf(s) = f[<<>>]
      BY DEF StoresOf, Collects
    <2> HIDE DEF f
    <2> QED
      BY <1>1, <2>1, <2>2 DEF HasWritten
  <1>2. ASSUME NEW v, HasStores(s, v) PROVE \A env : Stores(s, env) = v[env]
    <2> DEFINE f == CHOOSE g : Unrolls(g, s)
    <2>1. Unrolls(f, s)
      BY <1>2 DEF HasStores
    <2>2. \A env : Stores(s, env) = f[<<>>][env]
      BY DEF Stores, Unrolls
    <2> HIDE DEF f
    <2> QED
      BY <1>2, <2>1, <2>2 DEF HasStores
  <1> QED
    BY <1>1, <1>2

-----------------------------------------------------------------------------
(* The recursive definitions: each has a solution, and gives its last      *)
(* value.                                                                  *)

(* Loop nests grow from the inside. *)
Nests(r, prefix, extents, body) ==
    /\ r[0] = body
    /\ \A k \in 1..Len(extents) : r[k] = Loop(MakeIndices(prefix, extents)[Len(extents) + 1 - k], Num(extents[Len(extents) + 1 - k]), r[k - 1])

(* A nest of loops is reached one loop at a time.                         *)
LEMMA NestSteps ==
    ASSUME NEW prefix, NEW extents \in Seq(Nat), NEW body
    PROVE  \E r : Nests(r, prefix, extents, body) /\ NestLoops(prefix, extents, body) = r[Len(extents)]
  <1> DEFINE Partial(m, f) ==
               f = [k \in 0..m |-> IF k = 0 THEN body ELSE Loop(MakeIndices(prefix, extents)[Len(extents) + 1 - k], Num(extents[Len(extents) + 1 - k]), f[k - 1])]
             T == {m \in Nat : m >= 0 /\ ~ \E f : Partial(m, f)}
  <1>1. T = {}
    <2>1. SUFFICES ASSUME T # {} PROVE FALSE
      OBVIOUS
    <2>2. T \in SUBSET Nat
      OBVIOUS
    <2>3. PICK m \in T : \A h \in T : ~(h < m)
      <3> HIDE DEF T
      <3> QED
        BY <2>1, <2>2, LeastNumber
    <2>4. m # 0
      <3> SUFFICES ASSUME m = 0 PROVE FALSE
        OBVIOUS
      <3> DEFINE g == [k \in 0..0 |-> body]
      <3>1. g = [k \in 0..0 |-> IF k = 0 THEN body ELSE Loop(MakeIndices(prefix, extents)[Len(extents) + 1 - k], Num(extents[Len(extents) + 1 - k]), g[k - 1])]
        OBVIOUS
      <3> HIDE DEF g
      <3>2. Partial(0, g)
        BY <3>1
      <3> QED
        BY <2>3, <3>2
    <2>5. m - 1 \in Nat /\ m - 1 >= 0 /\ m - 1 < m /\ m \in Nat
      BY <2>4
    <2>6. PICK f : Partial(m - 1, f)
      BY <2>3, <2>5
    <2> DEFINE g == [k \in 0..m |-> IF k = 0 THEN body ELSE Loop(MakeIndices(prefix, extents)[Len(extents) + 1 - k], Num(extents[Len(extents) + 1 - k]), f[k - 1])]
    <2>7. \A k \in 0..(m - 1) : g[k] = f[k]
      <3> SUFFICES ASSUME NEW k \in 0..(m - 1) PROVE g[k] = f[k]
        OBVIOUS
      <3>1. f[k] = IF k = 0 THEN body ELSE Loop(MakeIndices(prefix, extents)[Len(extents) + 1 - k], Num(extents[Len(extents) + 1 - k]), f[k - 1])
        BY <2>6
      <3>2. k \in 0..m
        BY <2>5
      <3> QED
        BY <3>1, <3>2
    <2>8. \A k \in 0..m : g[k] = IF k = 0 THEN body ELSE Loop(MakeIndices(prefix, extents)[Len(extents) + 1 - k], Num(extents[Len(extents) + 1 - k]), g[k - 1])
      <3> SUFFICES ASSUME NEW k \in 0..m
                   PROVE  g[k] = IF k = 0 THEN body ELSE Loop(MakeIndices(prefix, extents)[Len(extents) + 1 - k], Num(extents[Len(extents) + 1 - k]), g[k - 1])
        OBVIOUS
      <3>1. k # 0 => k - 1 \in 0..(m - 1)
        BY <2>5
      <3>2. k # 0 => g[k - 1] = f[k - 1]
        BY <2>7, <3>1
      <3>3. g[k] = IF k = 0 THEN body ELSE Loop(MakeIndices(prefix, extents)[Len(extents) + 1 - k], Num(extents[Len(extents) + 1 - k]), f[k - 1])
        OBVIOUS
      <3> QED
        BY <3>2, <3>3
    <2>9. g = [k \in 0..m |-> g[k]]
      OBVIOUS
    <2> HIDE DEF g
    <2>10. Partial(m, g)
      BY <2>8, <2>9
    <2> QED
      BY <2>3, <2>10
  <1> DEFINE r == CHOOSE f : Partial(Len(extents), f)
  <1>2. Len(extents) \in Nat /\ Len(extents) >= 0
    OBVIOUS
  <1>3. Partial(Len(extents), r)
    <2>1. \E f : Partial(Len(extents), f)
      BY <1>1, <1>2
    <2> QED
      BY <2>1
  <1>4. NestLoops(prefix, extents, body) = r[Len(extents)]
    BY DEF NestLoops
  <1> HIDE DEF r
  <1>5. r[0] = body /\ \A k \in 1..Len(extents) : r[k] = Loop(MakeIndices(prefix, extents)[Len(extents) + 1 - k], Num(extents[Len(extents) + 1 - k]), r[k - 1])
    <2>1. PICK n \in Nat : n = Len(extents) /\ n >= 0
      BY <1>2
    <2>2. r = [k \in 0..n |-> IF k = 0 THEN body ELSE Loop(MakeIndices(prefix, extents)[Len(extents) + 1 - k], Num(extents[Len(extents) + 1 - k]), r[k - 1])]
      BY <1>3, <2>1
    <2>3. ASSUME NEW k \in 0..n
          PROVE  r[k] = IF k = 0 THEN body ELSE Loop(MakeIndices(prefix, extents)[Len(extents) + 1 - k], Num(extents[Len(extents) + 1 - k]), r[k - 1])
      BY <2>2
    <2>4. 0 \in 0..n /\ \A k \in 1..n : k \in 0..n /\ k # 0
      BY <2>1
    <2> QED
      BY <2>1, <2>3, <2>4
  <1>6. Nests(r, prefix, extents, body)
    BY <1>5 DEF Nests
  <1> QED
    BY <1>4, <1>6

(* Operands are taken in from the left. *)
Folds(r, name, values) ==
    /\ r[1] = values[1]
    /\ \A k \in 2..Len(values) : r[k] = BinaryOp(name, r[k - 1], values[k])

(* An expression of several operands is reached one operand at a time.     *)
LEMMA FoldSteps ==
    ASSUME NEW name, NEW values, Len(values) \in Nat \ {0}
    PROVE  \E r : Folds(r, name, values) /\ FoldBinary(name, values) = r[Len(values)]
  <1> DEFINE Partial(m, f) ==
               f = [k \in 1..m |-> IF k = 1 THEN values[1] ELSE BinaryOp(name, f[k - 1], values[k])]
             T == {m \in Nat : m >= 1 /\ ~ \E f : Partial(m, f)}
  <1>1. T = {}
    <2>1. SUFFICES ASSUME T # {} PROVE FALSE
      OBVIOUS
    <2>2. T \in SUBSET Nat
      OBVIOUS
    <2>3. PICK m \in T : \A h \in T : ~(h < m)
      <3> HIDE DEF T
      <3> QED
        BY <2>1, <2>2, LeastNumber
    <2>4. m # 1
      <3> SUFFICES ASSUME m = 1 PROVE FALSE
        OBVIOUS
      <3> DEFINE g == [k \in 1..1 |-> values[1]]
      <3>1. g = [k \in 1..1 |-> IF k = 1 THEN values[1] ELSE BinaryOp(name, g[k - 1], values[k])]
        OBVIOUS
      <3> HIDE DEF g
      <3>2. Partial(1, g)
        BY <3>1
      <3> QED
        BY <2>3, <3>2
    <2>5. m - 1 \in Nat /\ m - 1 >= 1 /\ m - 1 < m /\ m \in Nat
      BY <2>4
    <2>6. PICK f : Partial(m - 1, f)
      BY <2>3, <2>5
    <2> DEFINE g == [k \in 1..m |-> IF k = 1 THEN values[1] ELSE BinaryOp(name, f[k - 1], values[k])]
    <2>7. \A k \in 1..(m - 1) : g[k] = f[k]
      <3> SUFFICES ASSUME NEW k \in 1..(m - 1) PROVE g[k] = f[k]
        OBVIOUS
      <3>1. f[k] = IF k = 1 THEN values[1] ELSE BinaryOp(name, f[k - 1], values[k])
        BY <2>6
      <3>2. k \in 1..m
        BY <2>5
      <3> QED
        BY <3>1, <3>2
    <2>8. \A k \in 1..m : g[k] = IF k = 1 THEN values[1] ELSE BinaryOp(name, g[k - 1], values[k])
      <3> SUFFICES ASSUME NEW k \in 1..m
                   PROVE  g[k] = IF k = 1 THEN values[1] ELSE BinaryOp(name, g[k - 1], values[k])
        OBVIOUS
      <3>1. k # 1 => k - 1 \in 1..(m - 1)
        BY <2>5
      <3>2. k # 1 => g[k - 1] = f[k - 1]
        BY <2>7, <3>1
      <3>3. g[k] = IF k = 1 THEN values[1] ELSE BinaryOp(name, f[k - 1], values[k])
        OBVIOUS
      <3> QED
        BY <3>2, <3>3
    <2>9. g = [k \in 1..m |-> g[k]]
      OBVIOUS
    <2> HIDE DEF g
    <2>10. Partial(m, g)
      BY <2>8, <2>9
    <2> QED
      BY <2>3, <2>10
  <1> DEFINE r == CHOOSE f : Partial(Len(values), f)
  <1>2. Len(values) \in Nat /\ Len(values) >= 1
    OBVIOUS
  <1>3. Partial(Len(values), r)
    <2>1. \E f : Partial(Len(values), f)
      BY <1>1, <1>2
    <2> QED
      BY <2>1
  <1>4. FoldBinary(name, values) = r[Len(values)]
    BY DEF FoldBinary
  <1> HIDE DEF r
  <1>5. r[1] = values[1] /\ \A k \in 2..Len(values) : r[k] = BinaryOp(name, r[k - 1], values[k])
    <2>1. PICK n \in Nat : n = Len(values) /\ n >= 1
      BY <1>2
    <2>2. r = [k \in 1..n |-> IF k = 1 THEN values[1] ELSE BinaryOp(name, r[k - 1], values[k])]
      BY <1>3, <2>1
    <2>3. ASSUME NEW k \in 1..n
          PROVE  r[k] = IF k = 1 THEN values[1] ELSE BinaryOp(name, r[k - 1], values[k])
      BY <2>2
    <2>4. 1 \in 1..n /\ \A k \in 2..n : k \in 1..n /\ k # 1
      BY <2>1
    <2> QED
      BY <2>1, <2>3, <2>4
  <1>6. Folds(r, name, values)
    BY <1>5 DEF Folds
  <1> QED
    BY <1>4, <1>6

(* And so are their values. *)
Totals(r, name, numbers) ==
    /\ r[1] = numbers[1]
    /\ \A k \in 2..Len(numbers) : r[k] = IF name = "+" THEN r[k - 1] + numbers[k] ELSE r[k - 1] * numbers[k]

(* A sum or a product is reached one operand at a time.                    *)
LEMMA CombinedSteps ==
    ASSUME NEW name, NEW numbers, Len(numbers) \in Nat \ {0}
    PROVE  \E r : Totals(r, name, numbers) /\ Combined(name, numbers) = r[Len(numbers)]
  <1> DEFINE Partial(m, f) ==
               f = [k \in 1..m |-> IF k = 1 THEN numbers[1] ELSE IF name = "+" THEN f[k - 1] + numbers[k] ELSE f[k - 1] * numbers[k]]
             T == {m \in Nat : m >= 1 /\ ~ \E f : Partial(m, f)}
  <1>1. T = {}
    <2>1. SUFFICES ASSUME T # {} PROVE FALSE
      OBVIOUS
    <2>2. T \in SUBSET Nat
      OBVIOUS
    <2>3. PICK m \in T : \A h \in T : ~(h < m)
      <3> HIDE DEF T
      <3> QED
        BY <2>1, <2>2, LeastNumber
    <2>4. m # 1
      <3> SUFFICES ASSUME m = 1 PROVE FALSE
        OBVIOUS
      <3> DEFINE g == [k \in 1..1 |-> numbers[1]]
      <3>1. g = [k \in 1..1 |-> IF k = 1 THEN numbers[1] ELSE IF name = "+" THEN g[k - 1] + numbers[k] ELSE g[k - 1] * numbers[k]]
        OBVIOUS
      <3> HIDE DEF g
      <3>2. Partial(1, g)
        BY <3>1
      <3> QED
        BY <2>3, <3>2
    <2>5. m - 1 \in Nat /\ m - 1 >= 1 /\ m - 1 < m /\ m \in Nat
      BY <2>4
    <2>6. PICK f : Partial(m - 1, f)
      BY <2>3, <2>5
    <2> DEFINE g == [k \in 1..m |-> IF k = 1 THEN numbers[1] ELSE IF name = "+" THEN f[k - 1] + numbers[k] ELSE f[k - 1] * numbers[k]]
    <2>7. \A k \in 1..(m - 1) : g[k] = f[k]
      <3> SUFFICES ASSUME NEW k \in 1..(m - 1) PROVE g[k] = f[k]
        OBVIOUS
      <3>1. f[k] = IF k = 1 THEN numbers[1] ELSE IF name = "+" THEN f[k - 1] + numbers[k] ELSE f[k - 1] * numbers[k]
        BY <2>6
      <3>2. k \in 1..m
        BY <2>5
      <3> QED
        BY <3>1, <3>2
    <2>8. \A k \in 1..m : g[k] = IF k = 1 THEN numbers[1] ELSE IF name = "+" THEN g[k - 1] + numbers[k] ELSE g[k - 1] * numbers[k]
      <3> SUFFICES ASSUME NEW k \in 1..m
                   PROVE  g[k] = IF k = 1 THEN numbers[1] ELSE IF name = "+" THEN g[k - 1] + numbers[k] ELSE g[k - 1] * numbers[k]
        OBVIOUS
      <3>1. k # 1 => k - 1 \in 1..(m - 1)
        BY <2>5
      <3>2. k # 1 => g[k - 1] = f[k - 1]
        BY <2>7, <3>1
      <3>3. g[k] = IF k = 1 THEN numbers[1] ELSE IF name = "+" THEN f[k - 1] + numbers[k] ELSE f[k - 1] * numbers[k]
        OBVIOUS
      <3> QED
        BY <3>2, <3>3
    <2>9. g = [k \in 1..m |-> g[k]]
      OBVIOUS
    <2> HIDE DEF g
    <2>10. Partial(m, g)
      BY <2>8, <2>9
    <2> QED
      BY <2>3, <2>10
  <1> DEFINE r == CHOOSE f : Partial(Len(numbers), f)
  <1>2. Len(numbers) \in Nat /\ Len(numbers) >= 1
    OBVIOUS
  <1>3. Partial(Len(numbers), r)
    <2>1. \E f : Partial(Len(numbers), f)
      BY <1>1, <1>2
    <2> QED
      BY <2>1
  <1>4. Combined(name, numbers) = r[Len(numbers)]
    BY DEF Combined
  <1> HIDE DEF r
  <1>5. r[1] = numbers[1] /\ \A k \in 2..Len(numbers) : r[k] = IF name = "+" THEN r[k - 1] + numbers[k] ELSE r[k - 1] * numbers[k]
    <2>1. PICK n \in Nat : n = Len(numbers) /\ n >= 1
      BY <1>2
    <2>2. r = [k \in 1..n |-> IF k = 1 THEN numbers[1] ELSE IF name = "+" THEN r[k - 1] + numbers[k] ELSE r[k - 1] * numbers[k]]
      BY <1>3, <2>1
    <2>3. ASSUME NEW k \in 1..n
          PROVE  r[k] = IF k = 1 THEN numbers[1] ELSE IF name = "+" THEN r[k - 1] + numbers[k] ELSE r[k - 1] * numbers[k]
      BY <2>2
    <2>4. 1 \in 1..n /\ \A k \in 2..n : k \in 1..n /\ k # 1
      BY <2>1
    <2> QED
      BY <2>1, <2>3, <2>4
  <1>6. Totals(r, name, numbers)
    BY <1>5 DEF Totals
  <1> QED
    BY <1>4, <1>6

(* What is left of the number of a point, from the innermost dimension out. *)
Divides(r, extents, x) ==
    /\ r[0] = x
    /\ \A k \in 1..Len(extents) : r[k] = r[k - 1] \div extents[Len(extents) + 1 - k]

(* A point is reached one dimension at a time.                             *)
LEMMA PointSteps ==
    ASSUME NEW extents \in Seq(Nat), NEW x
    PROVE  \E r : Divides(r, extents, x) /\ Point(extents, x) = [d \in DOMAIN extents |-> r[Len(extents) - d] % extents[d]]
  <1> DEFINE Partial(m, f) ==
               f = [k \in 0..m |-> IF k = 0 THEN x ELSE f[k - 1] \div extents[Len(extents) + 1 - k]]
             T == {m \in Nat : m >= 0 /\ ~ \E f : Partial(m, f)}
  <1>1. T = {}
    <2>1. SUFFICES ASSUME T # {} PROVE FALSE
      OBVIOUS
    <2>2. T \in SUBSET Nat
      OBVIOUS
    <2>3. PICK m \in T : \A h \in T : ~(h < m)
      <3> HIDE DEF T
      <3> QED
        BY <2>1, <2>2, LeastNumber
    <2>4. m # 0
      <3> SUFFICES ASSUME m = 0 PROVE FALSE
        OBVIOUS
      <3> DEFINE g == [k \in 0..0 |-> x]
      <3>1. g = [k \in 0..0 |-> IF k = 0 THEN x ELSE g[k - 1] \div extents[Len(extents) + 1 - k]]
        OBVIOUS
      <3> HIDE DEF g
      <3>2. Partial(0, g)
        BY <3>1
      <3> QED
        BY <2>3, <3>2
    <2>5. m - 1 \in Nat /\ m - 1 >= 0 /\ m - 1 < m /\ m \in Nat
      BY <2>4
    <2>6. PICK f : Partial(m - 1, f)
      BY <2>3, <2>5
    <2> DEFINE g == [k \in 0..m |-> IF k = 0 THEN x ELSE f[k - 1] \div extents[Len(extents) + 1 - k]]
    <2>7. \A k \in 0..(m - 1) : g[k] = f[k]
      <3> SUFFICES ASSUME NEW k \in 0..(m - 1) PROVE g[k] = f[k]
        OBVIOUS
      <3>1. f[k] = IF k = 0 THEN x ELSE f[k - 1] \div extents[Len(extents) + 1 - k]
        BY <2>6
      <3>2. k \in 0..m
        BY <2>5
      <3> QED
        BY <3>1, <3>2
    <2>8. \A k \in 0..m : g[k] = IF k = 0 THEN x ELSE g[k - 1] \div extents[Len(extents) + 1 - k]
      <3> SUFFICES ASSUME NEW k \in 0..m
                   PROVE  g[k] = IF k = 0 THEN x ELSE g[k - 1] \div extents[Len(extents) + 1 - k]
        OBVIOUS
      <3>1. k # 0 => k - 1 \in 0..(m - 1)
        BY <2>5
      <3>2. k # 0 => g[k - 1] = f[k - 1]
        BY <2>7, <3>1
      <3>3. g[k] = IF k = 0 THEN x ELSE f[k - 1] \div extents[Len(extents) + 1 - k]
        OBVIOUS
      <3> QED
        BY <3>2, <3>3
    <2>9. g = [k \in 0..m |-> g[k]]
      OBVIOUS
    <2> HIDE DEF g
    <2>10. Partial(m, g)
      BY <2>8, <2>9
    <2> QED
      BY <2>3, <2>10
  <1> DEFINE r == CHOOSE f : Partial(Len(extents), f)
  <1>2. Len(extents) \in Nat /\ Len(extents) >= 0
    OBVIOUS
  <1>3. Partial(Len(extents), r)
    <2>1. \E f : Partial(Len(extents), f)
      BY <1>1, <1>2
    <2> QED
      BY <2>1
  <1>4. Point(extents, x) = [d \in DOMAIN extents |-> r[Len(extents) - d] % extents[d]]
    BY DEF Point
  <1> HIDE DEF r
  <1>5. r[0] = x /\ \A k \in 1..Len(extents) : r[k] = r[k - 1] \div extents[Len(extents) + 1 - k]
    <2>1. PICK n \in Nat : n = Len(extents) /\ n >= 0
      BY <1>2
    <2>2. r = [k \in 0..n |-> IF k = 0 THEN x ELSE r[k - 1] \div extents[Len(extents) + 1 - k]]
      BY <1>3, <2>1
    <2>3. ASSUME NEW k \in 0..n
          PROVE  r[k] = IF k = 0 THEN x ELSE r[k - 1] \div extents[Len(extents) + 1 - k]
      BY <2>2
    <2>4. 0 \in 0..n /\ \A k \in 1..n : k \in 0..n /\ k # 0
      BY <2>1
    <2> QED
      BY <2>1, <2>3, <2>4
  <1>6. Divides(r, extents, x)
    BY <1>5 DEF Divides
  <1> QED
    BY <1>4, <1>6

(* Expressions take in one load after another. *)
Combines(r, op) ==
    /\ r[0] = Num(1)
    /\ \A k \in 1..Len(op.reads) : r[k] = BinaryOp("mix", r[k - 1], Load(Ref(Role(op.reads[k].name), op.reads[k].name), sympy_to_expr(op.reads[k].index)))

(* The value of an operation is reached one read at a time.                *)
LEMMA EvaluateSteps ==
    ASSUME NEW op, Len(op.reads) \in Nat
    PROVE  \E r : Combines(r, op) /\ Evaluate(op) = r[Len(op.reads)]
  <1> DEFINE Partial(m, f) ==
               f = [k \in 0..m |-> IF k = 0 THEN Num(1) ELSE BinaryOp("mix", f[k - 1], Load(Ref(Role(op.reads[k].name), op.reads[k].name), sympy_to_expr(op.reads[k].index)))]
             T == {m \in Nat : m >= 0 /\ ~ \E f : Partial(m, f)}
  <1>1. T = {}
    <2>1. SUFFICES ASSUME T # {} PROVE FALSE
      OBVIOUS
    <2>2. T \in SUBSET Nat
      OBVIOUS
    <2>3. PICK m \in T : \A h \in T : ~(h < m)
      <3> HIDE DEF T
      <3> QED
        BY <2>1, <2>2, LeastNumber
    <2>4. m # 0
      <3> SUFFICES ASSUME m = 0 PROVE FALSE
        OBVIOUS
      <3> DEFINE g == [k \in 0..0 |-> Num(1)]
      <3>1. g = [k \in 0..0 |-> IF k = 0 THEN Num(1) ELSE BinaryOp("mix", g[k - 1], Load(Ref(Role(op.reads[k].name), op.reads[k].name), sympy_to_expr(op.reads[k].index)))]
        OBVIOUS
      <3> HIDE DEF g
      <3>2. Partial(0, g)
        BY <3>1
      <3> QED
        BY <2>3, <3>2
    <2>5. m - 1 \in Nat /\ m - 1 >= 0 /\ m - 1 < m /\ m \in Nat
      BY <2>4
    <2>6. PICK f : Partial(m - 1, f)
      BY <2>3, <2>5
    <2> DEFINE g == [k \in 0..m |-> IF k = 0 THEN Num(1) ELSE BinaryOp("mix", f[k - 1], Load(Ref(Role(op.reads[k].name), op.reads[k].name), sympy_to_expr(op.reads[k].index)))]
    <2>7. \A k \in 0..(m - 1) : g[k] = f[k]
      <3> SUFFICES ASSUME NEW k \in 0..(m - 1) PROVE g[k] = f[k]
        OBVIOUS
      <3>1. f[k] = IF k = 0 THEN Num(1) ELSE BinaryOp("mix", f[k - 1], Load(Ref(Role(op.reads[k].name), op.reads[k].name), sympy_to_expr(op.reads[k].index)))
        BY <2>6
      <3>2. k \in 0..m
        BY <2>5
      <3> QED
        BY <3>1, <3>2
    <2>8. \A k \in 0..m : g[k] = IF k = 0 THEN Num(1) ELSE BinaryOp("mix", g[k - 1], Load(Ref(Role(op.reads[k].name), op.reads[k].name), sympy_to_expr(op.reads[k].index)))
      <3> SUFFICES ASSUME NEW k \in 0..m
                   PROVE  g[k] = IF k = 0 THEN Num(1) ELSE BinaryOp("mix", g[k - 1], Load(Ref(Role(op.reads[k].name), op.reads[k].name), sympy_to_expr(op.reads[k].index)))
        OBVIOUS
      <3>1. k # 0 => k - 1 \in 0..(m - 1)
        BY <2>5
      <3>2. k # 0 => g[k - 1] = f[k - 1]
        BY <2>7, <3>1
      <3>3. g[k] = IF k = 0 THEN Num(1) ELSE BinaryOp("mix", f[k - 1], Load(Ref(Role(op.reads[k].name), op.reads[k].name), sympy_to_expr(op.reads[k].index)))
        OBVIOUS
      <3> QED
        BY <3>2, <3>3
    <2>9. g = [k \in 0..m |-> g[k]]
      OBVIOUS
    <2> HIDE DEF g
    <2>10. Partial(m, g)
      BY <2>8, <2>9
    <2> QED
      BY <2>3, <2>10
  <1> DEFINE r == CHOOSE f : Partial(Len(op.reads), f)
  <1>2. Len(op.reads) \in Nat /\ Len(op.reads) >= 0
    OBVIOUS
  <1>3. Partial(Len(op.reads), r)
    <2>1. \E f : Partial(Len(op.reads), f)
      BY <1>1, <1>2
    <2> QED
      BY <2>1
  <1>4. Evaluate(op) = r[Len(op.reads)]
    BY DEF Evaluate
  <1> HIDE DEF r
  <1>5. r[0] = Num(1) /\ \A k \in 1..Len(op.reads) : r[k] = BinaryOp("mix", r[k - 1], Load(Ref(Role(op.reads[k].name), op.reads[k].name), sympy_to_expr(op.reads[k].index)))
    <2>1. PICK n \in Nat : n = Len(op.reads) /\ n >= 0
      BY <1>2
    <2>2. r = [k \in 0..n |-> IF k = 0 THEN Num(1) ELSE BinaryOp("mix", r[k - 1], Load(Ref(Role(op.reads[k].name), op.reads[k].name), sympy_to_expr(op.reads[k].index)))]
      BY <1>3, <2>1
    <2>3. ASSUME NEW k \in 0..n
          PROVE  r[k] = IF k = 0 THEN Num(1) ELSE BinaryOp("mix", r[k - 1], Load(Ref(Role(op.reads[k].name), op.reads[k].name), sympy_to_expr(op.reads[k].index)))
      BY <2>2
    <2>4. 0 \in 0..n /\ \A k \in 1..n : k \in 0..n /\ k # 0
      BY <2>1
    <2> QED
      BY <2>1, <2>3, <2>4
  <1>6. Combines(r, op)
    BY <1>5 DEF Combines
  <1> QED
    BY <1>4, <1>6

(* Sizes. *)
Multiplies(r, extents) ==
    /\ r[0] = 1
    /\ \A k \in 1..Len(extents) : r[k] = r[k - 1] * extents[k]

(* The size of a shape is reached one extent at a time.                   *)
LEMMA SizeSteps ==
    ASSUME NEW extents \in Seq(Nat)
    PROVE  \E r : Multiplies(r, extents) /\ Size(extents) = r[Len(extents)]
  <1> DEFINE Partial(m, f) ==
               f = [k \in 0..m |-> IF k = 0 THEN 1 ELSE f[k - 1] * extents[k]]
             T == {m \in Nat : m >= 0 /\ ~ \E f : Partial(m, f)}
  <1>1. T = {}
    <2>1. SUFFICES ASSUME T # {} PROVE FALSE
      OBVIOUS
    <2>2. T \in SUBSET Nat
      OBVIOUS
    <2>3. PICK m \in T : \A h \in T : ~(h < m)
      <3> HIDE DEF T
      <3> QED
        BY <2>1, <2>2, LeastNumber
    <2>4. m # 0
      <3> SUFFICES ASSUME m = 0 PROVE FALSE
        OBVIOUS
      <3> DEFINE g == [k \in 0..0 |-> 1]
      <3>1. g = [k \in 0..0 |-> IF k = 0 THEN 1 ELSE g[k - 1] * extents[k]]
        OBVIOUS
      <3> HIDE DEF g
      <3>2. Partial(0, g)
        BY <3>1
      <3> QED
        BY <2>3, <3>2
    <2>5. m - 1 \in Nat /\ m - 1 >= 0 /\ m - 1 < m /\ m \in Nat
      BY <2>4
    <2>6. PICK f : Partial(m - 1, f)
      BY <2>3, <2>5
    <2> DEFINE g == [k \in 0..m |-> IF k = 0 THEN 1 ELSE f[k - 1] * extents[k]]
    <2>7. \A k \in 0..(m - 1) : g[k] = f[k]
      <3> SUFFICES ASSUME NEW k \in 0..(m - 1) PROVE g[k] = f[k]
        OBVIOUS
      <3>1. f[k] = IF k = 0 THEN 1 ELSE f[k - 1] * extents[k]
        BY <2>6
      <3>2. k \in 0..m
        BY <2>5
      <3> QED
        BY <3>1, <3>2
    <2>8. \A k \in 0..m : g[k] = IF k = 0 THEN 1 ELSE g[k - 1] * extents[k]
      <3> SUFFICES ASSUME NEW k \in 0..m
                   PROVE  g[k] = IF k = 0 THEN 1 ELSE g[k - 1] * extents[k]
        OBVIOUS
      <3>1. k # 0 => k - 1 \in 0..(m - 1)
        BY <2>5
      <3>2. k # 0 => g[k - 1] = f[k - 1]
        BY <2>7, <3>1
      <3>3. g[k] = IF k = 0 THEN 1 ELSE f[k - 1] * extents[k]
        OBVIOUS
      <3> QED
        BY <3>2, <3>3
    <2>9. g = [k \in 0..m |-> g[k]]
      OBVIOUS
    <2> HIDE DEF g
    <2>10. Partial(m, g)
      BY <2>8, <2>9
    <2> QED
      BY <2>3, <2>10
  <1> DEFINE r == CHOOSE f : Partial(Len(extents), f)
  <1>2. Len(extents) \in Nat /\ Len(extents) >= 0
    OBVIOUS
  <1>3. Partial(Len(extents), r)
    <2>1. \E f : Partial(Len(extents), f)
      BY <1>1, <1>2
    <2> QED
      BY <2>1
  <1>4. Size(extents) = r[Len(extents)]
    BY DEF Size
  <1> HIDE DEF r
  <1>5. r[0] = 1 /\ \A k \in 1..Len(extents) : r[k] = r[k - 1] * extents[k]
    <2>1. PICK n \in Nat : n = Len(extents) /\ n >= 0
      BY <1>2
    <2>2. r = [k \in 0..n |-> IF k = 0 THEN 1 ELSE r[k - 1] * extents[k]]
      BY <1>3, <2>1
    <2>3. ASSUME NEW k \in 0..n
          PROVE  r[k] = IF k = 0 THEN 1 ELSE r[k - 1] * extents[k]
      BY <2>2
    <2>4. 0 \in 0..n /\ \A k \in 1..n : k \in 0..n /\ k # 0
      BY <2>1
    <2> QED
      BY <2>1, <2>3, <2>4
  <1>6. Multiplies(r, extents)
    BY <1>5 DEF Multiplies
  <1> QED
    BY <1>4, <1>6

(* Memory while stores run. *)
RunsThrough(r, mem, stores) ==
    /\ r[0] = mem
    /\ \A k \in 1..Len(stores) : r[k] = Put(r[k - 1], stores[k])

(* Running a list of stores goes through one memory after each.           *)
LEMMA RunSteps ==
    ASSUME NEW mem, NEW stores, Len(stores) \in Nat
    PROVE  \E r : RunsThrough(r, mem, stores) /\ Run(mem, stores) = r[Len(stores)]
  <1> DEFINE Partial(m, f) ==
               f = [k \in 0..m |-> IF k = 0 THEN mem ELSE Put(f[k - 1], stores[k])]
             T == {m \in Nat : m >= 0 /\ ~ \E f : Partial(m, f)}
  <1>1. T = {}
    <2>1. SUFFICES ASSUME T # {} PROVE FALSE
      OBVIOUS
    <2>2. T \in SUBSET Nat
      OBVIOUS
    <2>3. PICK m \in T : \A h \in T : ~(h < m)
      <3> HIDE DEF T
      <3> QED
        BY <2>1, <2>2, LeastNumber
    <2>4. m # 0
      <3> SUFFICES ASSUME m = 0 PROVE FALSE
        OBVIOUS
      <3> DEFINE g == [k \in 0..0 |-> mem]
      <3>1. g = [k \in 0..0 |-> IF k = 0 THEN mem ELSE Put(g[k - 1], stores[k])]
        OBVIOUS
      <3> HIDE DEF g
      <3>2. Partial(0, g)
        BY <3>1
      <3> QED
        BY <2>3, <3>2
    <2>5. m - 1 \in Nat /\ m - 1 >= 0 /\ m - 1 < m /\ m \in Nat
      BY <2>4
    <2>6. PICK f : Partial(m - 1, f)
      BY <2>3, <2>5
    <2> DEFINE g == [k \in 0..m |-> IF k = 0 THEN mem ELSE Put(f[k - 1], stores[k])]
    <2>7. \A k \in 0..(m - 1) : g[k] = f[k]
      <3> SUFFICES ASSUME NEW k \in 0..(m - 1) PROVE g[k] = f[k]
        OBVIOUS
      <3>1. f[k] = IF k = 0 THEN mem ELSE Put(f[k - 1], stores[k])
        BY <2>6
      <3>2. k \in 0..m
        BY <2>5
      <3> QED
        BY <3>1, <3>2
    <2>8. \A k \in 0..m : g[k] = IF k = 0 THEN mem ELSE Put(g[k - 1], stores[k])
      <3> SUFFICES ASSUME NEW k \in 0..m
                   PROVE  g[k] = IF k = 0 THEN mem ELSE Put(g[k - 1], stores[k])
        OBVIOUS
      <3>1. k # 0 => k - 1 \in 0..(m - 1)
        BY <2>5
      <3>2. k # 0 => g[k - 1] = f[k - 1]
        BY <2>7, <3>1
      <3>3. g[k] = IF k = 0 THEN mem ELSE Put(f[k - 1], stores[k])
        OBVIOUS
      <3> QED
        BY <3>2, <3>3
    <2>9. g = [k \in 0..m |-> g[k]]
      OBVIOUS
    <2> HIDE DEF g
    <2>10. Partial(m, g)
      BY <2>8, <2>9
    <2> QED
      BY <2>3, <2>10
  <1> DEFINE r == CHOOSE f : Partial(Len(stores), f)
  <1>2. Len(stores) \in Nat /\ Len(stores) >= 0
    OBVIOUS
  <1>3. Partial(Len(stores), r)
    <2>1. \E f : Partial(Len(stores), f)
      BY <1>1, <1>2
    <2> QED
      BY <2>1
  <1>4. Run(mem, stores) = r[Len(stores)]
    BY DEF Run
  <1> HIDE DEF r
  <1>5. r[0] = mem /\ \A k \in 1..Len(stores) : r[k] = Put(r[k - 1], stores[k])
    <2>1. PICK n \in Nat : n = Len(stores) /\ n >= 0
      BY <1>2
    <2>2. r = [k \in 0..n |-> IF k = 0 THEN mem ELSE Put(r[k - 1], stores[k])]
      BY <1>3, <2>1
    <2>3. ASSUME NEW k \in 0..n
          PROVE  r[k] = IF k = 0 THEN mem ELSE Put(r[k - 1], stores[k])
      BY <2>2
    <2>4. 0 \in 0..n /\ \A k \in 1..n : k \in 0..n /\ k # 0
      BY <2>1
    <2> QED
      BY <2>1, <2>3, <2>4
  <1>6. RunsThrough(r, mem, stores)
    BY <1>5 DEF RunsThrough
  <1> QED
    BY <1>4, <1>6

(* The value of an inner function. *)
Mixes(r, mem, op, i, j) ==
    /\ r[0] = 1
    /\ \A k \in 1..Len(op.reads) : r[k] = Mix(r[k - 1], mem[<<op.reads[k].name, InputAddress(op, k, i, j)>>])

(* What a point loads is reached one read at a time.                       *)
LEMMA LoadedSteps ==
    ASSUME NEW mem, NEW op, NEW i, NEW j, Len(op.reads) \in Nat
    PROVE  \E r : Mixes(r, mem, op, i, j) /\ Loaded(mem, op, i, j) = r[Len(op.reads)]
  <1> DEFINE Partial(m, f) ==
               f = [k \in 0..m |-> IF k = 0 THEN 1 ELSE Mix(f[k - 1], mem[<<op.reads[k].name, InputAddress(op, k, i, j)>>])]
             T == {m \in Nat : m >= 0 /\ ~ \E f : Partial(m, f)}
  <1>1. T = {}
    <2>1. SUFFICES ASSUME T # {} PROVE FALSE
      OBVIOUS
    <2>2. T \in SUBSET Nat
      OBVIOUS
    <2>3. PICK m \in T : \A h \in T : ~(h < m)
      <3> HIDE DEF T
      <3> QED
        BY <2>1, <2>2, LeastNumber
    <2>4. m # 0
      <3> SUFFICES ASSUME m = 0 PROVE FALSE
        OBVIOUS
      <3> DEFINE g == [k \in 0..0 |-> 1]
      <3>1. g = [k \in 0..0 |-> IF k = 0 THEN 1 ELSE Mix(g[k - 1], mem[<<op.reads[k].name, InputAddress(op, k, i, j)>>])]
        OBVIOUS
      <3> HIDE DEF g
      <3>2. Partial(0, g)
        BY <3>1
      <3> QED
        BY <2>3, <3>2
    <2>5. m - 1 \in Nat /\ m - 1 >= 0 /\ m - 1 < m /\ m \in Nat
      BY <2>4
    <2>6. PICK f : Partial(m - 1, f)
      BY <2>3, <2>5
    <2> DEFINE g == [k \in 0..m |-> IF k = 0 THEN 1 ELSE Mix(f[k - 1], mem[<<op.reads[k].name, InputAddress(op, k, i, j)>>])]
    <2>7. \A k \in 0..(m - 1) : g[k] = f[k]
      <3> SUFFICES ASSUME NEW k \in 0..(m - 1) PROVE g[k] = f[k]
        OBVIOUS
      <3>1. f[k] = IF k = 0 THEN 1 ELSE Mix(f[k - 1], mem[<<op.reads[k].name, InputAddress(op, k, i, j)>>])
        BY <2>6
      <3>2. k \in 0..m
        BY <2>5
      <3> QED
        BY <3>1, <3>2
    <2>8. \A k \in 0..m : g[k] = IF k = 0 THEN 1 ELSE Mix(g[k - 1], mem[<<op.reads[k].name, InputAddress(op, k, i, j)>>])
      <3> SUFFICES ASSUME NEW k \in 0..m
                   PROVE  g[k] = IF k = 0 THEN 1 ELSE Mix(g[k - 1], mem[<<op.reads[k].name, InputAddress(op, k, i, j)>>])
        OBVIOUS
      <3>1. k # 0 => k - 1 \in 0..(m - 1)
        BY <2>5
      <3>2. k # 0 => g[k - 1] = f[k - 1]
        BY <2>7, <3>1
      <3>3. g[k] = IF k = 0 THEN 1 ELSE Mix(f[k - 1], mem[<<op.reads[k].name, InputAddress(op, k, i, j)>>])
        OBVIOUS
      <3> QED
        BY <3>2, <3>3
    <2>9. g = [k \in 0..m |-> g[k]]
      OBVIOUS
    <2> HIDE DEF g
    <2>10. Partial(m, g)
      BY <2>8, <2>9
    <2> QED
      BY <2>3, <2>10
  <1> DEFINE r == CHOOSE f : Partial(Len(op.reads), f)
  <1>2. Len(op.reads) \in Nat /\ Len(op.reads) >= 0
    OBVIOUS
  <1>3. Partial(Len(op.reads), r)
    <2>1. \E f : Partial(Len(op.reads), f)
      BY <1>1, <1>2
    <2> QED
      BY <2>1
  <1>4. Loaded(mem, op, i, j) = r[Len(op.reads)]
    BY DEF Loaded
  <1> HIDE DEF r
  <1>5. r[0] = 1 /\ \A k \in 1..Len(op.reads) : r[k] = Mix(r[k - 1], mem[<<op.reads[k].name, InputAddress(op, k, i, j)>>])
    <2>1. PICK n \in Nat : n = Len(op.reads) /\ n >= 0
      BY <1>2
    <2>2. r = [k \in 0..n |-> IF k = 0 THEN 1 ELSE Mix(r[k - 1], mem[<<op.reads[k].name, InputAddress(op, k, i, j)>>])]
      BY <1>3, <2>1
    <2>3. ASSUME NEW k \in 0..n
          PROVE  r[k] = IF k = 0 THEN 1 ELSE Mix(r[k - 1], mem[<<op.reads[k].name, InputAddress(op, k, i, j)>>])
      BY <2>2
    <2>4. 0 \in 0..n /\ \A k \in 1..n : k \in 0..n /\ k # 0
      BY <2>1
    <2> QED
      BY <2>1, <2>3, <2>4
  <1>6. Mixes(r, mem, op, i, j)
    BY <1>5 DEF Mixes
  <1> QED
    BY <1>4, <1>6

(* Partial sums. *)
AddsUp(r, mem, op, i) ==
    /\ r[0] = 0
    /\ \A k \in 1..Size(op.reduced) : r[k] = r[k - 1] + Loaded(mem, op, i, k - 1)

(* A sum is reached one term at a time.                                    *)
LEMMA SummedSteps ==
    ASSUME NEW mem, NEW op, NEW i, Size(op.reduced) \in Nat
    PROVE  \E r : AddsUp(r, mem, op, i) /\ Summed(mem, op, i) = r[Size(op.reduced)]
  <1> DEFINE Partial(m, f) ==
               f = [k \in 0..m |-> IF k = 0 THEN 0 ELSE f[k - 1] + Loaded(mem, op, i, k - 1)]
             T == {m \in Nat : m >= 0 /\ ~ \E f : Partial(m, f)}
  <1>1. T = {}
    <2>1. SUFFICES ASSUME T # {} PROVE FALSE
      OBVIOUS
    <2>2. T \in SUBSET Nat
      OBVIOUS
    <2>3. PICK m \in T : \A h \in T : ~(h < m)
      <3> HIDE DEF T
      <3> QED
        BY <2>1, <2>2, LeastNumber
    <2>4. m # 0
      <3> SUFFICES ASSUME m = 0 PROVE FALSE
        OBVIOUS
      <3> DEFINE g == [k \in 0..0 |-> 0]
      <3>1. g = [k \in 0..0 |-> IF k = 0 THEN 0 ELSE g[k - 1] + Loaded(mem, op, i, k - 1)]
        OBVIOUS
      <3> HIDE DEF g
      <3>2. Partial(0, g)
        BY <3>1
      <3> QED
        BY <2>3, <3>2
    <2>5. m - 1 \in Nat /\ m - 1 >= 0 /\ m - 1 < m /\ m \in Nat
      BY <2>4
    <2>6. PICK f : Partial(m - 1, f)
      BY <2>3, <2>5
    <2> DEFINE g == [k \in 0..m |-> IF k = 0 THEN 0 ELSE f[k - 1] + Loaded(mem, op, i, k - 1)]
    <2>7. \A k \in 0..(m - 1) : g[k] = f[k]
      <3> SUFFICES ASSUME NEW k \in 0..(m - 1) PROVE g[k] = f[k]
        OBVIOUS
      <3>1. f[k] = IF k = 0 THEN 0 ELSE f[k - 1] + Loaded(mem, op, i, k - 1)
        BY <2>6
      <3>2. k \in 0..m
        BY <2>5
      <3> QED
        BY <3>1, <3>2
    <2>8. \A k \in 0..m : g[k] = IF k = 0 THEN 0 ELSE g[k - 1] + Loaded(mem, op, i, k - 1)
      <3> SUFFICES ASSUME NEW k \in 0..m
                   PROVE  g[k] = IF k = 0 THEN 0 ELSE g[k - 1] + Loaded(mem, op, i, k - 1)
        OBVIOUS
      <3>1. k # 0 => k - 1 \in 0..(m - 1)
        BY <2>5
      <3>2. k # 0 => g[k - 1] = f[k - 1]
        BY <2>7, <3>1
      <3>3. g[k] = IF k = 0 THEN 0 ELSE f[k - 1] + Loaded(mem, op, i, k - 1)
        OBVIOUS
      <3> QED
        BY <3>2, <3>3
    <2>9. g = [k \in 0..m |-> g[k]]
      OBVIOUS
    <2> HIDE DEF g
    <2>10. Partial(m, g)
      BY <2>8, <2>9
    <2> QED
      BY <2>3, <2>10
  <1> DEFINE r == CHOOSE f : Partial(Size(op.reduced), f)
  <1>2. Size(op.reduced) \in Nat /\ Size(op.reduced) >= 0
    OBVIOUS
  <1>3. Partial(Size(op.reduced), r)
    <2>1. \E f : Partial(Size(op.reduced), f)
      BY <1>1, <1>2
    <2> QED
      BY <2>1
  <1>4. Summed(mem, op, i) = r[Size(op.reduced)]
    BY DEF Summed
  <1> HIDE DEF r
  <1>5. r[0] = 0 /\ \A k \in 1..Size(op.reduced) : r[k] = r[k - 1] + Loaded(mem, op, i, k - 1)
    <2>1. PICK n \in Nat : n = Size(op.reduced) /\ n >= 0
      BY <1>2
    <2>2. r = [k \in 0..n |-> IF k = 0 THEN 0 ELSE r[k - 1] + Loaded(mem, op, i, k - 1)]
      BY <1>3, <2>1
    <2>3. ASSUME NEW k \in 0..n
          PROVE  r[k] = IF k = 0 THEN 0 ELSE r[k - 1] + Loaded(mem, op, i, k - 1)
      BY <2>2
    <2>4. 0 \in 0..n /\ \A k \in 1..n : k \in 0..n /\ k # 0
      BY <2>1
    <2> QED
      BY <2>1, <2>3, <2>4
  <1>6. AddsUp(r, mem, op, i)
    BY <1>5 DEF AddsUp
  <1> QED
    BY <1>4, <1>6

(* The graph's memory, point by point. *)
Gives(r, mem, op) ==
    /\ r[0] = mem
    /\ \A k \in 1..Size(op.ranges) : r[k] = [r[k - 1] EXCEPT ![<<op.name, OutputAddress(op, k - 1)>>] = Result(mem, op, k - 1)]

(* What an operation leaves is reached one point at a time.                *)
LEMMA MeaningSteps ==
    ASSUME NEW mem, NEW op, Size(op.ranges) \in Nat
    PROVE  \E r : Gives(r, mem, op) /\ Meaning(mem, op) = r[Size(op.ranges)]
  <1> DEFINE Partial(m, f) ==
               f = [k \in 0..m |-> IF k = 0 THEN mem ELSE [f[k - 1] EXCEPT ![<<op.name, OutputAddress(op, k - 1)>>] = Result(mem, op, k - 1)]]
             T == {m \in Nat : m >= 0 /\ ~ \E f : Partial(m, f)}
  <1>1. T = {}
    <2>1. SUFFICES ASSUME T # {} PROVE FALSE
      OBVIOUS
    <2>2. T \in SUBSET Nat
      OBVIOUS
    <2>3. PICK m \in T : \A h \in T : ~(h < m)
      <3> HIDE DEF T
      <3> QED
        BY <2>1, <2>2, LeastNumber
    <2>4. m # 0
      <3> SUFFICES ASSUME m = 0 PROVE FALSE
        OBVIOUS
      <3> DEFINE g == [k \in 0..0 |-> mem]
      <3>1. g = [k \in 0..0 |-> IF k = 0 THEN mem ELSE [g[k - 1] EXCEPT ![<<op.name, OutputAddress(op, k - 1)>>] = Result(mem, op, k - 1)]]
        OBVIOUS
      <3> HIDE DEF g
      <3>2. Partial(0, g)
        BY <3>1
      <3> QED
        BY <2>3, <3>2
    <2>5. m - 1 \in Nat /\ m - 1 >= 0 /\ m - 1 < m /\ m \in Nat
      BY <2>4
    <2>6. PICK f : Partial(m - 1, f)
      BY <2>3, <2>5
    <2> DEFINE g == [k \in 0..m |-> IF k = 0 THEN mem ELSE [f[k - 1] EXCEPT ![<<op.name, OutputAddress(op, k - 1)>>] = Result(mem, op, k - 1)]]
    <2>7. \A k \in 0..(m - 1) : g[k] = f[k]
      <3> SUFFICES ASSUME NEW k \in 0..(m - 1) PROVE g[k] = f[k]
        OBVIOUS
      <3>1. f[k] = IF k = 0 THEN mem ELSE [f[k - 1] EXCEPT ![<<op.name, OutputAddress(op, k - 1)>>] = Result(mem, op, k - 1)]
        BY <2>6
      <3>2. k \in 0..m
        BY <2>5
      <3> QED
        BY <3>1, <3>2
    <2>8. \A k \in 0..m : g[k] = IF k = 0 THEN mem ELSE [g[k - 1] EXCEPT ![<<op.name, OutputAddress(op, k - 1)>>] = Result(mem, op, k - 1)]
      <3> SUFFICES ASSUME NEW k \in 0..m
                   PROVE  g[k] = IF k = 0 THEN mem ELSE [g[k - 1] EXCEPT ![<<op.name, OutputAddress(op, k - 1)>>] = Result(mem, op, k - 1)]
        OBVIOUS
      <3>1. k # 0 => k - 1 \in 0..(m - 1)
        BY <2>5
      <3>2. k # 0 => g[k - 1] = f[k - 1]
        BY <2>7, <3>1
      <3>3. g[k] = IF k = 0 THEN mem ELSE [f[k - 1] EXCEPT ![<<op.name, OutputAddress(op, k - 1)>>] = Result(mem, op, k - 1)]
        OBVIOUS
      <3> QED
        BY <3>2, <3>3
    <2>9. g = [k \in 0..m |-> g[k]]
      OBVIOUS
    <2> HIDE DEF g
    <2>10. Partial(m, g)
      BY <2>8, <2>9
    <2> QED
      BY <2>3, <2>10
  <1> DEFINE r == CHOOSE f : Partial(Size(op.ranges), f)
  <1>2. Size(op.ranges) \in Nat /\ Size(op.ranges) >= 0
    OBVIOUS
  <1>3. Partial(Size(op.ranges), r)
    <2>1. \E f : Partial(Size(op.ranges), f)
      BY <1>1, <1>2
    <2> QED
      BY <2>1
  <1>4. Meaning(mem, op) = r[Size(op.ranges)]
    BY DEF Meaning
  <1> HIDE DEF r
  <1>5. r[0] = mem /\ \A k \in 1..Size(op.ranges) : r[k] = [r[k - 1] EXCEPT ![<<op.name, OutputAddress(op, k - 1)>>] = Result(mem, op, k - 1)]
    <2>1. PICK n \in Nat : n = Size(op.ranges) /\ n >= 0
      BY <1>2
    <2>2. r = [k \in 0..n |-> IF k = 0 THEN mem ELSE [r[k - 1] EXCEPT ![<<op.name, OutputAddress(op, k - 1)>>] = Result(mem, op, k - 1)]]
      BY <1>3, <2>1
    <2>3. ASSUME NEW k \in 0..n
          PROVE  r[k] = IF k = 0 THEN mem ELSE [r[k - 1] EXCEPT ![<<op.name, OutputAddress(op, k - 1)>>] = Result(mem, op, k - 1)]
      BY <2>2
    <2>4. 0 \in 0..n /\ \A k \in 1..n : k \in 0..n /\ k # 0
      BY <2>1
    <2> QED
      BY <2>1, <2>3, <2>4
  <1>6. Gives(r, mem, op)
    BY <1>5 DEF Gives
  <1> QED
    BY <1>4, <1>6

(* Memory m with the value x at one place of the bases. *)
Placed(m, bases, p, x) ==
    [c \in Tensors \X Cells |-> IF c[1] \in bases /\ c[2] = p THEN x ELSE m[c]]

(* Memory in which values are put at places of the bases, one after another. *)
Fills(r, mem, bases, place, value, s) ==
    /\ r[0] = mem
    /\ \A k \in 1..s : r[k] = Placed(r[k - 1], bases, place[k - 1], value[k - 1])

(* There is always such a memory.                                          *)
LEMMA FillSteps ==
    ASSUME NEW mem, NEW bases, NEW place, NEW value, NEW s \in Nat
    PROVE  \E r : Fills(r, mem, bases, place, value, s)
  <1> DEFINE Partial(m, f) ==
               f = [k \in 0..m |-> IF k = 0 THEN mem ELSE Placed(f[k - 1], bases, place[k - 1], value[k - 1])]
             T == {m \in Nat : m >= 0 /\ ~ \E f : Partial(m, f)}
  <1>1. T = {}
    <2>1. SUFFICES ASSUME T # {} PROVE FALSE
      OBVIOUS
    <2>2. T \in SUBSET Nat
      OBVIOUS
    <2>3. PICK m \in T : \A h \in T : ~(h < m)
      <3> HIDE DEF T
      <3> QED
        BY <2>1, <2>2, LeastNumber
    <2>4. m # 0
      <3> SUFFICES ASSUME m = 0 PROVE FALSE
        OBVIOUS
      <3> DEFINE g == [k \in 0..0 |-> mem]
      <3>1. g = [k \in 0..0 |-> IF k = 0 THEN mem ELSE Placed(g[k - 1], bases, place[k - 1], value[k - 1])]
        OBVIOUS
      <3> HIDE DEF g
      <3>2. Partial(0, g)
        BY <3>1
      <3> QED
        BY <2>3, <3>2
    <2>5. m - 1 \in Nat /\ m - 1 >= 0 /\ m - 1 < m /\ m \in Nat
      BY <2>4
    <2>6. PICK f : Partial(m - 1, f)
      BY <2>3, <2>5
    <2> DEFINE g == [k \in 0..m |-> IF k = 0 THEN mem ELSE Placed(f[k - 1], bases, place[k - 1], value[k - 1])]
    <2>7. \A k \in 0..(m - 1) : g[k] = f[k]
      <3> SUFFICES ASSUME NEW k \in 0..(m - 1) PROVE g[k] = f[k]
        OBVIOUS
      <3>1. f[k] = IF k = 0 THEN mem ELSE Placed(f[k - 1], bases, place[k - 1], value[k - 1])
        BY <2>6
      <3>2. k \in 0..m
        BY <2>5
      <3> QED
        BY <3>1, <3>2
    <2>8. \A k \in 0..m : g[k] = IF k = 0 THEN mem ELSE Placed(g[k - 1], bases, place[k - 1], value[k - 1])
      <3> SUFFICES ASSUME NEW k \in 0..m
                   PROVE  g[k] = IF k = 0 THEN mem ELSE Placed(g[k - 1], bases, place[k - 1], value[k - 1])
        OBVIOUS
      <3>1. k # 0 => k - 1 \in 0..(m - 1)
        BY <2>5
      <3>2. k # 0 => g[k - 1] = f[k - 1]
        BY <2>7, <3>1
      <3>3. g[k] = IF k = 0 THEN mem ELSE Placed(f[k - 1], bases, place[k - 1], value[k - 1])
        OBVIOUS
      <3> QED
        BY <3>2, <3>3
    <2>9. g = [k \in 0..m |-> g[k]]
      OBVIOUS
    <2> HIDE DEF g
    <2>10. Partial(m, g)
      BY <2>8, <2>9
    <2> QED
      BY <2>3, <2>10
  <1> DEFINE r == CHOOSE f : Partial(s, f)
  <1>2. s \in Nat /\ s >= 0
    OBVIOUS
  <1>3. Partial(s, r)
    <2>1. \E f : Partial(s, f)
      BY <1>1, <1>2
    <2> QED
      BY <2>1
  <1> HIDE DEF r
  <1>5. r[0] = mem /\ \A k \in 1..s : r[k] = Placed(r[k - 1], bases, place[k - 1], value[k - 1])
    <2>1. PICK n \in Nat : n = s /\ n >= 0
      BY <1>2
    <2>2. r = [k \in 0..n |-> IF k = 0 THEN mem ELSE Placed(r[k - 1], bases, place[k - 1], value[k - 1])]
      BY <1>3, <2>1
    <2>3. ASSUME NEW k \in 0..n
          PROVE  r[k] = IF k = 0 THEN mem ELSE Placed(r[k - 1], bases, place[k - 1], value[k - 1])
      BY <2>2
    <2>4. 0 \in 0..n /\ \A k \in 1..n : k \in 0..n /\ k # 0
      BY <2>1
    <2> QED
      BY <2>1, <2>3, <2>4
  <1>6. Fills(r, mem, bases, place, value, s)
    BY <1>5 DEF Fills
  <1> QED
    BY <1>6

(* What the graph computes, operation by operation. *)
Means(r) ==
    /\ r[0] = [at \in Names \X Cells |-> Initially(at[1], at[2])]
    /\ \A k \in 1..Len(operations) : r[k] = Meaning(r[k - 1], operations[k])

(* What the graph means is reached one operation at a time.               *)
LEMMA GraphSteps ==
    ASSUME Len(operations) \in Nat
    PROVE  \E r : Means(r) /\ GraphMemory = r[Len(operations)]
  <1> DEFINE Partial(m, f) ==
               f = [k \in 0..m |-> IF k = 0 THEN [at \in Names \X Cells |-> Initially(at[1], at[2])] ELSE Meaning(f[k - 1], operations[k])]
             T == {m \in Nat : m >= 0 /\ ~ \E f : Partial(m, f)}
  <1>1. T = {}
    <2>1. SUFFICES ASSUME T # {} PROVE FALSE
      OBVIOUS
    <2>2. T \in SUBSET Nat
      OBVIOUS
    <2>3. PICK m \in T : \A h \in T : ~(h < m)
      <3> HIDE DEF T
      <3> QED
        BY <2>1, <2>2, LeastNumber
    <2>4. m # 0
      <3> SUFFICES ASSUME m = 0 PROVE FALSE
        OBVIOUS
      <3> DEFINE g == [k \in 0..0 |-> [at \in Names \X Cells |-> Initially(at[1], at[2])]]
      <3>1. g = [k \in 0..0 |-> IF k = 0 THEN [at \in Names \X Cells |-> Initially(at[1], at[2])] ELSE Meaning(g[k - 1], operations[k])]
        OBVIOUS
      <3> HIDE DEF g
      <3>2. Partial(0, g)
        BY <3>1
      <3> QED
        BY <2>3, <3>2
    <2>5. m - 1 \in Nat /\ m - 1 >= 0 /\ m - 1 < m /\ m \in Nat
      BY <2>4
    <2>6. PICK f : Partial(m - 1, f)
      BY <2>3, <2>5
    <2> DEFINE g == [k \in 0..m |-> IF k = 0 THEN [at \in Names \X Cells |-> Initially(at[1], at[2])] ELSE Meaning(f[k - 1], operations[k])]
    <2>7. \A k \in 0..(m - 1) : g[k] = f[k]
      <3> SUFFICES ASSUME NEW k \in 0..(m - 1) PROVE g[k] = f[k]
        OBVIOUS
      <3>1. f[k] = IF k = 0 THEN [at \in Names \X Cells |-> Initially(at[1], at[2])] ELSE Meaning(f[k - 1], operations[k])
        BY <2>6
      <3>2. k \in 0..m
        BY <2>5
      <3> QED
        BY <3>1, <3>2
    <2>8. \A k \in 0..m : g[k] = IF k = 0 THEN [at \in Names \X Cells |-> Initially(at[1], at[2])] ELSE Meaning(g[k - 1], operations[k])
      <3> SUFFICES ASSUME NEW k \in 0..m
                   PROVE  g[k] = IF k = 0 THEN [at \in Names \X Cells |-> Initially(at[1], at[2])] ELSE Meaning(g[k - 1], operations[k])
        OBVIOUS
      <3>1. k # 0 => k - 1 \in 0..(m - 1)
        BY <2>5
      <3>2. k # 0 => g[k - 1] = f[k - 1]
        BY <2>7, <3>1
      <3>3. g[k] = IF k = 0 THEN [at \in Names \X Cells |-> Initially(at[1], at[2])] ELSE Meaning(f[k - 1], operations[k])
        OBVIOUS
      <3> QED
        BY <3>2, <3>3
    <2>9. g = [k \in 0..m |-> g[k]]
      OBVIOUS
    <2> HIDE DEF g
    <2>10. Partial(m, g)
      BY <2>8, <2>9
    <2> QED
      BY <2>3, <2>10
  <1> DEFINE r == CHOOSE f : Partial(Len(operations), f)
  <1>2. Len(operations) \in Nat /\ Len(operations) >= 0
    OBVIOUS
  <1>3. Partial(Len(operations), r)
    <2>1. \E f : Partial(Len(operations), f)
      BY <1>1, <1>2
    <2> QED
      BY <2>1
  <1>4. GraphMemory = r[Len(operations)]
    BY DEF GraphMemory
  <1> HIDE DEF r
  <1>5. r[0] = [at \in Names \X Cells |-> Initially(at[1], at[2])] /\ \A k \in 1..Len(operations) : r[k] = Meaning(r[k - 1], operations[k])
    <2>1. PICK n \in Nat : n = Len(operations) /\ n >= 0
      BY <1>2
    <2>2. r = [k \in 0..n |-> IF k = 0 THEN [at \in Names \X Cells |-> Initially(at[1], at[2])] ELSE Meaning(r[k - 1], operations[k])]
      BY <1>3, <2>1
    <2>3. ASSUME NEW k \in 0..n
          PROVE  r[k] = IF k = 0 THEN [at \in Names \X Cells |-> Initially(at[1], at[2])] ELSE Meaning(r[k - 1], operations[k])
      BY <2>2
    <2>4. 0 \in 0..n /\ \A k \in 1..n : k \in 0..n /\ k # 0
      BY <2>1
    <2> QED
      BY <2>1, <2>3, <2>4
  <1>6. Means(r)
    BY <1>5 DEF Means
  <1> QED
    BY <1>4, <1>6

(* seq starts from the last statement. *)
Sequences(r, stmts) ==
    /\ r[1] = Last(stmts)
    /\ \A k \in 2..Len(stmts) : r[k] = Seq2(stmts[Len(stmts) + 1 - k], r[k - 1])

(* The program is reached one statement at a time, from the last.         *)
LEMMA SeqSteps ==
    ASSUME NEW stmts, Len(stmts) \in Nat \ {0}
    PROVE  \E r : Sequences(r, stmts) /\ seq(stmts) = r[Len(stmts)]
  <1> DEFINE Partial(m, f) ==
               f = [k \in 1..m |-> IF k = 1 THEN Last(stmts) ELSE Seq2(stmts[Len(stmts) + 1 - k], f[k - 1])]
             T == {m \in Nat : m >= 1 /\ ~ \E f : Partial(m, f)}
  <1>1. T = {}
    <2>1. SUFFICES ASSUME T # {} PROVE FALSE
      OBVIOUS
    <2>2. T \in SUBSET Nat
      OBVIOUS
    <2>3. PICK m \in T : \A h \in T : ~(h < m)
      <3> HIDE DEF T
      <3> QED
        BY <2>1, <2>2, LeastNumber
    <2>4. m # 1
      <3> SUFFICES ASSUME m = 1 PROVE FALSE
        OBVIOUS
      <3> DEFINE g == [k \in 1..1 |-> Last(stmts)]
      <3>1. g = [k \in 1..1 |-> IF k = 1 THEN Last(stmts) ELSE Seq2(stmts[Len(stmts) + 1 - k], g[k - 1])]
        OBVIOUS
      <3> HIDE DEF g
      <3>2. Partial(1, g)
        BY <3>1
      <3> QED
        BY <2>3, <3>2
    <2>5. m - 1 \in Nat /\ m - 1 >= 1 /\ m - 1 < m /\ m \in Nat
      BY <2>4
    <2>6. PICK f : Partial(m - 1, f)
      BY <2>3, <2>5
    <2> DEFINE g == [k \in 1..m |-> IF k = 1 THEN Last(stmts) ELSE Seq2(stmts[Len(stmts) + 1 - k], f[k - 1])]
    <2>7. \A k \in 1..(m - 1) : g[k] = f[k]
      <3> SUFFICES ASSUME NEW k \in 1..(m - 1) PROVE g[k] = f[k]
        OBVIOUS
      <3>1. f[k] = IF k = 1 THEN Last(stmts) ELSE Seq2(stmts[Len(stmts) + 1 - k], f[k - 1])
        BY <2>6
      <3>2. k \in 1..m
        BY <2>5
      <3> QED
        BY <3>1, <3>2
    <2>8. \A k \in 1..m : g[k] = IF k = 1 THEN Last(stmts) ELSE Seq2(stmts[Len(stmts) + 1 - k], g[k - 1])
      <3> SUFFICES ASSUME NEW k \in 1..m
                   PROVE  g[k] = IF k = 1 THEN Last(stmts) ELSE Seq2(stmts[Len(stmts) + 1 - k], g[k - 1])
        OBVIOUS
      <3>1. k # 1 => k - 1 \in 1..(m - 1)
        BY <2>5
      <3>2. k # 1 => g[k - 1] = f[k - 1]
        BY <2>7, <3>1
      <3>3. g[k] = IF k = 1 THEN Last(stmts) ELSE Seq2(stmts[Len(stmts) + 1 - k], f[k - 1])
        OBVIOUS
      <3> QED
        BY <3>2, <3>3
    <2>9. g = [k \in 1..m |-> g[k]]
      OBVIOUS
    <2> HIDE DEF g
    <2>10. Partial(m, g)
      BY <2>8, <2>9
    <2> QED
      BY <2>3, <2>10
  <1> DEFINE r == CHOOSE f : Partial(Len(stmts), f)
  <1>2. Len(stmts) \in Nat /\ Len(stmts) >= 1
    OBVIOUS
  <1>3. Partial(Len(stmts), r)
    <2>1. \E f : Partial(Len(stmts), f)
      BY <1>1, <1>2
    <2> QED
      BY <2>1
  <1>4. seq(stmts) = r[Len(stmts)]
    BY DEF seq
  <1> HIDE DEF r
  <1>5. r[1] = Last(stmts) /\ \A k \in 2..Len(stmts) : r[k] = Seq2(stmts[Len(stmts) + 1 - k], r[k - 1])
    <2>1. PICK n \in Nat : n = Len(stmts) /\ n >= 1
      BY <1>2
    <2>2. r = [k \in 1..n |-> IF k = 1 THEN Last(stmts) ELSE Seq2(stmts[Len(stmts) + 1 - k], r[k - 1])]
      BY <1>3, <2>1
    <2>3. ASSUME NEW k \in 1..n
          PROVE  r[k] = IF k = 1 THEN Last(stmts) ELSE Seq2(stmts[Len(stmts) + 1 - k], r[k - 1])
      BY <2>2
    <2>4. 1 \in 1..n /\ \A k \in 2..n : k \in 1..n /\ k # 1
      BY <2>1
    <2> QED
      BY <2>1, <2>3, <2>4
  <1>6. Sequences(r, stmts)
    BY <1>5 DEF Sequences
  <1> QED
    BY <1>4, <1>6

(* Sequences are joined from the first on. *)
Joins(r, seqs) ==
    /\ r[1] = seqs[1]
    /\ \A k \in 2..Len(seqs) : r[k] = r[k - 1] \o seqs[k]

(* The place of a point is reached one dimension at a time.               *)
LEMMA FlattenSteps ==
    ASSUME NEW seqs, Len(seqs) \in Nat \ {0}
    PROVE  \E r : Joins(r, seqs) /\ FlattenSeq(seqs) = r[Len(seqs)]
  <1> DEFINE Partial(m, f) ==
               f = [k \in 1..m |-> IF k = 1 THEN seqs[1] ELSE f[k - 1] \o seqs[k]]
             T == {m \in Nat : m >= 1 /\ ~ \E f : Partial(m, f)}
  <1>1. T = {}
    <2>1. SUFFICES ASSUME T # {} PROVE FALSE
      OBVIOUS
    <2>2. T \in SUBSET Nat
      OBVIOUS
    <2>3. PICK m \in T : \A h \in T : ~(h < m)
      <3> HIDE DEF T
      <3> QED
        BY <2>1, <2>2, LeastNumber
    <2>4. m # 1
      <3> SUFFICES ASSUME m = 1 PROVE FALSE
        OBVIOUS
      <3> DEFINE g == [k \in 1..1 |-> seqs[1]]
      <3>1. g = [k \in 1..1 |-> IF k = 1 THEN seqs[1] ELSE g[k - 1] \o seqs[k]]
        OBVIOUS
      <3> HIDE DEF g
      <3>2. Partial(1, g)
        BY <3>1
      <3> QED
        BY <2>3, <3>2
    <2>5. m - 1 \in Nat /\ m - 1 >= 1 /\ m - 1 < m /\ m \in Nat
      BY <2>4
    <2>6. PICK f : Partial(m - 1, f)
      BY <2>3, <2>5
    <2> DEFINE g == [k \in 1..m |-> IF k = 1 THEN seqs[1] ELSE f[k - 1] \o seqs[k]]
    <2>7. \A k \in 1..(m - 1) : g[k] = f[k]
      <3> SUFFICES ASSUME NEW k \in 1..(m - 1) PROVE g[k] = f[k]
        OBVIOUS
      <3>1. f[k] = IF k = 1 THEN seqs[1] ELSE f[k - 1] \o seqs[k]
        BY <2>6
      <3>2. k \in 1..m
        BY <2>5
      <3> QED
        BY <3>1, <3>2
    <2>8. \A k \in 1..m : g[k] = IF k = 1 THEN seqs[1] ELSE g[k - 1] \o seqs[k]
      <3> SUFFICES ASSUME NEW k \in 1..m
                   PROVE  g[k] = IF k = 1 THEN seqs[1] ELSE g[k - 1] \o seqs[k]
        OBVIOUS
      <3>1. k # 1 => k - 1 \in 1..(m - 1)
        BY <2>5
      <3>2. k # 1 => g[k - 1] = f[k - 1]
        BY <2>7, <3>1
      <3>3. g[k] = IF k = 1 THEN seqs[1] ELSE f[k - 1] \o seqs[k]
        OBVIOUS
      <3> QED
        BY <3>2, <3>3
    <2>9. g = [k \in 1..m |-> g[k]]
      OBVIOUS
    <2> HIDE DEF g
    <2>10. Partial(m, g)
      BY <2>8, <2>9, Zenon
    <2> QED
      BY <2>3, <2>10
  <1> DEFINE r == CHOOSE f : Partial(Len(seqs), f)
  <1>2. Len(seqs) \in Nat /\ Len(seqs) >= 1
    OBVIOUS
  <1>3. Partial(Len(seqs), r)
    <2>1. \E f : Partial(Len(seqs), f)
      BY <1>1, <1>2
    <2> QED
      BY <2>1, Zenon
  <1>4. FlattenSeq(seqs) = r[Len(seqs)]
    BY DEF FlattenSeq
  <1> HIDE DEF r
  <1>5. r[1] = seqs[1] /\ \A k \in 2..Len(seqs) : r[k] = r[k - 1] \o seqs[k]
    <2>1. PICK n \in Nat : n = Len(seqs) /\ n >= 1
      BY <1>2
    <2>2. r = [k \in 1..n |-> IF k = 1 THEN seqs[1] ELSE r[k - 1] \o seqs[k]]
      BY <1>3, <2>1
    <2>3. ASSUME NEW k \in 1..n
          PROVE  r[k] = IF k = 1 THEN seqs[1] ELSE r[k - 1] \o seqs[k]
      BY <2>2
    <2>4. 1 \in 1..n /\ \A k \in 2..n : k \in 1..n /\ k # 1
      BY <2>1
    <2> QED
      BY <2>1, <2>3, <2>4
  <1>6. Joins(r, seqs)
    BY <1>5 DEF Joins
  <1> QED
    BY <1>4, <1>6

-----------------------------------------------------------------------------
(* What statements write and what their values load. *)

(* A sequence of anything. *)
IsSequence(w) == \E V : w \in Seq(V)

(* Where the members of two joined sequences stand.                       *)
LEMMA Joining ==
    ASSUME NEW v, IsSequence(v), NEW w, IsSequence(w)
    PROVE  /\ IsSequence(v \o w)
           /\ Len(v) \in Nat /\ Len(w) \in Nat /\ Len(v \o w) = Len(v) + Len(w)
           /\ \A i \in 1..Len(v) : (v \o w)[i] = v[i]
           /\ \A i \in 1..Len(w) : (v \o w)[Len(v) + i] = w[i]
  <1>1. PICK V : v \in Seq(V)
    BY DEF IsSequence
  <1>2. PICK W : w \in Seq(W)
    BY DEF IsSequence
  <1>3. PICK U : U = V \cup W
    OBVIOUS
  <1>4. v \in Seq(U)
    <2>1. Len(v) \in Nat /\ DOMAIN v = 1..Len(v) /\ \A i \in 1..Len(v) : v[i] \in U
      BY <1>1, <1>3
    <2> QED
      BY <1>1, <1>3, SeqMonotonic
  <1>5. w \in Seq(U)
    <2>1. W \subseteq U
      BY <1>3
    <2> QED
      BY <1>2, <2>1, SeqMonotonic
  <1>6. v \o w \in Seq(U) /\ Len(v \o w) = Len(v) + Len(w)
    BY <1>4, <1>5
  <1>7. \A i \in 1..Len(v) : (v \o w)[i] = v[i]
    BY <1>4, <1>5
  <1>8. \A i \in 1..Len(w) : (v \o w)[Len(v) + i] = w[i]
    BY <1>4, <1>5
  <1> QED
    BY <1>4, <1>5, <1>6, <1>7, <1>8 DEF IsSequence

(* The positions of a sequence.                                           *)
LEMMA Positions ==
    ASSUME NEW w, IsSequence(w)
    PROVE  DOMAIN w = 1..Len(w) /\ Len(w) \in Nat
  BY DEF IsSequence

(* A sequence of one member.                                              *)
LEMMA One ==
    ASSUME NEW x
    PROVE  IsSequence(<<x>>) /\ DOMAIN <<x>> = 1..1 /\ Len(<<x>>) = 1 /\ <<x>>[1] = x
  <1>1. <<x>> \in Seq({x})
    OBVIOUS
  <1>2. IsSequence(<<x>>)
    BY <1>1 DEF IsSequence
  <1>3. DOMAIN <<x>> = 1..1 /\ Len(<<x>>) = 1 /\ <<x>>[1] = x
    OBVIOUS
  <1> QED
    BY <1>2, <1>3

(* Something and then a sequence. *)
LEMMA OneMore ==
    ASSUME NEW x, NEW v, IsSequence(v)
    PROVE  /\ IsSequence(<<x>> \o v) /\ Len(<<x>> \o v) = Len(v) + 1
           /\ (<<x>> \o v)[1] = x
  <1>1. PICK u : u = <<x>>
    OBVIOUS
  <1>2. IsSequence(u) /\ Len(u) = 1 /\ u[1] = x
    BY <1>1, One
  <1>3. IsSequence(u \o v) /\ Len(u \o v) = Len(u) + Len(v) /\ Len(v) \in Nat
    BY <1>2, Joining
  <1>4. \A i \in 1..Len(u) : (u \o v)[i] = u[i]
    BY <1>2, Joining
  <1> QED
    BY <1>1, <1>2, <1>3, <1>4

(* Putting one in front moves every member up by one.                     *)
LEMMA OneMoreAt ==
    ASSUME NEW x, NEW v, IsSequence(v), NEW i \in 1..Len(v)
    PROVE  (<<x>> \o v)[1 + i] = v[i]
  <1>1. PICK u : u = <<x>>
    OBVIOUS
  <1>2. IsSequence(u) /\ Len(u) = 1
    BY <1>1, One
  <1>3. \A j \in 1..Len(v) : (u \o v)[Len(u) + j] = v[j]
    <2>1. IsSequence(u)
      BY <1>2
    <2> QED
      BY ONLY <2>1, IsSequence(v), Joining
  <1>4. (u \o v)[Len(u) + i] = v[i]
    BY <1>3
  <1> QED
    BY <1>1, <1>2, <1>4

(* A nest writes what its body does. *)
LEMMA WrittenByNest ==
    ASSUME NEW prefix, NEW extents \in Seq(Nat), NEW body, NEW w, HasWritten(body, w)
    PROVE  HasWritten(NestLoops(prefix, extents, body), w)
  <1>1. PICK r : /\ Nests(r, prefix, extents, body)
                 /\ NestLoops(prefix, extents, body) = r[Len(extents)]
    BY NestSteps
  <1> DEFINE T == {k \in 0..Len(extents) : HasWritten(r[k], w)}
  <1>2. 0 \in T
    BY <1>1 DEF Nests
  <1>3. \A k \in 1..Len(extents) : k - 1 \in T => k \in T
    <2> SUFFICES ASSUME NEW k \in 1..Len(extents), k - 1 \in T PROVE k \in T
      OBVIOUS
    <2>1. PICK v, n : v = MakeIndices(prefix, extents)[Len(extents) + 1 - k]
                      /\ n = extents[Len(extents) + 1 - k]
      OBVIOUS
    <2>2. r[k] = Loop(v, Num(n), r[k - 1])
      BY <1>1, <2>1 DEF Nests
    <2>3. HasWritten(r[k], w)
      BY <2>2, StoresOfLoop
    <2> QED
      BY <2>3
  <1>4. Len(extents) \in Nat /\ Len(extents) \in 0..Len(extents)
    OBVIOUS
  <1>5. Len(extents) \in T
    <2> HIDE DEF T
    <2> QED
      BY <1>2, <1>3, <1>4, UpTo
  <1> QED
    BY <1>1, <1>5

(* An expression that only loads from some tensors. *)
OnlyLoads(e, bases) == Good(e, Expressions) /\ LoadsOf(e) \subseteq bases

(* An expression loads only what its operands and its own node load.      *)
LEMMA LoadsOfTree ==
    ASSUME NEW bases, NEW node, node.k \in Expressions, NEW children,
           DOMAIN children = 1..Arity(node),
           \A c \in DOMAIN children : OnlyLoads(children[c], bases),
           node.k = "load" => node.base \in bases
    PROVE  OnlyLoads(Tree(node, children), bases)
  <1>1. PICK t : t = Tree(node, children)
    OBVIOUS
  <1>2. Arity(node) \in {0, 1, 2} /\ DOMAIN children \subseteq Nat
    BY DEF Arity
  <1>3. \A c \in DOMAIN children : Good(children[c], Expressions)
    BY DEF OnlyLoads
  <1>4. Good(t, Expressions)
    BY <1>1, <1>3, TreeIsGood
  <1>5. t[<<>>] = node
    BY <1>1, TreeRoot
  <1>6. \A p \in DOMAIN t : p # <<>> =>
           \E c \in DOMAIN children : \E q \in DOMAIN children[c] : p = Under(c, q)
    BY ONLY <1>1, TreeInside
  <1>7. \A c \in DOMAIN children : \A q \in DOMAIN children[c] :
           Under(c, q) \in DOMAIN t /\ t[Under(c, q)] = children[c][q]
    <2>1. \A c \in DOMAIN children : DOMAIN children[c] \subseteq Seq(Nat)
      BY <1>3 DEF Good
    <2> QED
      BY ONLY <1>1, <1>2, <2>1, TreeBelow
  <1>8. ASSUME NEW p \in DOMAIN t, t[p].k = "load" PROVE t[p].base \in bases
    <2>1. CASE p = <<>>
      BY <1>5, <1>8, <2>1
    <2>2. CASE p # <<>>
      <3>1. PICK c \in DOMAIN children : \E q \in DOMAIN children[c] : p = Under(c, q)
        BY <1>6, <2>2
      <3>2. PICK q \in DOMAIN children[c] : p = Under(c, q)
        BY <3>1
      <3>3. PICK e : e = children[c]
        OBVIOUS
      <3>4. q \in DOMAIN e /\ t[p] = e[q] /\ e[q].k = "load"
        BY <1>7, <1>8, <3>2, <3>3
      <3>5. e[q].base \in LoadsOf(e)
        BY <3>4 DEF LoadsOf
      <3> QED
        BY <3>3, <3>4, <3>5 DEF OnlyLoads
    <2> QED
      BY <2>1, <2>2
  <1>9. LoadsOf(t) \subseteq bases
    BY <1>8 DEF LoadsOf
  <1> QED
    BY <1>1, <1>4, <1>9 DEF OnlyLoads

(* What each kind of expression loads.                                    *)
LEMMA LoadsOfNodes ==
    ASSUME NEW bases
    PROVE  /\ \A n : OnlyLoads(Num(n), bases)
           /\ \A x : OnlyLoads(Var(x), bases)
           /\ \A e, f, op : OnlyLoads(e, bases) /\ OnlyLoads(f, bases) =>
                 OnlyLoads(BinaryOp(op, e, f), bases)
           /\ \A e : \A base \in bases : OnlyLoads(e, bases) => OnlyLoads(Load(base, e), bases)
  <1>1. ASSUME NEW node, node.k \in {"num", "var"} PROVE OnlyLoads(Leaf(node), bases)
    <2>1. PICK ch : ch = <<>>
      OBVIOUS
    <2>2. DOMAIN ch = 1..Arity(node) /\ DOMAIN ch = {}
      BY <1>1, <2>1 DEF Arity
    <2>3. node.k \in Expressions /\ node.k # "load"
      BY <1>1 DEF Expressions
    <2>4. \A c \in DOMAIN ch : OnlyLoads(ch[c], bases)
      BY <2>2
    <2>5. OnlyLoads(Tree(node, ch), bases)
      BY <2>2, <2>3, <2>4, LoadsOfTree
    <2> QED
      BY <2>1, <2>5 DEF Leaf
  <1>2. ASSUME NEW n PROVE OnlyLoads(Num(n), bases)
    <2>1. PICK node : node = [k |-> "num", value |-> n]
      OBVIOUS
    <2> QED
      BY <1>1, <2>1 DEF Num
  <1>3. ASSUME NEW x PROVE OnlyLoads(Var(x), bases)
    <2>1. PICK node : node = [k |-> "var", name |-> x]
      OBVIOUS
    <2> QED
      BY <1>1, <2>1 DEF Var
  <1>4. ASSUME NEW e, NEW f, NEW op, OnlyLoads(e, bases), OnlyLoads(f, bases)
        PROVE  OnlyLoads(BinaryOp(op, e, f), bases)
    <2>1. PICK node, ch : node = [k |-> "binary", op |-> op] /\ ch = <<e, f>>
      OBVIOUS
    <2>2. node.k \in Expressions /\ node.k # "load" /\ Arity(node) = 2
      BY <2>1 DEF Expressions, Arity
    <2>3. DOMAIN ch = 1..Arity(node) /\ DOMAIN ch = {1, 2} /\ ch[1] = e /\ ch[2] = f
      BY <2>1, <2>2
    <2>4. \A c \in DOMAIN ch : OnlyLoads(ch[c], bases)
      BY <1>4, <2>3
    <2>5. OnlyLoads(Tree(node, ch), bases)
      BY <2>2, <2>3, <2>4, LoadsOfTree
    <2> QED
      BY <2>1, <2>5 DEF BinaryOp
  <1>5. ASSUME NEW e, NEW base \in bases, OnlyLoads(e, bases)
        PROVE  OnlyLoads(Load(base, e), bases)
    <2>1. PICK node, ch : node = [k |-> "load", base |-> base] /\ ch = <<e>>
      OBVIOUS
    <2>2. node.k \in Expressions /\ node.base \in bases /\ Arity(node) = 1
      BY <2>1 DEF Expressions, Arity
    <2>3. DOMAIN ch = 1..Arity(node) /\ DOMAIN ch = {1} /\ ch[1] = e
      BY <2>1, <2>2
    <2>4. \A c \in DOMAIN ch : OnlyLoads(ch[c], bases)
      BY <1>5, <2>3
    <2>5. OnlyLoads(Tree(node, ch), bases)
      BY <2>2, <2>3, <2>4, LoadsOfTree
    <2> QED
      BY <2>1, <2>5 DEF Load
  <1> QED
    BY <1>2, <1>3, <1>4, <1>5

(* A function on 1..n is a sequence.                                       *)
LEMMA SeqOfFunction ==
    ASSUME NEW n \in Nat, NEW w, w = [k \in 1..n |-> w[k]]
    PROVE  IsSequence(w) /\ Len(w) = n
  <1>1. w \in [1..n -> {w[k] : k \in 1..n}]
    OBVIOUS
  <1>2. w \in Seq({w[k] : k \in 1..n}) /\ Len(w) = n
    BY <1>1, SeqDef
  <1> QED
    BY <1>2 DEF IsSequence

(* Indices as the graph has them, and as sympy_to_expr writes them. *)
IsIndex(index) ==
    /\ index \in Seq(Seq(Factors)) /\ index # <<>>
    /\ \A s \in DOMAIN index : index[s] # <<>>
FactorExprs(summand) == [f \in DOMAIN summand |-> FactorExpr(summand[f])]
SummandExprs(index) == [s \in DOMAIN index |-> FoldBinary("*", FactorExprs(index[s]))]
FactorsAt(summand, at) == [f \in DOMAIN summand |-> FactorAt(summand[f], at)]
SummandsAt(index, at) == [s \in DOMAIN index |-> Combined("*", FactorsAt(index[s], at))]

(* The lengths of an index and of its summands.                            *)
LEMMA IndexLengths ==
    ASSUME NEW index, IsIndex(index)
    PROVE  /\ Len(index) \in Nat \ {0} /\ DOMAIN index = 1..Len(index)
           /\ Len(SummandExprs(index)) = Len(index)
           /\ \A at : Len(SummandsAt(index, at)) = Len(index)
           /\ \A s \in 1..Len(index) :
                 /\ Len(index[s]) \in Nat \ {0} /\ DOMAIN index[s] = 1..Len(index[s])
                 /\ Len(FactorExprs(index[s])) = Len(index[s])
                 /\ \A at : Len(FactorsAt(index[s], at)) = Len(index[s])
  <1>1. Len(index) \in Nat \ {0} /\ DOMAIN index = 1..Len(index)
    BY DEF IsIndex
  <1>2. PICK n \in Nat \ {0} : n = Len(index) /\ DOMAIN index = 1..n
    BY <1>1
  <1>3. Len(SummandExprs(index)) = n
    <2>1. PICK w : w = SummandExprs(index)
      OBVIOUS
    <2>2. w = [k \in 1..n |-> w[k]]
      BY <1>2, <2>1 DEF SummandExprs
    <2> QED
      BY <1>2, <2>1, <2>2, SeqOfFunction
  <1>4. ASSUME NEW at PROVE Len(SummandsAt(index, at)) = n
    <2>1. PICK w : w = SummandsAt(index, at)
      OBVIOUS
    <2>2. w = [k \in 1..n |-> w[k]]
      BY <1>2, <2>1 DEF SummandsAt
    <2> QED
      BY <1>2, <2>1, <2>2, SeqOfFunction
  <1>5. ASSUME NEW s \in 1..n
        PROVE  /\ Len(index[s]) \in Nat \ {0} /\ DOMAIN index[s] = 1..Len(index[s])
               /\ Len(FactorExprs(index[s])) = Len(index[s])
               /\ \A at : Len(FactorsAt(index[s], at)) = Len(index[s])
    <2>1. PICK x : x = index[s] /\ x \in Seq(Factors) /\ x # <<>>
      BY <1>2 DEF IsIndex
    <2>2. Len(x) \in Nat \ {0} /\ DOMAIN x = 1..Len(x)
      BY <2>1
    <2>3. PICK m \in Nat \ {0} : m = Len(x) /\ DOMAIN x = 1..m
      BY <2>2
    <2>4. Len(FactorExprs(x)) = m
      <3>1. PICK w : w = FactorExprs(x)
        OBVIOUS
      <3>2. w = [k \in 1..m |-> w[k]]
        BY <2>3, <3>1 DEF FactorExprs
      <3> QED
        BY <2>3, <3>1, <3>2, SeqOfFunction
    <2>5. ASSUME NEW at PROVE Len(FactorsAt(x, at)) = m
      <3>1. PICK w : w = FactorsAt(x, at)
        OBVIOUS
      <3>2. w = [k \in 1..m |-> w[k]]
        BY <2>3, <3>1 DEF FactorsAt
      <3> QED
        BY <2>3, <3>1, <3>2, SeqOfFunction
    <2> QED
      BY <2>1, <2>2, <2>3, <2>4, <2>5
  <1> QED
    BY <1>1, <1>2, <1>3, <1>4, <1>5

(* Operands that load nothing make an expression that loads nothing.       *)
LEMMA LoadsOfFold ==
    ASSUME NEW bases, NEW name, NEW values, Len(values) \in Nat \ {0},
           \A k \in 1..Len(values) : OnlyLoads(values[k], bases)
    PROVE  OnlyLoads(FoldBinary(name, values), bases)
  <1>1. PICK r : Folds(r, name, values) /\ FoldBinary(name, values) = r[Len(values)]
    BY FoldSteps
  <1>2. PICK n \in Nat \ {0} : n = Len(values)
    OBVIOUS
  <1> DEFINE T == {0} \cup {k \in 1..n : OnlyLoads(r[k], bases)}
  <1>3. ASSUME NEW k \in 1..n, k - 1 \in T PROVE k \in T
    <2>1. CASE k = 1
      BY <1>1, <1>2, <2>1 DEF Folds
    <2>2. CASE k # 1
      <3>1. k \in 2..n /\ k - 1 \in 1..n /\ k - 1 # 0
        BY <2>2
      <3>2. PICK e, f : e = r[k - 1] /\ f = values[k]
        OBVIOUS
      <3>3. r[k] = BinaryOp(name, e, f)
        BY <1>1, <1>2, <3>1, <3>2 DEF Folds
      <3>4. OnlyLoads(e, bases) /\ OnlyLoads(f, bases)
        BY <1>2, <1>3, <3>1, <3>2
      <3> QED
        BY <3>3, <3>4, LoadsOfNodes
    <2> QED
      BY <2>1, <2>2
  <1>4. n \in T
    <2>1. n \in 0..n /\ 0 \in T
      OBVIOUS
    <2> HIDE DEF T
    <2> QED
      BY <1>3, <2>1, UpTo
  <1> QED
    BY <1>1, <1>2, <1>4

(* An index loads nothing. *)
LEMMA LoadsOfIndex ==
    ASSUME NEW bases, NEW index, IsIndex(index)
    PROVE  OnlyLoads(sympy_to_expr(index), bases)
  <1>1. ASSUME NEW s \in 1..Len(index)
        PROVE  OnlyLoads(FoldBinary("*", FactorExprs(index[s])), bases)
    <2>1. PICK x, w : x = index[s] /\ w = FactorExprs(x)
      OBVIOUS
    <2>2. Len(w) \in Nat \ {0} /\ DOMAIN x = 1..Len(w)
      BY <1>1, <2>1, IndexLengths
    <2>3. ASSUME NEW f \in 1..Len(w) PROVE OnlyLoads(w[f], bases)
      <3>1. w[f] = FactorExpr(x[f])
        BY <2>1, <2>2 DEF FactorExprs
      <3>2. OnlyLoads(Num(x[f].value), bases) /\ OnlyLoads(Var(x[f].name), bases)
        BY LoadsOfNodes, Zenon
      <3>3. w[f] = Num(x[f].value) \/ w[f] = Var(x[f].name)
        BY <3>1 DEF FactorExpr
      <3> QED
        BY <3>2, <3>3, Zenon
    <2> QED
      BY <2>1, <2>2, <2>3, LoadsOfFold
  <1>2. PICK v : v = SummandExprs(index)
    OBVIOUS
  <1>3. Len(v) \in Nat \ {0} /\ Len(v) = Len(index) /\ DOMAIN index = 1..Len(index)
    BY <1>2, IndexLengths
  <1>4. \A s \in 1..Len(v) : OnlyLoads(v[s], bases)
    BY <1>1, <1>2, <1>3 DEF SummandExprs
  <1>5. OnlyLoads(FoldBinary("+", v), bases)
    BY <1>3, <1>4, LoadsOfFold
  <1>6. sympy_to_expr(index) = FoldBinary("+", v)
    BY <1>2 DEF sympy_to_expr, SummandExprs, FactorExprs
  <1> QED
    BY <1>5, <1>6

(* An operation as the invariant has it. *)
IsOperation(op) ==
    /\ op.ranges \in Seq(Nat) /\ op.reduced \in Seq(Nat)
    /\ IsIndex(op.index)
    /\ IsSequence(op.reads) /\ \A j \in DOMAIN op.reads : IsIndex(op.reads[j].index)

(* An inner function loads what is read, under its role. *)
LEMMA LoadsOfEvaluate ==
    ASSUME NEW bases, NEW op, IsOperation(op),
           \A k \in DOMAIN op.reads : Ref(Role(op.reads[k].name), op.reads[k].name) \in bases
    PROVE  OnlyLoads(Evaluate(op), bases)
  <1>1. Len(op.reads) \in Nat /\ DOMAIN op.reads = 1..Len(op.reads)
    BY DEF IsOperation, IsSequence
  <1>2. PICK r : Combines(r, op) /\ Evaluate(op) = r[Len(op.reads)]
    BY <1>1, EvaluateSteps
  <1> DEFINE T == {k \in 0..Len(op.reads) : OnlyLoads(r[k], bases)}
  <1>3. 0 \in T
    <2>1. r[0] = Num(1)
      BY <1>2 DEF Combines
    <2>2. OnlyLoads(Num(1), bases)
      BY LoadsOfNodes, Zenon
    <2> QED
      BY <1>1, <2>1, <2>2
  <1>4. \A k \in 1..Len(op.reads) : k - 1 \in T => k \in T
    <2> SUFFICES ASSUME NEW k \in 1..Len(op.reads), k - 1 \in T PROVE k \in T
      OBVIOUS
    <2>1. PICK base, at, e, f :
             /\ base = Ref(Role(op.reads[k].name), op.reads[k].name)
             /\ at = sympy_to_expr(op.reads[k].index)
             /\ e = r[k - 1] /\ f = Load(base, at)
      OBVIOUS
    <2>2. base \in bases /\ OnlyLoads(e, bases) /\ IsIndex(op.reads[k].index)
      BY <1>1, <2>1 DEF IsOperation
    <2>3. OnlyLoads(f, bases)
      <3>1. OnlyLoads(at, bases)
        BY <2>1, <2>2, LoadsOfIndex
      <3> QED
        BY <2>1, <2>2, <3>1, LoadsOfNodes
    <2>4. r[k] = BinaryOp("mix", e, f)
      BY <1>2, <2>1 DEF Combines
    <2>5. OnlyLoads(r[k], bases)
      <3>1. OnlyLoads(BinaryOp("mix", e, f), bases)
        BY <2>2, <2>3, LoadsOfNodes, Zenon
      <3> QED
        BY <2>4, <3>1
    <2> QED
      BY <1>1, <2>5
  <1>5. Len(op.reads) \in 0..Len(op.reads)
    BY <1>1
  <1>6. Len(op.reads) \in T
    <2> HIDE DEF T
    <2> QED
      BY <1>1, <1>3, <1>4, <1>5, UpTo
  <1> QED
    BY <1>2, <1>6

-----------------------------------------------------------------------------
(* Roles. *)

(* Three statements in a row. *)
LEMMA SeqOfThree ==
    ASSUME NEW a, NEW b, NEW c
    PROVE  seq(<<a, b, c>>) = Seq2(a, Seq2(b, c))
  <1>1. PICK stmts : stmts = <<a, b, c>>
    OBVIOUS
  <1>2. Len(stmts) = 3 /\ stmts[1] = a /\ stmts[2] = b /\ stmts[3] = c
    BY <1>1
  <1>3. PICK r : Sequences(r, stmts) /\ seq(stmts) = r[Len(stmts)]
    <2>1. Len(stmts) \in Nat \ {0}
      BY <1>2
    <2> QED
      BY ONLY <2>1, SeqSteps
  <1>4. r[1] = Last(stmts) /\ r[2] = Seq2(stmts[3 + 1 - 2], r[2 - 1])
        /\ r[3] = Seq2(stmts[3 + 1 - 3], r[3 - 1])
    <2>1. 2 \in 2..Len(stmts) /\ 3 \in 2..Len(stmts)
      BY <1>2
    <2> QED
      BY <1>2, <1>3, <2>1 DEF Sequences
  <1>5. r[1] = c /\ r[2] = Seq2(b, r[1]) /\ r[3] = Seq2(a, r[2])
    BY <1>2, <1>4 DEF Last
  <1> QED
    BY <1>1, <1>2, <1>3, <1>5

(* The tensors an operation reads, as it loads them. *)
Reads(op) == {Ref(Role(op.reads[k].name), op.reads[k].name) : k \in DOMAIN op.reads}

(* A pointwise operation stores once. *)
LEMMA PointwiseWrites ==
    ASSUME NEW op, IsOperation(op)
    PROVE  \E node : /\ HasWritten(PointwiseStmt(op), <<node>>)
                     /\ node.base = Ref(Role(op.name), op.name)
                     /\ LoadsOf(node.value) \subseteq Reads(op)
  <1>1. PICK base, at, value :
           base = Ref(Role(op.name), op.name) /\ at = OutputIndex(op) /\ value = Evaluate(op)
    OBVIOUS
  <1>2. PICK node : node = [k |-> "store", base |-> base, index |-> at, value |-> value]
    OBVIOUS
  <1>3. node.base = base /\ node.value = value
    BY <1>2
  <1>4. HasWritten(Store(base, at, value), <<node>>)
    BY <1>2, StoresOfStore
  <1>5. HasWritten(PointwiseStmt(op), <<node>>)
    <2>1. HasWritten(NestLoops("i", op.ranges, Store(base, at, value)), <<node>>)
      BY <1>4, WrittenByNest DEF IsOperation
    <2> QED
      BY <1>1, <2>1 DEF PointwiseStmt
  <1>6. OnlyLoads(value, Reads(op))
    BY <1>1, LoadsOfEvaluate DEF Reads
  <1> QED
    BY <1>1, <1>3, <1>5, <1>6 DEF OnlyLoads

(* A reduction clears its accumulator, adds to it and stores it. *)
ThreeStores(op, acc, clear, update, store) ==
    /\ HasWritten(ReductionStmt(op), <<clear>> \o (<<update>> \o <<store>>))
    /\ clear.base = acc /\ LoadsOf(clear.value) = {}
    /\ update.base = acc /\ LoadsOf(update.value) \subseteq {acc} \cup Reads(op)
    /\ store.base = Ref(Role(op.name), op.name) /\ LoadsOf(store.value) \subseteq {acc}

(* A reduction clears its accumulator, adds to it, and stores the total   *)
(* (_build_reduction).                                                    *)
LEMMA ReductionWrites ==
    ASSUME NEW op, IsOperation(op), NEW acc, acc = Ref("tensor", Accumulator(accumulators))
    PROVE  \E clear, update, store : ThreeStores(op, acc, clear, update, store)
  <1>1. PICK base, at, value :
           base = Ref(Role(op.name), op.name) /\ at = OutputIndex(op) /\ value = Evaluate(op)
    OBVIOUS
  <1>2. PICK zero, sum, total :
           zero = Num(0) /\ sum = BinaryOp("+", Load(acc, at), value) /\ total = Load(acc, at)
    OBVIOUS
  <1>3. PICK clear, update, store :
           /\ clear = [k |-> "store", base |-> acc, index |-> at, value |-> zero]
           /\ update = [k |-> "store", base |-> acc, index |-> at, value |-> sum]
           /\ store = [k |-> "store", base |-> base, index |-> at, value |-> total]
    OBVIOUS
  <1>4. /\ clear.base = acc /\ clear.value = zero
        /\ update.base = acc /\ update.value = sum
        /\ store.base = base /\ store.value = total
    BY <1>3
  <1>5. HasWritten(Store(acc, at, zero), <<clear>>)
    BY <1>3, StoresOfStore
  <1>6. HasWritten(Store(acc, at, sum), <<update>>)
    BY <1>3, StoresOfStore
  <1>7. HasWritten(Store(base, at, total), <<store>>)
    BY <1>3, StoresOfStore
  <1>8. HasWritten(NestLoops("r", op.reduced, Store(acc, at, sum)), <<update>>)
    BY <1>6, WrittenByNest DEF IsOperation
  <1>9. PICK s1, s2, s3 : /\ s1 = Store(acc, at, zero)
                          /\ s2 = NestLoops("r", op.reduced, Store(acc, at, sum))
                          /\ s3 = Store(base, at, total)
    OBVIOUS
  <1>10. HasWritten(Seq2(s2, s3), <<update>> \o <<store>>)
    BY <1>7, <1>8, <1>9, StoresOfSeq2
  <1>11. HasWritten(Seq2(s1, Seq2(s2, s3)), <<clear>> \o (<<update>> \o <<store>>))
    BY <1>5, <1>9, <1>10, StoresOfSeq2
  <1>12. HasWritten(seq(<<s1, s2, s3>>), <<clear>> \o (<<update>> \o <<store>>))
    BY <1>11, SeqOfThree
  <1>13. HasWritten(NestLoops("i", op.ranges, seq(<<s1, s2, s3>>)),
                    <<clear>> \o (<<update>> \o <<store>>))
    BY <1>12, WrittenByNest DEF IsOperation
  <1>14. ReductionStmt(op) = NestLoops("i", op.ranges, seq(<<s1, s2, s3>>))
    BY <1>1, <1>2, <1>9 DEF ReductionStmt
  <1>15. OnlyLoads(zero, {})
    BY <1>2, LoadsOfNodes
  <1>16. ASSUME NEW bases, acc \in bases PROVE OnlyLoads(Load(acc, at), bases)
    <2>1. OnlyLoads(at, bases)
      BY <1>1, LoadsOfIndex DEF OutputIndex, IsOperation
    <2> QED
      BY <1>16, <2>1, LoadsOfNodes
  <1>17. OnlyLoads(total, {acc})
    BY <1>2, <1>16
  <1>18. OnlyLoads(sum, {acc} \cup Reads(op))
    <2>1. PICK bases : bases = {acc} \cup Reads(op)
      OBVIOUS
    <2>2. OnlyLoads(value, bases)
      BY <1>1, <2>1, LoadsOfEvaluate DEF Reads
    <2>3. OnlyLoads(Load(acc, at), bases)
      BY <1>16, <2>1
    <2>4. OnlyLoads(sum, bases)
      BY <1>2, <2>2, <2>3, LoadsOfNodes
    <2> QED
      BY <2>1, <2>4
  <1>19. LoadsOf(clear.value) = {}
    BY <1>4, <1>15 DEF OnlyLoads
  <1>20. LoadsOf(update.value) \subseteq {acc} \cup Reads(op)
    BY <1>4, <1>18 DEF OnlyLoads
  <1>21. LoadsOf(store.value) \subseteq {acc}
    BY <1>4, <1>17 DEF OnlyLoads
  <1> QED
    BY <1>1, <1>4, <1>13, <1>14, <1>19, <1>20, <1>21 DEF ThreeStores

(* What may be read before any of the program's own buffers from k on. *)
Known(k) == GraphInputs \cup {Buffers[j] : j \in 1..(k - 1)}

(* The n-th store of a program is explained: so is what it loads. *)
Explained(program, n, k) ==
    /\ program[n].base.role # "input"
    /\ \A base \in LoadsOf(program[n].value) :
          \/ \E x \in Known(k) : base = Ref(Role(x), x)
          \/ \E m \in 1..(n - 1) : program[m].base = base

(* The statement of the k-th buffer, and what follows from the k-th on. *)
Writes(s, k) ==
    \E w : /\ IsSequence(w) /\ HasWritten(s, w)
           /\ \A n \in DOMAIN w : Explained(w, n, k)
           /\ \E n \in DOMAIN w : w[n].base = Ref(Role(Buffers[k]), Buffers[k])
WritesFrom(s, k) ==
    \E w : /\ IsSequence(w) /\ HasWritten(s, w)
           /\ \A n \in DOMAIN w : Explained(w, n, k)

(* Statements follow each other. *)
LEMMA WritesInTurn ==
    ASSUME NEW k \in Nat \ {0}, NEW s, Writes(s, k), NEW t, WritesFrom(t, k + 1)
    PROVE  WritesFrom(Seq2(s, t), k)
  <1>1. PICK v : /\ IsSequence(v) /\ HasWritten(s, v)
                 /\ \A n \in DOMAIN v : Explained(v, n, k)
                 /\ \E n \in DOMAIN v : v[n].base = Ref(Role(Buffers[k]), Buffers[k])
    BY DEF Writes
  <1>2. PICK w : /\ IsSequence(w) /\ HasWritten(t, w)
                 /\ \A n \in DOMAIN w : Explained(w, n, k + 1)
    BY DEF WritesFrom
  <1>3. PICK u : u = v \o w
    OBVIOUS
  <1>4. PICK a, b : a = Len(v) /\ b = Len(w)
    OBVIOUS
  <1>5. /\ IsSequence(u) /\ a \in Nat /\ b \in Nat
        /\ DOMAIN v = 1..a /\ DOMAIN w = 1..b /\ DOMAIN u = 1..(a + b)
        /\ \A i \in 1..a : u[i] = v[i]
        /\ \A i \in 1..b : u[a + i] = w[i]
    BY <1>1, <1>2, <1>3, <1>4, Joining, Positions
  <1>6. HasWritten(Seq2(s, t), u)
    BY <1>1, <1>2, <1>3, StoresOfSeq2
  <1>7. ASSUME NEW n \in 1..a PROVE Explained(u, n, k)
    <2>1. Explained(v, n, k) /\ u[n] = v[n] /\ \A m \in 1..(n - 1) : u[m] = v[m]
      BY <1>1, <1>5
    <2> QED
      BY <2>1 DEF Explained
  <1>8. ASSUME NEW n \in 1..b, NEW i, i = a + n PROVE Explained(u, i, k)
    <2>1. Explained(w, n, k + 1) /\ u[i] = w[n]
      BY <1>2, <1>5, <1>8
    <2>2. ASSUME NEW base \in LoadsOf(u[i].value)
          PROVE  \/ \E x \in Known(k) : base = Ref(Role(x), x)
                 \/ \E m \in 1..(i - 1) : u[m].base = base
      <3>1. \/ \E x \in Known(k + 1) : base = Ref(Role(x), x)
            \/ \E m \in 1..(n - 1) : w[m].base = base
        BY <2>1 DEF Explained
      <3>2. CASE \E x \in Known(k + 1) : base = Ref(Role(x), x)
        <4>1. PICK x \in Known(k + 1) : base = Ref(Role(x), x)
          BY <3>2
        <4>2. x \in Known(k) \/ x = Buffers[k]
          BY <4>1 DEF Known
        <4>3. PICK j \in 1..a : v[j].base = Ref(Role(Buffers[k]), Buffers[k])
          BY <1>1, <1>5
        <4>4. j \in 1..(i - 1) /\ u[j] = v[j]
          BY <1>5, <1>8
        <4> QED
          BY <4>1, <4>2, <4>3, <4>4
      <3>3. CASE \E m \in 1..(n - 1) : w[m].base = base
        <4>1. PICK m \in 1..(n - 1) : w[m].base = base
          BY <3>3
        <4>2. a + m \in 1..(i - 1) /\ u[a + m] = w[m]
          BY <1>5, <1>8
        <4> QED
          BY <4>1, <4>2
      <3> QED
        BY <3>1, <3>2, <3>3
    <2>3. w[n].base.role # "input"
      BY <2>1 DEF Explained
    <2>4. u[i].base.role # "input"
      BY <2>1, <2>3
    <2> QED
      BY ONLY <2>2, <2>4 DEF Explained
  <1>9. ASSUME NEW n \in DOMAIN u PROVE Explained(u, n, k)
    <2>1. n \in 1..(a + b)
      BY <1>5
    <2>2. CASE n \in 1..a
      BY <1>7, <2>2
    <2>3. CASE n \notin 1..a
      <3>1. PICK i \in 1..b : n = a + i
        <4>1. n - a \in 1..b /\ n = a + (n - a)
          BY <1>5, <2>1, <2>3
        <4> QED
          BY <4>1
      <3> QED
        BY <1>8, <3>1
    <2> QED
      BY <2>2, <2>3
  <1> QED
    BY <1>5, <1>6, <1>9 DEF WritesFrom

(* Buffers of the program are not inputs. *)
LEMMA RoleOfBuffer ==
    ASSUME NEW k \in DOMAIN Buffers
    PROVE  Role(Buffers[k]) # "input"
  BY DEF Role, ToSet

(* What is converted explains its stores. *)
LEMMA PointwiseIsExplained ==
    ASSUME NEW k \in DOMAIN Buffers, NEW op, IsOperation(op), op.name = Buffers[k],
           \A j \in DOMAIN op.reads : op.reads[j].name \in Known(k)
    PROVE  Writes(PointwiseStmt(op), k)
  <1>1. PICK node : /\ HasWritten(PointwiseStmt(op), <<node>>)
                    /\ node.base = Ref(Role(op.name), op.name)
                    /\ LoadsOf(node.value) \subseteq Reads(op)
    BY PointwiseWrites
  <1>2. PICK w : w = <<node>>
    OBVIOUS
  <1>3. IsSequence(w) /\ DOMAIN w = 1..1 /\ w[1] = node
    BY <1>2, One
  <1>4. node.base.role # "input"
    BY <1>1, RoleOfBuffer DEF Ref
  <1>5. \A base \in LoadsOf(node.value) : \E x \in Known(k) : base = Ref(Role(x), x)
    BY <1>1 DEF Reads
  <1>6. Explained(w, 1, k)
    BY <1>3, <1>4, <1>5 DEF Explained
  <1> QED
    BY <1>1, <1>2, <1>3, <1>6 DEF Writes

(* The stores of a reduction use known tensors and fresh roles            *)
(* (_build_reduction).                                                    *)
LEMMA ReductionIsExplained ==
    ASSUME NEW k \in DOMAIN Buffers, NEW op, IsOperation(op), op.name = Buffers[k],
           \A j \in DOMAIN op.reads : op.reads[j].name \in Known(k)
    PROVE  Writes(ReductionStmt(op), k)
  <1>1. PICK acc : acc = Ref("tensor", Accumulator(accumulators))
    OBVIOUS
  <1>2. PICK clear, update, store : ThreeStores(op, acc, clear, update, store)
    BY <1>1, ReductionWrites
  <1> USE <1>2 DEF ThreeStores
  <1>3. PICK c, v, w : c = <<store>> /\ v = <<update>> \o c /\ w = <<clear>> \o v
    OBVIOUS
  <1>4. IsSequence(c) /\ Len(c) = 1 /\ c[1] = store
    BY <1>3, One
  <1>5. IsSequence(v) /\ Len(v) = 2 /\ v[1] = update
    <2>1. IsSequence(v) /\ Len(v) = Len(c) + 1 /\ v[1] = update
      BY ONLY <1>3, <1>4, OneMore
    <2> QED
      BY <1>4, <2>1
  <1>6. v[1 + 1] = c[1]
    <2>1. 1 \in 1..Len(c)
      BY <1>4
    <2> QED
      BY ONLY <1>3, <1>4, <2>1, OneMoreAt
  <1>7. IsSequence(w) /\ Len(w) = Len(v) + 1 /\ w[1] = clear
    BY ONLY <1>3, <1>5, OneMore
  <1>8. DOMAIN w = 1..3 /\ w[1 + 1] = v[1] /\ w[1 + 2] = v[2]
    <2>1. 1 \in 1..Len(v) /\ 2 \in 1..Len(v)
      BY <1>5
    <2>2. w[1 + 1] = v[1] /\ w[1 + 2] = v[2]
      BY ONLY <1>3, <1>5, <2>1, OneMoreAt
    <2>3. DOMAIN w = 1..Len(w) /\ Len(w) = 3
      BY <1>5, <1>7, Positions
    <2> QED
      BY <2>2, <2>3
  <1>9. DOMAIN w = {1, 2, 3} /\ w[1] = clear /\ w[2] = update /\ w[3] = store
    BY ONLY <1>4, <1>5, <1>6, <1>7, <1>8
  <1>10. acc.role # "input"
    BY <1>1 DEF Ref
  <1>11. store.base.role # "input"
    BY RoleOfBuffer DEF Ref
  <1>12. \A base \in Reads(op) : \E x \in Known(k) : base = Ref(Role(x), x)
    BY DEF Reads
  <1>13. Explained(w, 1, k)
    BY <1>9, <1>10 DEF Explained
  <1>14. Explained(w, 2, k)
    <2>1. 1 \in 1..(2 - 1) /\ w[1].base = acc
      BY <1>9
    <2>2. LoadsOf(w[2].value) \subseteq {acc} \cup Reads(op) /\ w[2].base = acc
      BY <1>9
    <2> QED
      BY <1>10, <1>12, <2>1, <2>2 DEF Explained
  <1>15. Explained(w, 3, k)
    <2>1. 1 \in 1..(3 - 1) /\ w[1].base = acc
      BY <1>9
    <2>2. LoadsOf(w[3].value) \subseteq {acc} /\ w[3].base = store.base
      BY <1>9
    <2> QED
      BY <1>11, <2>1, <2>2 DEF Explained
  <1>16. \A n \in DOMAIN w : Explained(w, n, k)
    BY <1>9, <1>13, <1>14, <1>15
  <1>17. 3 \in DOMAIN w /\ w[3].base = Ref(Role(Buffers[k]), Buffers[k])
    BY <1>9
  <1>18. HasWritten(ReductionStmt(op), w)
    BY <1>3
  <1> QED
    BY <1>7, <1>16, <1>17, <1>18 DEF Writes

(* The whole program explains its stores. *)
LEMMA BuildIsExplained ==
    ASSUME NEW n \in Nat, Len(statements) = n, IsSequence(statements),
           \A k \in 1..n : Writes(statements[k], k)
    PROVE  WritesFrom(Build, 1)
  <1>1. CASE statements = <<>>
    <2>1. PICK w : w = <<>>
      OBVIOUS
    <2>2. IsSequence(w) /\ DOMAIN w = {}
      <3>1. w \in Seq({}) /\ DOMAIN w = {}
        BY <2>1
      <3> QED
        BY <3>1 DEF IsSequence
    <2>3. HasWritten(Build, w)
      BY <1>1, <2>1, StoresOfDummy DEF Build
    <2> QED
      BY <2>2, <2>3 DEF WritesFrom
  <1>2. CASE statements # <<>>
    <2>1. n \in Nat \ {0}
      <3>1. PICK V : statements \in Seq(V)
        BY DEF IsSequence
      <3> QED
        BY <1>2, <3>1
    <2>2. PICK r : Sequences(r, statements) /\ seq(statements) = r[Len(statements)]
      <3>1. Len(statements) \in Nat \ {0}
        BY <2>1
      <3> QED
        BY ONLY <3>1, SeqSteps
    <2> DEFINE T == {0} \cup {j \in 1..n : WritesFrom(r[j], n + 1 - j)}
    <2>3. ASSUME NEW j \in 1..n, j - 1 \in T PROVE j \in T
      <3>1. PICK k \in 1..n : k = n + 1 - j
        BY <2>1
      <3>2. Writes(statements[k], k)
        OBVIOUS
      <3>3. CASE j = 1
        <4>1. r[1] = statements[n] /\ k = n
          BY <2>2, <3>1, <3>3 DEF Sequences, Last
        <4>2. WritesFrom(statements[n], n)
          BY <3>2, <4>1 DEF Writes, WritesFrom
        <4> QED
          BY <3>1, <3>3, <4>1, <4>2
      <3>4. CASE j # 1
        <4>1. j \in 2..n /\ j - 1 \in 1..n /\ n + 1 - (j - 1) = k + 1
          BY <3>1, <3>4
        <4>2. r[j] = Seq2(statements[k], r[j - 1])
          BY <2>2, <3>1, <4>1 DEF Sequences
        <4>3. WritesFrom(r[j - 1], k + 1)
          BY <2>3, <4>1
        <4>4. k \in Nat \ {0}
          OBVIOUS
        <4>5. WritesFrom(r[j], k)
          BY <3>2, <4>2, <4>3, <4>4, WritesInTurn
        <4> QED
          BY <3>1, <4>5
      <3> QED
        BY <3>3, <3>4
    <2>4. n \in T
      <3>1. 0 \in T /\ n \in 0..n
        BY <2>1
      <3> HIDE DEF T
      <3> QED
        BY <2>3, <3>1, UpTo
    <2>5. n + 1 - n = 1 /\ n # 0
      BY <2>1
    <2> QED
      BY <1>2, <2>2, <2>4, <2>5 DEF Build
  <1> QED
    BY <1>1, <1>2

(* Roles then match. *)
LEMMA RolesMatch ==
    ASSUME WritesFrom(Build, 1)
    PROVE  RolesMatchAccesses
  <1>1. PICK w : /\ IsSequence(w) /\ HasWritten(Build, w)
                 /\ \A n \in DOMAIN w : Explained(w, n, 1)
    BY DEF WritesFrom
  <1>2. StoresOf(Build) = w
    BY <1>1, StoresAreThese
  <1>3. Known(1) = GraphInputs
    BY DEF Known
  <1>4. ASSUME NEW n \in DOMAIN w, NEW base \in LoadsOf(w[n].value)
        PROVE  IF base.role = "input" THEN base.name \in GraphInputs
               ELSE \/ base.name \in GraphInputs \cap outputs
                    \/ \E m \in 1..(n - 1) : w[m].base = base
    <2>1. \/ \E x \in GraphInputs : base = Ref(Role(x), x)
          \/ \E m \in 1..(n - 1) : w[m].base = base
      BY <1>1, <1>3 DEF Explained
    <2>2. CASE \E x \in GraphInputs : base = Ref(Role(x), x)
      <3>1. PICK x \in GraphInputs : base = Ref(Role(x), x)
        BY <2>2
      <3>2. base.role = Role(x) /\ base.name = x
        BY <3>1 DEF Ref
      <3>3. x \notin ToSet(Buffers)
        BY NamesAssumption DEF ToSet
      <3>4. Role(x) = "input" \/ x \in outputs
        BY <3>3 DEF Role
      <3> QED
        BY <3>2, <3>4
    <2>3. CASE \E m \in 1..(n - 1) : w[m].base = base
      <3>1. PICK m \in 1..(n - 1) : w[m].base = base
        BY <2>3
      <3>2. m \in DOMAIN w
        <4>1. PICK V : w \in Seq(V)
          BY <1>1 DEF IsSequence
        <4>2. DOMAIN w = 1..Len(w) /\ Len(w) \in Nat
          BY <4>1
        <4> QED
          BY <4>2
      <3>3. base.role # "input"
        BY <1>1, <3>1, <3>2 DEF Explained
      <3> QED
        BY <2>3, <3>3
    <2> QED
      BY <2>1, <2>2, <2>3
  <1>5. \A n \in DOMAIN w : w[n].base.role # "input"
    BY <1>1 DEF Explained
  <1> QED
    BY <1>2, <1>4, <1>5 DEF RolesMatchAccesses

-----------------------------------------------------------------------------
(* Running statements. *)

(* No stores leave the memory as it is.                                   *)
LEMMA RunNothing ==
    ASSUME NEW mem
    PROVE  Run(mem, <<>>) = mem
  <1>1. PICK w : w = <<>>
    OBVIOUS
  <1>2. Len(w) = 0
    BY <1>1
  <1>3. PICK r : RunsThrough(r, mem, w) /\ Run(mem, w) = r[Len(w)]
    BY <1>2, RunSteps
  <1> QED
    BY <1>1, <1>2, <1>3 DEF RunsThrough

(* One store is put into the memory.                                      *)
LEMMA RunOne ==
    ASSUME NEW mem, NEW e
    PROVE  Run(mem, <<e>>) = Put(mem, e)
  <1>1. PICK w : w = <<e>>
    OBVIOUS
  <1>2. Len(w) = 1 /\ w[1] = e
    BY <1>1
  <1>3. PICK r : RunsThrough(r, mem, w) /\ Run(mem, w) = r[Len(w)]
    BY <1>2, RunSteps
  <1>4. r[0] = mem /\ \A k \in 1..1 : r[k] = Put(r[k - 1], w[k])
    BY <1>2, <1>3 DEF RunsThrough
  <1>5. r[1] = Put(r[1 - 1], w[1])
    BY <1>4
  <1> QED
    BY <1>1, <1>2, <1>3, <1>4, <1>5

(* Running two sequences is running one after the other. *)
LEMMA RunJoined ==
    ASSUME NEW mem, NEW v, IsSequence(v), NEW w, IsSequence(w)
    PROVE  Run(mem, v \o w) = Run(Run(mem, v), w)
  <1>1. PICK u, mid : u = v \o w /\ mid = Run(mem, v)
    OBVIOUS
  <1>2. IsSequence(u) /\ Len(v) \in Nat /\ Len(w) \in Nat /\ Len(u) = Len(v) + Len(w)
    BY <1>1, Joining
  <1>3. \A i \in 1..Len(v) : u[i] = v[i]
    BY ONLY <1>1, IsSequence(v), IsSequence(w), Joining
  <1>4. \A i \in 1..Len(w) : u[Len(v) + i] = w[i]
    BY ONLY <1>1, IsSequence(v), IsSequence(w), Joining
  <1>5. PICK r : RunsThrough(r, mem, v) /\ Run(mem, v) = r[Len(v)]
    BY ONLY <1>2, RunSteps
  <1>6. PICK s : RunsThrough(s, mid, w) /\ Run(mid, w) = s[Len(w)]
    BY ONLY <1>2, RunSteps
  <1>7. PICK t : RunsThrough(t, mem, u) /\ Run(mem, u) = t[Len(u)]
    <2>1. Len(u) \in Nat
      BY <1>2
    <2> QED
      BY ONLY <2>1, RunSteps
  <1>8. PICK n \in Nat, m \in Nat : n = Len(v) /\ m = Len(w) /\ Len(u) = n + m
    BY <1>2
  <1>9. /\ r[0] = mem /\ \A k \in 1..n : r[k] = Put(r[k - 1], v[k])
        /\ s[0] = mid /\ \A k \in 1..m : s[k] = Put(s[k - 1], w[k])
        /\ t[0] = mem /\ \A k \in 1..(n + m) : t[k] = Put(t[k - 1], u[k])
    BY <1>5, <1>6, <1>7, <1>8 DEF RunsThrough
  <1> DEFINE T == {k \in 0..n : t[k] = r[k]}
             S == {k \in 0..m : t[n + k] = s[k]}
  <1>10. n \in T
    <2>1. 0 \in T /\ n \in 0..n
      BY <1>9
    <2>2. ASSUME NEW k \in 1..n, k - 1 \in T PROVE k \in T
      <3>1. u[k] = v[k] /\ k \in 1..(n + m)
        BY <1>3, <1>8
      <3> QED
        BY <1>9, <2>2, <3>1
    <2> HIDE DEF T
    <2> QED
      BY <2>1, <2>2, UpTo
  <1>11. t[n] = mid
    BY <1>1, <1>5, <1>8, <1>10
  <1>12. m \in S
    <2>1. 0 \in S /\ m \in 0..m
      BY <1>9, <1>11
    <2>2. ASSUME NEW k \in 1..m, k - 1 \in S PROVE k \in S
      <3>1. PICK i \in 1..(n + m) : i = n + k /\ i - 1 = n + (k - 1)
        <4>1. n + k \in 1..(n + m) /\ (n + k) - 1 = n + (k - 1)
          OBVIOUS
        <4> QED
          BY <4>1
      <3>2. u[i] = w[k]
        BY <1>4, <1>8, <3>1
      <3>3. t[i] = Put(t[i - 1], u[i]) /\ s[k] = Put(s[k - 1], w[k])
        BY <1>9
      <3>4. t[i - 1] = s[k - 1]
        BY <2>2, <3>1
      <3>5. t[i] = s[k]
        BY <3>2, <3>3, <3>4
      <3> QED
        BY <3>1, <3>5
    <2> HIDE DEF S
    <2> QED
      BY <2>1, <2>2, UpTo
  <1> QED
    BY <1>1, <1>6, <1>7, <1>8, <1>12

(* Statement s takes memory from m1 to m2. *)
Takes(s, env, m1, m2) ==
    \E v : HasStores(s, v) /\ IsSequence(v[env]) /\ Run(m1, v[env]) = m2

(* A store statement puts the value at the index.                         *)
LEMMA TakesStore ==
    ASSUME NEW env \in Environments, NEW mem, NEW base,
           NEW index, NEW x, HasValue(index, env, mem, x),
           NEW value, NEW y, HasValue(value, env, mem, y)
    PROVE  Takes(Store(base, index, value), env, mem, [mem EXCEPT ![<<base, x>>] = y])
  <1>1. PICK node : node = [k |-> "store", base |-> base, index |-> index, value |-> value]
    OBVIOUS
  <1>2. node.base = base /\ node.index = index /\ node.value = value
    BY <1>1
  <1>3. HasStores(Store(base, index, value), Everywhere(node))
    BY <1>1, StoresOfStore
  <1>4. PICK e : e = [node |-> node, env |-> env]
    OBVIOUS
  <1>5. Everywhere(node)[env] = <<e>>
    BY <1>4 DEF Everywhere
  <1>6. Run(mem, <<e>>) = Put(mem, e)
    BY RunOne
  <1>7. e.node = node /\ e.env = env
    BY <1>4
  <1>8. Put(mem, e) = [mem EXCEPT ![<<base, Eval(index, env, mem)>>] = Eval(value, env, mem)]
    BY <1>2, <1>7 DEF Put
  <1>9. Eval(index, env, mem) = x /\ Eval(value, env, mem) = y
    BY ValueIsEval
  <1>10. IsSequence(<<e>>)
    BY One
  <1> QED
    BY <1>3, <1>5, <1>6, <1>8, <1>9, <1>10 DEF Takes

(* A sequence goes through the memory its first part leaves.              *)
LEMMA TakesSeq2 ==
    ASSUME NEW env \in Environments, NEW m1, NEW m2, NEW m3,
           NEW s, Takes(s, env, m1, m2), NEW t, Takes(t, env, m2, m3)
    PROVE  Takes(Seq2(s, t), env, m1, m3)
  <1>1. PICK v : HasStores(s, v) /\ IsSequence(v[env]) /\ Run(m1, v[env]) = m2
    BY DEF Takes
  <1>2. PICK w : HasStores(t, w) /\ IsSequence(w[env]) /\ Run(m2, w[env]) = m3
    BY DEF Takes
  <1>3. HasStores(Seq2(s, t), InTurn(v, w))
    BY <1>1, <1>2, StoresOfSeq2
  <1>4. InTurn(v, w)[env] = v[env] \o w[env]
    BY DEF InTurn
  <1>5. PICK a, b : a = v[env] /\ b = w[env]
    OBVIOUS
  <1>6. IsSequence(a) /\ IsSequence(b)
    BY <1>1, <1>2, <1>5
  <1>7. IsSequence(a \o b)
    BY <1>6, Joining
  <1>8. Run(m1, a \o b) = m3
    BY <1>1, <1>2, <1>5, <1>6, RunJoined
  <1> QED
    BY <1>3, <1>4, <1>5, <1>7, <1>8 DEF Takes

(* A statement has one meaning. *)
LEMMA StoresAreUnique ==
    ASSUME NEW s, NEW v, HasStores(s, v), NEW w, HasStores(s, w)
    PROVE  v = w
  BY DEF HasStores

(* A loop goes through one memory after the other. *)
LEMMA TakesLoop ==
    ASSUME NEW env \in Environments, NEW var, NEW n \in Nat, NEW s, \E v : HasStores(s, v), NEW M,
           \A j \in 1..n : Takes(s, [env EXCEPT ![var] = j - 1], M[j - 1], M[j])
    PROVE  Takes(Loop(var, Num(n), s), env, M[0], M[n])
  <1>1. PICK v : HasStores(s, v)
    OBVIOUS
  <1>2. HasStores(Loop(var, Num(n), s), Rounds(v, var, n))
    BY <1>1, StoresOfLoop
  <1>3. PICK rounds : rounds = [j \in 1..n |-> v[[env EXCEPT ![var] = j - 1]]]
    OBVIOUS
  <1>4. Rounds(v, var, n)[env] = FlattenSeq(rounds)
    BY <1>3 DEF Rounds
  <1>5. Len(rounds) = n
    BY <1>3
  <1>6. ASSUME NEW j \in 1..n
        PROVE  IsSequence(rounds[j]) /\ Run(M[j - 1], rounds[j]) = M[j]
    <2>1. PICK e : e = [env EXCEPT ![var] = j - 1]
      OBVIOUS
    <2>2. rounds[j] = v[e]
      BY <1>3, <2>1
    <2>3. Takes(s, e, M[j - 1], M[j])
      BY <2>1
    <2>4. PICK w : HasStores(s, w) /\ IsSequence(w[e]) /\ Run(M[j - 1], w[e]) = M[j]
      BY <2>3 DEF Takes
    <2>5. w = v
      BY <1>1, <2>4, StoresAreUnique
    <2> QED
      BY <2>2, <2>4, <2>5
  <1>7. IsSequence(FlattenSeq(rounds)) /\ Run(M[0], FlattenSeq(rounds)) = M[n]
    <2>1. CASE n = 0
      <3>1. rounds = <<>>
        BY <1>3, <2>1
      <3>2. FlattenSeq(rounds) = rounds
        BY <1>5, <2>1 DEF FlattenSeq
      <3>3. IsSequence(rounds)
        <4>1. rounds \in Seq({})
          BY <3>1
        <4> QED
          BY <4>1 DEF IsSequence
      <3> QED
        BY <2>1, <3>1, <3>2, <3>3, RunNothing
    <2>2. CASE n # 0
      <3>1. Len(rounds) \in Nat \ {0}
        BY <1>5, <2>2
      <3>2. PICK r : Joins(r, rounds) /\ FlattenSeq(rounds) = r[Len(rounds)]
        BY ONLY <3>1, FlattenSteps
      <3>3. r[1] = rounds[1] /\ \A k \in 2..n : r[k] = r[k - 1] \o rounds[k]
        BY <1>5, <3>2 DEF Joins
      <3> DEFINE T == {0} \cup {k \in 1..n : IsSequence(r[k]) /\ Run(M[0], r[k]) = M[k]}
      <3>4. ASSUME NEW k \in 1..n, k - 1 \in T PROVE k \in T
        <4>1. CASE k = 1
          BY <1>6, <3>3, <4>1
        <4>2. CASE k # 1
          <5>1. k \in 2..n /\ k - 1 \in 1..n
            BY <4>2
          <5>2. PICK a, b : a = r[k - 1] /\ b = rounds[k]
            OBVIOUS
          <5>3. IsSequence(a) /\ Run(M[0], a) = M[k - 1]
            BY <3>4, <5>1, <5>2
          <5>4. IsSequence(b) /\ Run(M[k - 1], b) = M[k]
            BY <1>6, <5>2
          <5>5. r[k] = a \o b
            BY <3>3, <5>1, <5>2
          <5>6. IsSequence(a \o b)
            BY <5>3, <5>4, Joining
          <5>7. Run(M[0], a \o b) = M[k]
            BY <5>3, <5>4, RunJoined
          <5> QED
            BY <5>5, <5>6, <5>7
        <4> QED
          BY <4>1, <4>2
      <3>5. n \in T
        <4>1. 0 \in T /\ n \in 0..n
          OBVIOUS
        <4> HIDE DEF T
        <4> QED
          BY <3>4, <4>1, UpTo
      <3> QED
        BY <1>5, <2>2, <3>2, <3>5
    <2> QED
      BY <2>1, <2>2
  <1> QED
    BY <1>2, <1>4, <1>7 DEF Takes

-----------------------------------------------------------------------------
(* Places: the flat index of the loop variables.                           *)

(* The first d of the variables are at the place x, row-major, and inside  *)
(* their extents.                                                          *)
PlacesTo(b, env, variables, extents, d) ==
    /\ b \in [0..d -> Nat]
    /\ b[0] = 0
    /\ \A k \in 1..d : b[k] = extents[k] * b[k - 1] + env[variables[k]]
    /\ \A k \in 1..d : env[variables[k]] < extents[k]
At(env, variables, extents, d, x) ==
    \E b : PlacesTo(b, env, variables, extents, d) /\ b[d] = x

(* No variables are at zero. *)
LEMMA AtZero ==
    ASSUME NEW env, NEW variables, NEW extents
    PROVE  At(env, variables, extents, 0, 0)
  <1>1. PICK b : b = [k \in 0..0 |-> 0]
    OBVIOUS
  <1>2. PlacesTo(b, env, variables, extents, 0) /\ b[0] = 0
    BY <1>1 DEF PlacesTo
  <1> QED
    BY <1>2 DEF At

(* One variable more. *)
LEMMA AtStep ==
    ASSUME NEW env, NEW variables, NEW extents, NEW d \in Nat, NEW e \in Nat, d = e + 1,
           NEW x \in Nat, At(env, variables, extents, e, x),
           extents[d] \in Nat, env[variables[d]] \in Nat, env[variables[d]] < extents[d]
    PROVE  At(env, variables, extents, d, extents[d] * x + env[variables[d]])
  <1>1. PICK b : PlacesTo(b, env, variables, extents, e) /\ b[e] = x
    BY DEF At
  <1>2. PICK y \in Nat : y = extents[d] * x + env[variables[d]]
    <2>1. PICK m \in Nat, n \in Nat : m = extents[d] /\ n = env[variables[d]]
      OBVIOUS
    <2>2. m * x + n \in Nat
      OBVIOUS
    <2> QED
      BY <2>1, <2>2
  <1>3. PICK c : c = [k \in 0..d |-> IF k = d THEN y ELSE b[k]]
    OBVIOUS
  <1>4. \A k \in 0..e : k \in 0..d /\ k # d /\ b[k] \in Nat
    BY <1>1 DEF PlacesTo
  <1>5. \A k \in 0..e : c[k] = b[k]
    BY <1>3, <1>4
  <1>6. c[d] = y /\ c \in [0..d -> Nat]
    <2>1. \A k \in 0..d : k # d => k \in 0..e
      OBVIOUS
    <2> QED
      BY <1>2, <1>3, <1>4, <2>1
  <1>7. c[0] = 0
    BY <1>1, <1>5 DEF PlacesTo
  <1>8. ASSUME NEW k \in 1..d PROVE c[k] = extents[k] * c[k - 1] + env[variables[k]]
    <2>1. CASE k = d
      <3>1. c[k - 1] = x
        <4>1. k - 1 = e /\ e \in 0..e
          BY <2>1
        <4> QED
          BY <1>1, <1>5, <4>1
      <3> QED
        BY <1>2, <1>6, <2>1, <3>1
    <2>2. CASE k # d
      <3>1. k \in 0..e /\ k - 1 \in 0..e /\ k \in 1..e
        BY <2>2
      <3>2. b[k] = extents[k] * b[k - 1] + env[variables[k]]
        BY <1>1, <3>1 DEF PlacesTo
      <3> QED
        BY <1>5, <3>1, <3>2
    <2> QED
      BY <2>1, <2>2
  <1>9. ASSUME NEW k \in 1..d PROVE env[variables[k]] < extents[k]
    <2>1. CASE k = d
      BY <2>1
    <2>2. CASE k # d
      <3>1. k \in 1..e
        BY <2>2
      <3> QED
        BY <1>1, <3>1 DEF PlacesTo
    <2> QED
      BY <2>1, <2>2
  <1>10. PlacesTo(c, env, variables, extents, d)
    BY <1>6, <1>7, <1>8, <1>9 DEF PlacesTo
  <1> QED
    BY <1>2, <1>6, <1>10 DEF At

(* Only these variables count. *)
LEMMA AtSame ==
    ASSUME NEW env, NEW other, NEW variables, NEW extents, NEW d \in Nat,
           \A k \in 1..d : env[variables[k]] = other[variables[k]],
           NEW x, At(env, variables, extents, d, x)
    PROVE  At(other, variables, extents, d, x)
  <1>1. PICK b : PlacesTo(b, env, variables, extents, d) /\ b[d] = x
    BY DEF At
  <1>2. PlacesTo(b, other, variables, extents, d)
    BY <1>1 DEF PlacesTo
  <1> QED
    BY <1>1, <1>2 DEF At

(* Sizes are numbers. *)
LEMMA PartialSizes ==
    ASSUME NEW extents \in Seq(Nat)
    PROVE  \E p : /\ Multiplies(p, extents) /\ Size(extents) = p[Len(extents)]
                  /\ \A k \in 0..Len(extents) : p[k] \in Nat
  <1>1. PICK n \in Nat : n = Len(extents) /\ \A k \in 1..n : extents[k] \in Nat
    OBVIOUS
  <1>2. PICK p : Multiplies(p, extents) /\ Size(extents) = p[Len(extents)]
    BY SizeSteps
  <1> DEFINE T == {k \in 0..n : \A j \in 0..k : p[j] \in Nat}
  <1>3. 0 \in T
    BY <1>2 DEF Multiplies
  <1>4. ASSUME NEW k \in 1..n, k - 1 \in T PROVE k \in T
    <2>1. PICK m \in Nat, q \in Nat : m = extents[k] /\ q = p[k - 1]
      BY <1>1, <1>4
    <2>2. p[k] = q * m
      BY <1>1, <1>2, <2>1 DEF Multiplies
    <2>3. p[k] \in Nat
      BY <2>2
    <2>4. \A j \in 0..k : j = k \/ j \in 0..(k - 1)
      OBVIOUS
    <2> QED
      BY <1>4, <2>3, <2>4
  <1>5. n \in T
    <2>1. n \in 0..n
      OBVIOUS
    <2> HIDE DEF T
    <2> QED
      BY <1>3, <1>4, <2>1, UpTo
  <1> QED
    BY <1>1, <1>2, <1>5

(* A size is a natural number, and a scalar has size one.                 *)
LEMMA Sizes ==
    ASSUME NEW extents \in Seq(Nat)
    PROVE  Size(extents) \in Nat /\ (extents = <<>> => Size(extents) = 1)
  <1>1. PICK p : /\ Multiplies(p, extents) /\ Size(extents) = p[Len(extents)]
                 /\ \A k \in 0..Len(extents) : p[k] \in Nat
    BY PartialSizes
  <1>2. Len(extents) \in 0..Len(extents)
    OBVIOUS
  <1>3. extents = <<>> => Len(extents) = 0
    OBVIOUS
  <1>4. p[0] = 1
    BY <1>1 DEF Multiplies
  <1> QED
    BY <1>1, <1>2, <1>3, <1>4

(* Division gives back what was multiplied. *)
LEMMA DividedBack ==
    ASSUME NEW e \in Nat, NEW a \in Nat, NEW v \in Nat, v < e, NEW x, x = e * a + v
    PROVE  x \div e = a /\ x % e = v
  <1>1. x \in Nat /\ e > 0
    <2>1. PICK p \in Nat : p = e * a
      <3>1. e * a \in Nat
        OBVIOUS
      <3> QED
        BY <3>1
    <2> QED
      BY <2>1
  <1>2. PICK q, r : q = x \div e /\ r = x % e
    OBVIOUS
  <1>3. q \in Int /\ r \in 0..(e - 1) /\ x = e * q + r
    BY <1>1, <1>2
  <1>4. ASSUME NEW b \in Int, NEW c \in Int, b < c, NEW m \in 0..(e - 1), NEW n \in 0..(e - 1),
               e * b + m = e * c + n
        PROVE  FALSE
    <2>1. PICK k \in Nat : c = b + 1 + k
      <3>1. c - (b + 1) \in Nat /\ c = b + 1 + (c - (b + 1))
        BY <1>4
      <3> QED
        BY <3>1
    <2>2. PICK p \in Int, o \in Nat : p = e * b /\ o = e * k
      <3>1. e * b \in Int /\ e * k \in Nat
        OBVIOUS
      <3> QED
        BY <3>1
    <2>3. e * c = e * b + e + e * k
      BY <2>1
    <2>4. p + m = p + e + o + n
      BY <1>4, <2>2, <2>3
    <2> QED
      BY <2>4
  <1>5. v \in 0..(e - 1)
    OBVIOUS
  <1>6. q = a
    <2>1. ~(q < a) /\ ~(a < q)
      BY <1>3, <1>4, <1>5
    <2> QED
      BY <1>3, <2>1
  <1>7. r = v
    <2>1. PICK p \in Nat : p = e * a
      <3>1. e * a \in Nat
        OBVIOUS
      <3> QED
        BY <3>1
    <2> QED
      BY <1>3, <1>6, <2>1
  <1> QED
    BY <1>2, <1>6, <1>7

(* The point at a place is the values of the variables. *)
LEMMA AtPoint ==
    ASSUME NEW extents \in Seq(Nat), NEW env, NEW variables,
           \A k \in 1..Len(extents) : env[variables[k]] \in Nat,
           NEW x, At(env, variables, extents, Len(extents), x),
           NEW k \in 1..Len(extents)
    PROVE  Point(extents, x)[k] = env[variables[k]]
  <1>1. PICK n \in Nat : n = Len(extents) /\ DOMAIN extents = 1..n
                         /\ \A d \in 1..n : extents[d] \in Nat
    OBVIOUS
  <1>2. PICK b : PlacesTo(b, env, variables, extents, n) /\ b[n] = x
    BY <1>1 DEF At
  <1>3. PICK r : /\ Divides(r, extents, x)
                 /\ Point(extents, x) = [d \in DOMAIN extents |-> r[Len(extents) - d] % extents[d]]
    BY PointSteps
  <1>4. ASSUME NEW d \in 1..n
        PROVE  b[d] \div extents[d] = b[d - 1] /\ b[d] % extents[d] = env[variables[d]]
    <2>1. d \in 0..n /\ d - 1 \in 0..n
      BY <1>1
    <2>2. PICK e \in Nat, a \in Nat, v \in Nat : e = extents[d] /\ a = b[d - 1] /\ v = env[variables[d]]
      <3>1. extents[d] \in Nat /\ b[d - 1] \in Nat /\ env[variables[d]] \in Nat
        BY <1>1, <1>2, <2>1 DEF PlacesTo
      <3> QED
        BY <3>1
    <2>3. b[d] = e * a + v /\ v < e
      BY <1>2, <2>2 DEF PlacesTo
    <2>4. b[d] \div e = a /\ b[d] % e = v
      BY <2>3, DividedBack
    <2> QED
      BY <2>2, <2>4
  <1> DEFINE T == {j \in 0..n : r[j] = b[n - j]}
  <1>5. 0 \in T
    BY <1>2, <1>3 DEF Divides
  <1>6. ASSUME NEW j \in 1..n, j - 1 \in T PROVE j \in T
    <2>1. PICK d \in 1..n : d = n + 1 - j /\ d = n - (j - 1) /\ d - 1 = n - j
      <3>1. n + 1 - j \in 1..n /\ n + 1 - j = n - (j - 1) /\ (n + 1 - j) - 1 = n - j
        OBVIOUS
      <3> QED
        BY <3>1
    <2>2. r[j] = r[j - 1] \div extents[d]
      BY <1>1, <1>3, <2>1 DEF Divides
    <2>3. r[j - 1] = b[d]
      BY <1>6, <2>1
    <2> QED
      BY <1>4, <2>1, <2>2, <2>3
  <1>7. \A j \in 0..n : j \in T
    <2> HIDE DEF T
    <2> QED
      BY <1>5, <1>6, UpTo
  <1>8. k \in 1..n /\ n - k \in 0..n /\ n - (n - k) = k
    BY <1>1
  <1>9. Point(extents, x)[k] = r[n - k] % extents[k]
    BY <1>1, <1>3, <1>8
  <1>10. r[n - k] = b[k]
    BY <1>7, <1>8
  <1> QED
    BY <1>4, <1>8, <1>9, <1>10

(* Environments that differ in the variables of one prefix only. *)
Agrees(env, other, prefix) ==
    /\ other \in Environments
    /\ \A x \in Variables : x[1] # prefix => other[x] = env[x]

(* The loop variables of a nest. *)
LEMMA LoopVariables ==
    ASSUME NEW prefix \in {"i", "r"}, NEW extents \in Shapes \cup ReducedShapes, NEW k \in 1..Len(extents)
    PROVE  /\ MakeIndices(prefix, extents)[k] \in Variables
           /\ MakeIndices(prefix, extents)[k] = <<prefix, k - 1>>
  <1>1. extents \in Seq(Nat)
    BY ShapesAssumption
  <1>2. MakeIndices(prefix, extents)[k] = <<prefix, k - 1>>
    BY <1>1 DEF MakeIndices
  <1>3. k - 1 \in 0..(Len(extents) - 1)
    BY <1>1
  <1>4. k - 1 \in UNION {0..(Len(s) - 1) : s \in Shapes \cup ReducedShapes}
    BY <1>3
  <1> QED
    BY <1>2, <1>4 DEF Variables

(* The coordinates of a place are the values of the loop variables.       *)
LEMMA CoordinatesAt ==
    ASSUME NEW op, op.ranges \in Shapes, op.reduced \in ReducedShapes, NEW env \in Environments,
           NEW f, NEW h
    PROVE  /\ At(env, MakeIndices("i", op.ranges), op.ranges, Len(op.ranges), f) =>
                 \A x \in Symbols("i", op.ranges) : Coordinates(op, f, h)[x] = env[x]
           /\ At(env, MakeIndices("r", op.reduced), op.reduced, Len(op.reduced), h) =>
                 \A x \in Symbols("r", op.reduced) : Coordinates(op, f, h)[x] = env[x]
  <1>1. ASSUME NEW prefix \in {"i", "r"}, NEW extents \in Shapes \cup ReducedShapes,
               NEW x \in Symbols(prefix, extents), NEW y,
               At(env, MakeIndices(prefix, extents), extents, Len(extents), y)
        PROVE  x[1] = prefix /\ Point(extents, y)[x[2] + 1] = env[x]
    <2>1. PICK vs : vs = MakeIndices(prefix, extents)
      OBVIOUS
    <2>2. extents \in Seq(Nat)
      BY ShapesAssumption
    <2>3. DOMAIN vs = 1..Len(extents)
      BY <2>1, <2>2 DEF MakeIndices
    <2>4. PICK k \in 1..Len(extents) : x = vs[k]
      BY <1>1, <2>1, <2>3 DEF Symbols, ToSet
    <2>5. \A d \in 1..Len(extents) : vs[d] \in Variables /\ vs[d] = <<prefix, d - 1>>
      BY <2>1, LoopVariables
    <2>6. \A d \in 1..Len(extents) : env[vs[d]] \in Nat
      BY <2>5 DEF Environments
    <2>7. Point(extents, y)[k] = env[vs[k]]
      <3>1. At(env, vs, extents, Len(extents), y)
        BY <1>1, <2>1
      <3> QED
        BY ONLY <2>2, <2>6, <3>1, k \in 1..Len(extents), AtPoint
    <2>8. x[1] = prefix /\ x[2] = k - 1
      BY <2>4, <2>5
    <2>9. x[2] + 1 = k
      BY <2>2, <2>8
    <2> QED
      BY <2>4, <2>7, <2>8, <2>9
  <1>2. PICK S, R : S = Symbols("i", op.ranges) /\ R = Symbols("r", op.reduced)
    OBVIOUS
  <1>3. \A x \in S \cup R :
           Coordinates(op, f, h)[x] = IF x[1] = "i" THEN Point(op.ranges, f)[x[2] + 1]
                                      ELSE Point(op.reduced, h)[x[2] + 1]
    BY <1>2 DEF Coordinates
  <1>4. ASSUME At(env, MakeIndices("i", op.ranges), op.ranges, Len(op.ranges), f), NEW x \in S
        PROVE  Coordinates(op, f, h)[x] = env[x]
    <2>1. x[1] = "i" /\ Point(op.ranges, f)[x[2] + 1] = env[x]
      BY <1>1, <1>2, <1>4
    <2> QED
      BY <1>3, <2>1
  <1>5. ASSUME At(env, MakeIndices("r", op.reduced), op.reduced, Len(op.reduced), h), NEW x \in R
        PROVE  Coordinates(op, f, h)[x] = env[x]
    <2>1. x[1] = "r" /\ Point(op.reduced, h)[x[2] + 1] = env[x]
      BY <1>1, <1>2, <1>5
    <2> QED
      BY <1>3, <2>1
  <1> QED
    BY <1>2, <1>4, <1>5

(* The value of an expression of several operands. *)
LEMMA FoldValue ==
    ASSUME NEW env, NEW mem, NEW name \in {"+", "*"}, NEW values, NEW numbers,
           Len(values) \in Nat \ {0}, Len(numbers) = Len(values),
           \A k \in 1..Len(values) : HasValue(values[k], env, mem, numbers[k])
    PROVE  HasValue(FoldBinary(name, values), env, mem, Combined(name, numbers))
  <1>1. PICK n \in Nat \ {0} : n = Len(values) /\ n = Len(numbers)
    OBVIOUS
  <1>2. PICK r : Folds(r, name, values) /\ FoldBinary(name, values) = r[n]
    BY <1>1, FoldSteps
  <1>3. PICK t : Totals(t, name, numbers) /\ Combined(name, numbers) = t[n]
    BY <1>1, CombinedSteps
  <1> DEFINE T == {0} \cup {k \in 1..n : HasValue(r[k], env, mem, t[k])}
  <1>4. ASSUME NEW k \in 1..n, k - 1 \in T PROVE k \in T
    <2>1. CASE k = 1
      <3>1. r[1] = values[1] /\ t[1] = numbers[1]
        BY <1>2, <1>3 DEF Folds, Totals
      <3> QED
        BY <1>1, <2>1, <3>1
    <2>2. CASE k # 1
      <3>1. k \in 2..n /\ k - 1 \in 1..n /\ k - 1 # 0
        BY <2>2
      <3>2. PICK e, f, v, u : e = r[k - 1] /\ f = values[k] /\ v = t[k - 1] /\ u = numbers[k]
        OBVIOUS
      <3>3. HasValue(e, env, mem, v) /\ HasValue(f, env, mem, u)
        BY <1>1, <1>4, <3>1, <3>2
      <3>4. r[k] = BinaryOp(name, e, f)
        BY <1>1, <1>2, <3>1, <3>2 DEF Folds
      <3>5. t[k] = IF name = "+" THEN v + u ELSE v * u
        BY <1>1, <1>3, <3>1, <3>2 DEF Totals
      <3>6. /\ HasValue(BinaryOp("+", e, f), env, mem, v + u)
            /\ HasValue(BinaryOp("*", e, f), env, mem, v * u)
        BY <3>3, ValueOfBinaryOp
      <3>7. HasValue(r[k], env, mem, t[k])
        <4>1. CASE name = "+"
          BY <3>4, <3>5, <3>6, <4>1
        <4>2. CASE name = "*"
          <5>1. name # "+"
            BY <4>2
          <5> QED
            BY <3>4, <3>5, <3>6, <4>2, <5>1
        <4> QED
          BY <4>1, <4>2
      <3> QED
        BY <3>7
    <2> QED
      BY <2>1, <2>2
  <1>5. n \in T
    <2>1. n \in 0..n /\ 0 \in T
      OBVIOUS
    <2> HIDE DEF T
    <2> QED
      BY <1>4, <2>1, UpTo
  <1> QED
    BY <1>2, <1>3, <1>5

(* sympy_to_expr writes an index's value.                                 *)
LEMMA IndexValue ==
    ASSUME NEW env, NEW mem, NEW index, IsIndex(index), NEW symbols, UsesOnly(index, symbols),
           NEW at, \A x \in symbols : at[x] = env[x]
    PROVE  HasValue(sympy_to_expr(index), env, mem, Address(index, at))
  <1>1. ASSUME NEW s \in 1..Len(index)
        PROVE  HasValue(FoldBinary("*", FactorExprs(index[s])), env, mem,
                        Combined("*", FactorsAt(index[s], at)))
    <2>1. PICK x, w, u : x = index[s] /\ w = FactorExprs(x) /\ u = FactorsAt(x, at)
      OBVIOUS
    <2>2. Len(w) \in Nat \ {0} /\ DOMAIN x = 1..Len(w) /\ Len(u) = Len(w) /\ s \in DOMAIN index
      BY <1>1, <2>1, IndexLengths
    <2>3. ASSUME NEW f \in 1..Len(w) PROVE HasValue(w[f], env, mem, u[f])
      <3>1. PICK factor : factor = x[f]
        OBVIOUS
      <3>2. w[f] = FactorExpr(factor) /\ u[f] = FactorAt(factor, at)
        BY <2>1, <2>2, <3>1 DEF FactorExprs, FactorsAt
      <3>3. CASE factor.k = "integer"
        BY <3>2, <3>3, ValueOfNum DEF FactorExpr, FactorAt
      <3>4. CASE factor.k # "integer"
        <4>1. factor.k = "symbol"
          <5>1. x \in Seq(Factors)
            BY <2>1, <2>2 DEF IsIndex
          <5>2. factor \in Factors
            BY <2>2, <3>1, <5>1
          <5> QED
            BY <3>4, <5>2 DEF Factors
        <4>2. factor.name \in symbols
          BY <2>1, <2>2, <3>1, <4>1 DEF UsesOnly
        <4>3. w[f] = Var(factor.name) /\ u[f] = env[factor.name]
          BY <3>2, <3>4, <4>2 DEF FactorExpr, FactorAt
        <4> QED
          BY <4>3, ValueOfVar
      <3> QED
        BY <3>3, <3>4
    <2>4. HasValue(FoldBinary("*", w), env, mem, Combined("*", u))
      BY <2>2, <2>3, FoldValue
    <2> QED
      BY <2>1, <2>4
  <1>2. PICK v, z : v = SummandExprs(index) /\ z = SummandsAt(index, at)
    OBVIOUS
  <1>3. Len(v) \in Nat \ {0} /\ Len(v) = Len(index) /\ DOMAIN index = 1..Len(index) /\ Len(z) = Len(v)
    BY <1>2, IndexLengths
  <1>4. \A s \in 1..Len(v) : HasValue(v[s], env, mem, z[s])
    BY <1>1, <1>2, <1>3 DEF SummandExprs, SummandsAt
  <1>5. HasValue(FoldBinary("+", v), env, mem, Combined("+", z))
    BY <1>3, <1>4, FoldValue
  <1>6. sympy_to_expr(index) = FoldBinary("+", v)
    BY <1>2 DEF sympy_to_expr, SummandExprs, FactorExprs
  <1>7. Address(index, at) = Combined("+", z)
    BY <1>2 DEF Address, SummandsAt, FactorsAt
  <1> QED
    BY <1>5, <1>6, <1>7

(* An iteration of a nest's loop. *)
LEMMA Iteration ==
    ASSUME NEW prefix \in {"i", "r"}, NEW extents \in Shapes \cup ReducedShapes,
           NEW d \in 1..Len(extents), NEW e, e = d - 1,
           NEW env, NEW other, Agrees(env, other, prefix), NEW v, v = MakeIndices(prefix, extents)[d],
           NEW i \in Nat, i < extents[d], NEW next, next = [other EXCEPT ![v] = i],
           NEW y \in Nat, At(other, MakeIndices(prefix, extents), extents, e, y)
    PROVE  /\ Agrees(env, next, prefix)
           /\ At(next, MakeIndices(prefix, extents), extents, d, extents[d] * y + i)
  <1>1. extents \in Seq(Nat)
    BY ShapesAssumption
  <1>2. PICK vs : vs = MakeIndices(prefix, extents)
    OBVIOUS
  <1>3. \A k \in 1..Len(extents) : vs[k] \in Variables /\ vs[k] = <<prefix, k - 1>>
    BY <1>2, LoopVariables
  <1>4. other \in [Variables -> Nat]
    BY DEF Agrees, Environments
  <1>5. v \in Variables /\ v = <<prefix, d - 1>>
    BY <1>2, <1>3
  <1>6. next \in [Variables -> Nat] /\ next[v] = i /\ \A x \in Variables : x # v => next[x] = other[x]
    BY <1>4, <1>5
  <1>7. Agrees(env, next, prefix)
    BY <1>5, <1>6 DEF Agrees, Environments
  <1>8. d \in Nat /\ e \in Nat /\ d = e + 1
    BY <1>1
  <1>9. \A k \in 1..e : other[vs[k]] = next[vs[k]]
    <2> SUFFICES ASSUME NEW k \in 1..e PROVE other[vs[k]] = next[vs[k]]
      OBVIOUS
    <2>1. k \in 1..Len(extents) /\ k - 1 # d - 1
      BY <1>1, <1>8
    <2>2. vs[k] \in Variables /\ vs[k] # v
      BY <1>3, <1>5, <2>1
    <2> QED
      BY <1>6, <2>2
  <1>10. At(next, vs, extents, e, y)
    BY <1>2, <1>8, <1>9, AtSame
  <1>11. extents[d] \in Nat /\ next[vs[d]] = i
    BY <1>1, <1>2, <1>6
  <1>12. At(next, vs, extents, d, extents[d] * y + next[vs[d]])
    <2>1. next[vs[d]] \in Nat /\ next[vs[d]] < extents[d]
      BY <1>11
    <2> QED
      BY <1>8, <1>10, <1>11, <2>1, AtStep
  <1> QED
    BY <1>2, <1>7, <1>11, <1>12

(* Statement s takes M from one memory to the next at every place of a     *)
(* nest over the extents.                                                  *)
Passes(s, env, prefix, extents, d, M, count, step) ==
    \A other, y : /\ Agrees(env, other, prefix)
                  /\ y \in Nat /\ y < count
                  /\ At(other, MakeIndices(prefix, extents), extents, d, y)
                  => Takes(s, other, M[y * step], M[(y + 1) * step])

(* One loop more around a statement. *)
LEMMA PassesLoop ==
    ASSUME NEW prefix \in {"i", "r"}, NEW extents \in Shapes \cup ReducedShapes, NEW env, NEW M,
           NEW d \in 1..Len(extents), NEW e, e = d - 1,
           NEW n \in Nat, n = extents[d], NEW count \in Nat, NEW step \in Nat,
           NEW s, \E v : HasStores(s, v), Passes(s, env, prefix, extents, d, M, count * n, step)
    PROVE  Passes(Loop(MakeIndices(prefix, extents)[d], Num(n), s),
                  env, prefix, extents, e, M, count, n * step)
  <1>1. PICK v, vs : vs = MakeIndices(prefix, extents) /\ v = vs[d]
    OBVIOUS
  <1>2. SUFFICES ASSUME NEW other, Agrees(env, other, prefix), NEW y \in Nat, y < count,
                        At(other, vs, extents, e, y)
                 PROVE  Takes(Loop(v, Num(n), s), other, M[y * (n * step)], M[(y + 1) * (n * step)])
    BY <1>1 DEF Passes
  <1>3. PICK N : N = [j \in 0..n |-> M[(n * y + j) * step]]
    OBVIOUS
  <1>4. ASSUME NEW j \in 1..n PROVE Takes(s, [other EXCEPT ![v] = j - 1], N[j - 1], N[j])
    <2>1. PICK i, next : i = j - 1 /\ i \in Nat /\ i < n /\ next = [other EXCEPT ![v] = i]
      <3>1. j - 1 \in Nat /\ j - 1 < n
        OBVIOUS
      <3> QED
        BY <3>1
    <2>2. Agrees(env, next, prefix) /\ At(next, vs, extents, d, n * y + i)
      BY <1>1, <1>2, <2>1, Iteration
    <2>3. PICK z \in Nat : z = n * y + i
      <3>1. PICK a \in Nat : a = n * y
        <4>1. n * y \in Nat
          OBVIOUS
        <4> QED
          BY <4>1
      <3>2. n * y + i \in Nat
        BY <2>1, <3>1
      <3> QED
        BY <3>2
    <2>4. z < count * n
      <3>1. PICK c \in Nat : count = y + 1 + c
        <4>1. count - (y + 1) \in Nat /\ count = y + 1 + (count - (y + 1))
          BY <1>2
        <4> QED
          BY <4>1
      <3>2. count * n = n * y + n + c * n
        BY <3>1
      <3>3. PICK a \in Nat, b \in Nat : a = n * y /\ b = c * n
        <4>1. n * y \in Nat /\ c * n \in Nat
          OBVIOUS
        <4> QED
          BY <4>1
      <3>4. count * n = a + n + b
        BY <3>2, <3>3
      <3>5. z = a + i /\ i < n
        BY <2>1, <2>3, <3>3
      <3>6. a + i < a + n + b
        BY <2>1, <3>5
      <3> QED
        BY <3>4, <3>5, <3>6
    <2>5. Takes(s, next, M[z * step], M[(z + 1) * step])
      BY <1>1, <2>2, <2>3, <2>4 DEF Passes
    <2>6. N[j - 1] = M[z * step] /\ N[j] = M[(z + 1) * step]
      <3>1. j - 1 \in 0..n /\ j \in 0..n
        OBVIOUS
      <3>2. n * y + (j - 1) = z
        BY <2>1, <2>3
      <3>3. n * y + j = z + 1
        <4>1. PICK a \in Nat : a = n * y
          <5>1. n * y \in Nat
            OBVIOUS
          <5> QED
            BY <5>1
        <4> QED
          BY <2>1, <2>3, <4>1
      <3> QED
        BY <1>3, <3>1, <3>2, <3>3
    <2> QED
      BY <2>1, <2>5, <2>6
  <1>5. other \in Environments
    BY <1>2 DEF Agrees
  <1>6. Takes(Loop(v, Num(n), s), other, N[0], N[n])
    BY <1>4, <1>5, TakesLoop
  <1>7. N[0] = M[y * (n * step)]
    <2>1. (n * y + 0) * step = y * (n * step) /\ 0 \in 0..n
      OBVIOUS
    <2> QED
      BY <1>3, <2>1
  <1>8. N[n] = M[(y + 1) * (n * step)]
    <2>1. (n * y + n) * step = (y + 1) * (n * step) /\ n \in 0..n
      OBVIOUS
    <2> QED
      BY <1>3, <2>1
  <1> QED
    BY <1>6, <1>7, <1>8

(* A nest over anything that stores. *)
LEMMA NestHasStores ==
    ASSUME NEW prefix, NEW extents \in Seq(Nat), NEW body, \E v : HasStores(body, v)
    PROVE  \E v : HasStores(NestLoops(prefix, extents, body), v)
  <1>1. PICK n \in Nat : n = Len(extents)
    OBVIOUS
  <1>2. PICK r : Nests(r, prefix, extents, body) /\ NestLoops(prefix, extents, body) = r[n]
    BY <1>1, NestSteps
  <1> DEFINE T == {k \in 0..n : \E v : HasStores(r[k], v)}
  <1>3. 0 \in T
    BY <1>2 DEF Nests
  <1>4. ASSUME NEW k \in 1..n, k - 1 \in T PROVE k \in T
    <2>1. PICK x, m : x = MakeIndices(prefix, extents)[Len(extents) + 1 - k]
                      /\ m = extents[Len(extents) + 1 - k]
      OBVIOUS
    <2>2. r[k] = Loop(x, Num(m), r[k - 1])
      BY <1>1, <1>2, <2>1 DEF Nests
    <2>3. \E v : HasStores(r[k], v)
      BY <1>4, <2>2, StoresOfLoop
    <2> QED
      BY <2>3
  <1>5. n \in T
    <2>1. n \in 0..n
      OBVIOUS
    <2> HIDE DEF T
    <2> QED
      BY <1>3, <1>4, <2>1, UpTo
  <1> QED
    BY <1>2, <1>5

(* A nest meets its places in order. *)
LEMMA TakesNest ==
    ASSUME NEW prefix \in {"i", "r"}, NEW extents \in Shapes \cup ReducedShapes,
           NEW env \in Environments, NEW M, NEW body, \E v : HasStores(body, v),
           Passes(body, env, prefix, extents, Len(extents), M, Size(extents), 1)
    PROVE  /\ Takes(NestLoops(prefix, extents, body), env, M[0], M[Size(extents)])
           /\ \E v : HasStores(NestLoops(prefix, extents, body), v)
  <1>1. extents \in Seq(Nat)
    BY ShapesAssumption
  <1>2. PICK vs : vs = MakeIndices(prefix, extents)
    OBVIOUS
  <1>3. PICK n \in Nat : n = Len(extents) /\ vs = MakeIndices(prefix, extents)
    BY <1>1, <1>2
  <1>4. PICK p : /\ Multiplies(p, extents) /\ Size(extents) = p[n]
                 /\ \A k \in 0..n : p[k] \in Nat
    BY <1>1, <1>3, PartialSizes
  <1>5. PICK r : Nests(r, prefix, extents, body) /\ NestLoops(prefix, extents, body) = r[n]
    BY <1>1, <1>3, NestSteps
  <1> DEFINE Holds(k, e, step) ==
               step \in Nat /\ p[e] * step = Size(extents)
               /\ Passes(r[k], env, prefix, extents, e, M, p[e], step)
             T == {k \in 0..n : /\ \E v : HasStores(r[k], v)
                                /\ \E step : Holds(k, n - k, step)}
  <1>6. 0 \in T
    <2>1. r[0] = body /\ n - 0 = n /\ p[n] * 1 = Size(extents) /\ n \in 0..n
      <3>1. p[n] \in Nat
        BY <1>4
      <3> QED
        BY <1>4, <1>5, <3>1 DEF Nests
    <2>2. Passes(r[0], env, prefix, extents, n, M, p[n], 1)
      BY <1>3, <1>4, <2>1
    <2>3. Holds(0, n, 1)
      BY <2>1, <2>2
    <2> HIDE DEF Holds
    <2> QED
      BY <2>1, <2>3
  <1>7. ASSUME NEW k \in 1..n, k - 1 \in T PROVE k \in T
    <2>1. PICK d \in 1..n, e \in 0..n : d = n + 1 - k /\ e = n - k /\ e = d - 1 /\ d = n - (k - 1)
      <3>1. n + 1 - k \in 1..n /\ n - k \in 0..n /\ n - k = (n + 1 - k) - 1
            /\ n + 1 - k = n - (k - 1)
        OBVIOUS
      <3> QED
        BY <3>1
    <2>2. PICK step : Holds(k - 1, d, step)
      <3> HIDE DEF Holds
      <3> QED
        BY <1>7, <2>1
    <2>3. PICK s : s = r[k - 1]
      OBVIOUS
    <2>4. \E v : HasStores(s, v)
      <3> HIDE DEF Holds
      <3> QED
        BY <1>7, <2>3
    <2>5. PICK m \in Nat, c \in Nat : m = extents[d] /\ c = p[e]
      <3>1. extents[d] \in Nat
        BY <1>1, <1>3, <2>1
      <3>2. p[e] \in Nat
        BY <1>4, <2>1
      <3> QED
        BY <3>1, <3>2
    <2>6. p[d] = c * m /\ step \in Nat /\ p[d] * step = Size(extents)
      BY <1>3, <1>4, <2>1, <2>2, <2>5 DEF Multiplies
    <2>7. Passes(s, env, prefix, extents, d, M, c * m, step)
      BY <2>2, <2>3, <2>6
    <2>8. r[k] = Loop(vs[d], Num(m), s)
      BY <1>3, <1>5, <2>1, <2>3, <2>5 DEF Nests
    <2>9. Passes(Loop(vs[d], Num(m), s), env, prefix, extents, e, M, c, m * step)
      BY <1>3, <2>1, <2>4, <2>5, <2>6, <2>7, PassesLoop
    <2>10. m * step \in Nat /\ c * (m * step) = Size(extents)
      <3>1. c * (m * step) = (c * m) * step /\ m * step \in Nat
        BY <2>6
      <3> QED
        BY <2>6, <3>1
    <2>11. Holds(k, e, m * step)
      BY <2>5, <2>8, <2>9, <2>10
    <2>12. \E v : HasStores(r[k], v)
      BY <2>4, <2>8, StoresOfLoop
    <2> HIDE DEF Holds
    <2> QED
      BY <2>1, <2>11, <2>12
  <1>8. n \in T
    <2>1. n \in 0..n
      OBVIOUS
    <2> HIDE DEF T
    <2> QED
      BY <1>6, <1>7, <2>1, UpTo
  <1>9. PICK step : Holds(n, 0, step)
    <2>1. n - n = 0
      OBVIOUS
    <2> HIDE DEF Holds
    <2> QED
      BY <1>8, <2>1
  <1>10. p[0] = 1 /\ step = Size(extents) /\ step \in Nat
    <2>1. p[0] = 1
      BY <1>4 DEF Multiplies
    <2> QED
      BY <1>9, <2>1
  <1>11. Takes(r[n], env, M[0], M[Size(extents)])
    <2>1. At(env, vs, extents, 0, 0)
      BY AtZero
    <2>2. Agrees(env, env, prefix)
      BY DEF Agrees
    <2>3. Passes(r[n], env, prefix, extents, 0, M, 1, step)
      BY <1>9, <1>10
    <2>4. 0 \in Nat /\ 0 < 1
      OBVIOUS
    <2>5. Takes(r[n], env, M[0 * step], M[(0 + 1) * step])
      BY ONLY <1>3, <2>1, <2>2, <2>3, <2>4 DEF Passes
    <2>6. 0 * step = 0 /\ (0 + 1) * step = step
      BY <1>10
    <2> QED
      BY <1>10, <2>5, <2>6
  <1>12. \E v : HasStores(r[n], v)
    BY <1>8
  <1> QED
    BY <1>5, <1>11, <1>12

-----------------------------------------------------------------------------
(* Memory and the graph.                                                   *)

IsMemory(m) == m = [c \in Tensors \X Cells |-> m[c]]

(* The contents of the names are those of their tensors. *)
Represents(mem, g) ==
    /\ IsMemory(mem)
    /\ g = [c \in Names \X Cells |-> g[c]]
    /\ \A x \in Names, i \in Cells : mem[<<Ref(Role(x), x), i>>] = g[<<x, i>>]

(* Tensors of different names are different. *)
LEMMA RefsDiffer ==
    ASSUME NEW x, NEW y, Ref(Role(x), x) = Ref(Role(y), y)
    PROVE  x = y
  BY DEF Ref

(* Accumulators are none of the names' tensors. *)
LEMMA AccumulatorsDiffer ==
    ASSUME NEW n \in Numbers, NEW x \in Names
    PROVE  Ref("tensor", Accumulator(n)) # Ref(Role(x), x)
  <1> SUFFICES ASSUME Ref("tensor", Accumulator(n)) = Ref(Role(x), x) PROVE FALSE
    OBVIOUS
  <1>1. Accumulator(n) = x /\ Role(x) = "tensor"
    BY DEF Ref
  <1>2. x \in ToSet(Buffers)
    BY <1>1 DEF Role
  <1>3. PICK k \in DOMAIN Buffers : x = Buffers[k]
    BY <1>2 DEF ToSet
  <1> QED
    BY <1>1, <1>3, NamesAssumption

(* The inner function gives what the graph loads. *)
LEMMA EvaluateValue ==
    ASSUME NEW env, NEW mem, NEW g, NEW op, IsOperation(op), NEW i, NEW j,
           \A k \in DOMAIN op.reads :
              HasValue(sympy_to_expr(op.reads[k].index), env, mem, InputAddress(op, k, i, j)),
           \A k \in DOMAIN op.reads :
              mem[<<Ref(Role(op.reads[k].name), op.reads[k].name), InputAddress(op, k, i, j)>>]
                 = g[<<op.reads[k].name, InputAddress(op, k, i, j)>>]
    PROVE  HasValue(Evaluate(op), env, mem, Loaded(g, op, i, j))
  <1>1. PICK n \in Nat : n = Len(op.reads) /\ DOMAIN op.reads = 1..n
    <2>1. DOMAIN op.reads = 1..Len(op.reads) /\ Len(op.reads) \in Nat
      BY Positions DEF IsOperation
    <2> QED
      BY <2>1
  <1>2. PICK r : Combines(r, op) /\ Evaluate(op) = r[n]
    BY <1>1, EvaluateSteps
  <1>3. PICK x : Mixes(x, g, op, i, j) /\ Loaded(g, op, i, j) = x[n]
    BY <1>1, LoadedSteps
  <1> DEFINE T == {k \in 0..n : HasValue(r[k], env, mem, x[k])}
  <1>4. 0 \in T
    BY <1>2, <1>3, ValueOfNum DEF Combines, Mixes
  <1>5. ASSUME NEW k \in 1..n, k - 1 \in T PROVE k \in T
    <2>1. PICK e, base, f, u, z : /\ e = r[k - 1] /\ u = x[k - 1]
                                  /\ base = Ref(Role(op.reads[k].name), op.reads[k].name)
                                  /\ f = Load(base, sympy_to_expr(op.reads[k].index))
                                  /\ z = InputAddress(op, k, i, j)
      OBVIOUS
    <2>2. HasValue(e, env, mem, u)
      BY <1>5, <2>1
    <2>3. HasValue(f, env, mem, mem[<<base, z>>])
      BY <1>1, <2>1, ValueOfLoad
    <2>4. mem[<<base, z>>] = g[<<op.reads[k].name, z>>]
      BY <1>1, <2>1
    <2>5. HasValue(BinaryOp("mix", e, f), env, mem, Mix(u, mem[<<base, z>>]))
      BY <2>2, <2>3, ValueOfBinaryOp
    <2>6. r[k] = BinaryOp("mix", e, f)
      BY <1>1, <1>2, <2>1 DEF Combines
    <2>7. x[k] = Mix(u, g[<<op.reads[k].name, z>>])
      BY <1>1, <1>3, <2>1 DEF Mixes
    <2>8. HasValue(r[k], env, mem, x[k])
      BY <2>4, <2>5, <2>6, <2>7
    <2> QED
      BY <2>8
  <1>6. n \in T
    <2>1. n \in 0..n
      OBVIOUS
    <2> HIDE DEF T
    <2> QED
      BY <1>4, <1>5, <2>1, UpTo
  <1> QED
    BY <1>2, <1>3, <1>6

(* The operation of the k-th buffer. *)
Converted(op, k) ==
    /\ op.name = Buffers[k]
    /\ op.ranges \in Shapes
    /\ op.reduced \in ReducedShapes
    /\ op.index \in Indices
    /\ IsSequence(op.reads)
    /\ \A j \in DOMAIN op.reads : op.reads[j].name \in Known(k) /\ op.reads[j].index \in Indices
    /\ Fits(op)

(* What it is about. *)
LEMMA OfConverted ==
    ASSUME NEW k \in DOMAIN Buffers, NEW op, Converted(op, k)
    PROVE  /\ IsOperation(op)
           /\ Size(op.ranges) \in Nat /\ Size(op.reduced) \in Nat
           /\ op.name \in Names /\ Known(k) \subseteq Names
           /\ \A x \in Known(k) : x # op.name
  <1>1. op.ranges \in Seq(Nat) /\ op.reduced \in Seq(Nat)
    BY ShapesAssumption DEF Converted
  <1>2. IsOperation(op)
    <2>1. \A index \in Indices : IsIndex(index)
      BY IndicesAssumption DEF IsIndex
    <2> QED
      BY <1>1, <2>1 DEF IsOperation, Converted
  <1>3. Size(op.ranges) \in Nat /\ Size(op.reduced) \in Nat
    BY <1>1, Sizes
  <1>4. DOMAIN Buffers = 1..Len(Buffers) /\ Len(Buffers) \in Nat
    BY NamesAssumption
  <1>5. \A j \in 1..(k - 1) : j \in DOMAIN Buffers /\ j # k
    BY <1>4
  <1>6. op.name \in Names /\ Known(k) \subseteq Names
    BY <1>5 DEF Converted, Known, Names, ToSet
  <1>7. \A x \in Known(k) : x # op.name
    BY <1>5, NamesAssumption DEF Converted, Known
  <1> QED
    BY <1>2, <1>3, <1>6, <1>7

(* The cells of its output, and those it reads. *)
LEMMA CellsOfConverted ==
    ASSUME NEW k \in DOMAIN Buffers, NEW op, Converted(op, k), NEW f \in Nat, f < Size(op.ranges)
    PROVE  /\ OutputAddress(op, f) \in Cells
           /\ \A h \in Nat : h < Size(op.reduced) =>
                 \A j \in DOMAIN op.reads : InputAddress(op, j, f, h) \in Cells
  <1>1. PICK s \in Nat, q \in Nat : s = Size(op.ranges) /\ q = Size(op.reduced)
    BY OfConverted
  <1>2. f \in Points(op.ranges) /\ \A h \in Nat : h < q => h \in Points(op.reduced)
    BY <1>1 DEF Points
  <1> QED
    BY <1>1, <1>2 DEF Converted, Fits

(* The index of an operation's output, and those of what it reads, have    *)
(* their addresses as values.                                              *)
LEMMA AddressValues ==
    ASSUME NEW k \in DOMAIN Buffers, NEW op, Converted(op, k), NEW env \in Environments, NEW f,
           At(env, MakeIndices("i", op.ranges), op.ranges, Len(op.ranges), f)
    PROVE  /\ \A mem : HasValue(OutputIndex(op), env, mem, OutputAddress(op, f))
           /\ \A h : At(env, MakeIndices("r", op.reduced), op.reduced, Len(op.reduced), h) =>
                 \A j \in DOMAIN op.reads : \A mem :
                    HasValue(sympy_to_expr(op.reads[j].index), env, mem, InputAddress(op, j, f, h))
  <1>1. PICK S, R : S = Symbols("i", op.ranges) /\ R = Symbols("r", op.reduced)
    OBVIOUS
  <1>2. op.ranges \in Shapes /\ op.reduced \in ReducedShapes /\ IsOperation(op)
    BY OfConverted DEF Converted
  <1>3. IsIndex(op.index) /\ \A j \in DOMAIN op.reads : IsIndex(op.reads[j].index)
    BY <1>2 DEF IsOperation
  <1>4. UsesOnly(op.index, S) /\ \A j \in DOMAIN op.reads : UsesOnly(op.reads[j].index, S \cup R)
    BY <1>1 DEF Converted, Fits
  <1>5. ASSUME NEW mem PROVE HasValue(OutputIndex(op), env, mem, OutputAddress(op, f))
    <2>1. PICK at : at = Coordinates(op, f, 0)
      OBVIOUS
    <2>2. \A x \in S : at[x] = env[x]
      BY <1>1, <1>2, <2>1, CoordinatesAt
    <2>3. HasValue(sympy_to_expr(op.index), env, mem, Address(op.index, at))
      BY <1>3, <1>4, <2>2, IndexValue
    <2> QED
      BY <2>1, <2>3 DEF OutputIndex, OutputAddress
  <1>6. ASSUME NEW h, At(env, MakeIndices("r", op.reduced), op.reduced, Len(op.reduced), h),
               NEW j \in DOMAIN op.reads, NEW mem
        PROVE  HasValue(sympy_to_expr(op.reads[j].index), env, mem, InputAddress(op, j, f, h))
    <2>1. PICK at, index, T : at = Coordinates(op, f, h) /\ index = op.reads[j].index /\ T = S \cup R
      OBVIOUS
    <2>2. \A x \in S : at[x] = env[x]
      BY <1>1, <1>2, <2>1, CoordinatesAt
    <2>3. \A x \in R : at[x] = env[x]
      BY <1>1, <1>2, <1>6, <2>1, CoordinatesAt
    <2>4. IsIndex(index) /\ UsesOnly(index, T) /\ \A x \in T : at[x] = env[x]
      BY <1>3, <1>4, <2>1, <2>2, <2>3
    <2>5. HasValue(sympy_to_expr(index), env, mem, Address(index, at))
      BY <2>4, IndexValue
    <2> QED
      BY <2>1, <2>5 DEF InputAddress
  <1> QED
    BY <1>5, <1>6

(* No other name's tensor is among the bases. *)
OtherNamesKept(bases, op) == \A x \in Names : x # op.name => Ref(Role(x), x) \notin bases

(* Only the bases have changed. *)
Spares(mem, m, bases) == \A c \in Tensors \X Cells : c[1] \notin bases => m[c] = mem[c]

(* One value more, in memory and in the graph. *)
LEMMA PlacedMeans ==
    ASSUME NEW op, op.name \in Names, NEW bases, Ref(Role(op.name), op.name) \in bases,
           OtherNamesKept(bases, op),
           NEW mem, NEW g, Represents(mem, g), NEW p \in Cells, NEW x
    PROVE  Represents(Placed(mem, bases, p, x), [g EXCEPT ![<<op.name, p>>] = x])
  <1>1. PICK m, n : m = Placed(mem, bases, p, x) /\ n = [g EXCEPT ![<<op.name, p>>] = x]
    OBVIOUS
  <1>2. m = [c \in Tensors \X Cells |-> m[c]]
    BY <1>1 DEF Placed
  <1>3. g = [c \in Names \X Cells |-> g[c]]
    BY DEF Represents
  <1>4. n = [c \in Names \X Cells |-> n[c]]
    BY <1>1, <1>3
  <1>5. ASSUME NEW y \in Names, NEW i \in Cells
        PROVE  m[<<Ref(Role(y), y), i>>] = n[<<y, i>>]
    <2>1. PICK base : base = Ref(Role(y), y)
      OBVIOUS
    <2>2. <<base, i>> \in Tensors \X Cells /\ <<y, i>> \in Names \X Cells
      BY <2>1 DEF Tensors
    <2>3. m[<<base, i>>] = IF base \in bases /\ i = p THEN x ELSE mem[<<base, i>>]
      BY <1>1, <2>2 DEF Placed
    <2>4. n[<<y, i>>] = IF y = op.name /\ i = p THEN x ELSE g[<<y, i>>]
      BY <1>1, <1>3, <2>2
    <2>5. mem[<<base, i>>] = g[<<y, i>>]
      BY <2>1 DEF Represents
    <2>6. base \in bases <=> y = op.name
      BY <2>1 DEF OtherNamesKept
    <2> QED
      BY <2>1, <2>3, <2>4, <2>5, <2>6
  <1> QED
    <2>1. IsMemory(m)
      BY <1>2 DEF IsMemory
    <2>2. Represents(m, n)
      BY ONLY <1>4, <1>5, <2>1 DEF Represents
    <2> QED
      BY <1>1, <2>2

(* Memories in which an operation's values are put in one after another. *)
FillsOut(r, mem, g, op, bases) ==
    /\ r[0] = mem
    /\ \A f \in 0..(Size(op.ranges) - 1) :
          r[f + 1] = Placed(r[f], bases, OutputAddress(op, f), Result(g, op, f))

(* There are such memories.                                               *)
LEMMA FillsOutSomehow ==
    ASSUME NEW op, Size(op.ranges) \in Nat, NEW mem, NEW g, NEW bases
    PROVE  \E r : FillsOut(r, mem, g, op, bases)
  <1>1. PICK s \in Nat : s = Size(op.ranges)
    OBVIOUS
  <1>2. PICK place : place = [f \in 0..(s - 1) |-> OutputAddress(op, f)]
    OBVIOUS
  <1>3. PICK value : value = [f \in 0..(s - 1) |-> Result(g, op, f)]
    OBVIOUS
  <1>4. PICK r : Fills(r, mem, bases, place, value, s)
    BY FillSteps
  <1>5. ASSUME NEW f \in 0..(s - 1)
        PROVE  r[f + 1] = Placed(r[f], bases, OutputAddress(op, f), Result(g, op, f))
    <2>1. PICK i \in 1..s : i = f + 1 /\ i - 1 = f
      <3>1. f + 1 \in 1..s /\ (f + 1) - 1 = f
        OBVIOUS
      <3> QED
        BY <3>1
    <2>2. r[i] = Placed(r[f], bases, place[f], value[f])
      <3>1. r[i] = Placed(r[i - 1], bases, place[i - 1], value[i - 1])
        BY <1>4, <2>1 DEF Fills
      <3> QED
        BY <2>1, <3>1
    <2> QED
      BY <1>2, <1>3, <2>1, <2>2
  <1>6. r[0] = mem
    BY <1>4 DEF Fills
  <1> QED
    BY <1>1, <1>5, <1>6 DEF FillsOut

(* On the way other tensors are spared, and at the end memory represents   *)
(* what the operation means.                                               *)
LEMMA FillsOutMeans ==
    ASSUME NEW k \in DOMAIN Buffers, NEW op, Converted(op, k),
           NEW mem, NEW g, Represents(mem, g),
           NEW bases, Ref(Role(op.name), op.name) \in bases,
           OtherNamesKept(bases, op),
           NEW r, FillsOut(r, mem, g, op, bases)
    PROVE  /\ \A f \in 0..Size(op.ranges) : IsMemory(r[f]) /\ Spares(mem, r[f], bases)
           /\ Represents(r[Size(op.ranges)], Meaning(g, op))
  <1>1. PICK s \in Nat : s = Size(op.ranges)
    BY OfConverted
  <1>2. op.name \in Names
    BY OfConverted
  <1>3. PICK G : Gives(G, g, op) /\ Meaning(g, op) = G[s]
    BY <1>1, MeaningSteps
  <1> DEFINE T == {f \in 0..s : Represents(r[f], G[f]) /\ Spares(mem, r[f], bases)}
  <1>4. 0 \in T
    BY <1>3 DEF FillsOut, Gives, Spares
  <1>5. ASSUME NEW i \in 1..s, i - 1 \in T PROVE i \in T
    <2>1. PICK f \in 0..(s - 1) : f = i - 1 /\ f + 1 = i
      <3>1. i - 1 \in 0..(s - 1) /\ (i - 1) + 1 = i
        OBVIOUS
      <3> QED
        BY <3>1
    <2>2. PICK m, h, p, x : m = r[f] /\ h = G[f] /\ p = OutputAddress(op, f) /\ x = Result(g, op, f)
      OBVIOUS
    <2>3. Represents(m, h) /\ Spares(mem, m, bases)
      BY <1>5, <2>1, <2>2
    <2>4. p \in Cells
      <3>1. f \in Nat /\ f < Size(op.ranges)
        BY <1>1
      <3> QED
        BY <2>2, <3>1, CellsOfConverted
    <2>5. r[i] = Placed(m, bases, p, x)
      BY <1>1, <2>1, <2>2 DEF FillsOut
    <2>6. G[i] = [h EXCEPT ![<<op.name, p>>] = x]
      BY <1>1, <1>3, <2>1, <2>2 DEF Gives
    <2>7. Represents(r[i], G[i])
      <3>1. Represents(Placed(m, bases, p, x), [h EXCEPT ![<<op.name, p>>] = x])
        BY <1>2, <2>3, <2>4, PlacedMeans
      <3> QED
        BY <2>5, <2>6, <3>1
    <2>8. Spares(mem, r[i], bases)
      <3>1. \A c \in Tensors \X Cells : c[1] \notin bases => Placed(m, bases, p, x)[c] = m[c]
        BY DEF Placed
      <3> QED
        BY <2>3, <2>5, <3>1 DEF Spares
    <2> QED
      BY <2>7, <2>8
  <1>6. \A f \in 0..s : f \in T
    <2> HIDE DEF T
    <2> QED
      BY <1>4, <1>5, UpTo
  <1>7. s \in 0..s
    OBVIOUS
  <1>8. \A f \in 0..s : IsMemory(r[f]) /\ Spares(mem, r[f], bases)
    BY <1>6 DEF Represents
  <1> QED
    BY <1>1, <1>3, <1>6, <1>7, <1>8

(* Statement s does to memory what op does to the graph. *)
Computes(s, op) ==
    \A env \in Environments : \A mem, g :
       Represents(mem, g) =>
          \E after : Takes(s, env, mem, after) /\ Represents(after, Meaning(g, op))

(* An inner function at one place, while other tensors may have changed.   *)
LEMMA ValueOfInner ==
    ASSUME NEW k \in DOMAIN Buffers, NEW op, Converted(op, k),
           NEW mem, NEW g, Represents(mem, g), NEW m, NEW bases,
           OtherNamesKept(bases, op),
           Spares(mem, m, bases),
           NEW env \in Environments,
           NEW f \in Nat, f < Size(op.ranges),
           At(env, MakeIndices("i", op.ranges), op.ranges, Len(op.ranges), f),
           NEW h \in Nat, h < Size(op.reduced),
           At(env, MakeIndices("r", op.reduced), op.reduced, Len(op.reduced), h)
    PROVE  HasValue(Evaluate(op), env, m, Loaded(g, op, f, h))
  <1>1. IsOperation(op) /\ Known(k) \subseteq Names /\ \A x \in Known(k) : x # op.name
    BY OfConverted
  <1>2. \A j \in DOMAIN op.reads : InputAddress(op, j, f, h) \in Cells
    BY CellsOfConverted
  <1>3. \A j \in DOMAIN op.reads : HasValue(sympy_to_expr(op.reads[j].index), env, m, InputAddress(op, j, f, h))
    BY AddressValues
  <1>4. ASSUME NEW j \in DOMAIN op.reads
        PROVE  m[<<Ref(Role(op.reads[j].name), op.reads[j].name), InputAddress(op, j, f, h)>>]
                  = g[<<op.reads[j].name, InputAddress(op, j, f, h)>>]
    <2>1. PICK x, base, z : x = op.reads[j].name /\ base = Ref(Role(x), x) /\ z = InputAddress(op, j, f, h)
      OBVIOUS
    <2>2. x \in Known(k) /\ z \in Cells
      BY <1>2, <2>1 DEF Converted
    <2>3. x \in Names /\ base \notin bases
      BY <1>1, <2>1, <2>2 DEF OtherNamesKept
    <2>4. <<base, z>> \in Tensors \X Cells /\ <<base, z>>[1] = base
      BY <2>1, <2>2, <2>3 DEF Tensors
    <2>5. m[<<base, z>>] = mem[<<base, z>>]
      BY <2>3, <2>4 DEF Spares
    <2>6. mem[<<base, z>>] = g[<<x, z>>]
      BY <2>1, <2>2, <2>3 DEF Represents
    <2> QED
      BY <2>1, <2>5, <2>6
  <1> QED
    BY <1>1, <1>3, <1>4, EvaluateValue

(* A pointwise operation computes its output. *)
LEMMA PointwiseComputes ==
    ASSUME NEW k \in DOMAIN Buffers, NEW op, Converted(op, k), op.reduced = <<>>
    PROVE  Computes(PointwiseStmt(op), op)
  <1>1. SUFFICES ASSUME NEW env \in Environments, NEW mem, NEW g, Represents(mem, g)
                 PROVE  \E after : /\ Takes(PointwiseStmt(op), env, mem, after)
                                   /\ Represents(after, Meaning(g, op))
    BY DEF Computes
  <1>2. PICK s \in Nat : s = Size(op.ranges)
    BY OfConverted
  <1>3. op.ranges \in Shapes /\ op.name \in Names
    BY OfConverted DEF Converted
  <1>4. PICK base, at, value, body, bases :
           /\ base = Ref(Role(op.name), op.name) /\ at = OutputIndex(op)
           /\ value = Evaluate(op) /\ body = Store(base, at, value) /\ bases = {base}
    OBVIOUS
  <1>5. base \in Tensors /\ base \in bases /\ OtherNamesKept(bases, op)
    BY <1>3, <1>4, RefsDiffer DEF Tensors, OtherNamesKept
  <1>6. PICK M : FillsOut(M, mem, g, op, bases)
    BY <1>2, FillsOutSomehow
  <1>7. /\ \A f \in 0..s : IsMemory(M[f]) /\ Spares(mem, M[f], bases)
        /\ Represents(M[s], Meaning(g, op))
    BY <1>1, <1>2, <1>4, <1>5, <1>6, FillsOutMeans
  <1>8. Size(op.reduced) = 1 /\ Len(op.reduced) = 0
    <2>1. op.reduced \in Seq(Nat)
      BY ShapesAssumption DEF Converted
    <2> QED
      BY <2>1, Sizes
  <1>9. ASSUME NEW other \in Environments, NEW f \in Nat, f < s,
               At(other, MakeIndices("i", op.ranges), op.ranges, Len(op.ranges), f)
        PROVE  Takes(body, other, M[f * 1], M[(f + 1) * 1])
    <2>1. PICK m, n, c, x : m = M[f] /\ n = M[f + 1] /\ c = OutputAddress(op, f) /\ x = Loaded(g, op, f, 0)
      OBVIOUS
    <2>2. IsMemory(m) /\ Spares(mem, m, bases) /\ n = Placed(m, bases, c, x)
      <3>1. f \in 0..s /\ f \in 0..(s - 1)
        BY <1>9
      <3>2. Result(g, op, f) = x
        BY <2>1 DEF Result
      <3> QED
        BY <1>2, <1>6, <1>7, <2>1, <3>1, <3>2 DEF FillsOut
    <2>3. c \in Cells
      BY <1>2, <1>9, <2>1, CellsOfConverted
    <2>4. HasValue(at, other, m, c)
      BY <1>4, <1>9, <2>1, AddressValues
    <2>5. HasValue(value, other, m, x)
      <3>1. At(other, MakeIndices("r", op.reduced), op.reduced, Len(op.reduced), 0)
        BY <1>8, AtZero
      <3>2. 0 \in Nat /\ 0 < Size(op.reduced) /\ f < Size(op.ranges)
        BY <1>2, <1>8, <1>9
      <3>3. HasValue(Evaluate(op), other, m, Loaded(g, op, f, 0))
        BY <1>1, <1>5, <1>9, <2>2, <3>1, <3>2, ValueOfInner
      <3> QED
        BY <1>4, <2>1, <3>3
    <2>6. Takes(body, other, m, [m EXCEPT ![<<base, c>>] = x])
      BY <1>4, <2>4, <2>5, TakesStore
    <2>7. [m EXCEPT ![<<base, c>>] = x] = n
      <3>1. PICK q : q = <<base, c>>
        OBVIOUS
      <3>2. \A d \in Tensors \X Cells : d = q <=> d[1] \in bases /\ d[2] = c
        BY <1>4, <3>1
      <3>3. m = [d \in Tensors \X Cells |-> m[d]]
        BY <2>2 DEF IsMemory
      <3>4. [m EXCEPT ![q] = x] = [d \in Tensors \X Cells |-> IF d = q THEN x ELSE m[d]]
        BY <3>3
      <3>5. n = [d \in Tensors \X Cells |-> IF d[1] \in bases /\ d[2] = c THEN x ELSE m[d]]
        BY <2>2 DEF Placed
      <3> QED
        BY ONLY <3>1, <3>2, <3>4, <3>5
    <2>8. f * 1 = f /\ (f + 1) * 1 = f + 1
      OBVIOUS
    <2> QED
      BY <2>1, <2>6, <2>7, <2>8
  <1>10. Takes(PointwiseStmt(op), env, M[0], M[s])
    <2>1. Passes(body, env, "i", op.ranges, Len(op.ranges), M, Size(op.ranges), 1)
      BY <1>2, <1>9 DEF Passes, Agrees
    <2>2. \E w : HasStores(body, w)
      BY <1>4, StoresOfStore
    <2>3. Takes(NestLoops("i", op.ranges, body), env, M[0], M[Size(op.ranges)])
      BY <1>1, <1>3, <2>1, <2>2, TakesNest
    <2> QED
      BY <1>2, <1>4, <2>3 DEF PointwiseStmt
  <1>11. M[0] = mem
    BY <1>6 DEF FillsOut
  <1> QED
    BY <1>7, <1>10, <1>11

(* One cell of memory replaced. *)
Cell(m, base, f, x) == [m EXCEPT ![<<base, f>>] = x]

(* Writing a cell leaves the others, and a second write wins.             *)
LEMMA CellIsReplaced ==
    ASSUME NEW m, IsMemory(m),
           NEW base \in Tensors, NEW f \in Cells, NEW x
    PROVE  /\ IsMemory(Cell(m, base, f, x))
           /\ Cell(m, base, f, x)[<<base, f>>] = x
           /\ \A c \in Tensors \X Cells : c[1] # base => Cell(m, base, f, x)[c] = m[c]
           /\ \A y : Cell(Cell(m, base, f, x), base, f, y) = Cell(m, base, f, y)
  <1>1. PICK p \in Tensors \X Cells : p = <<base, f>>
    OBVIOUS
  <1>2. PICK n : n = [m EXCEPT ![p] = x]
    OBVIOUS
  <1>3. n = [c \in Tensors \X Cells |-> IF c = p THEN x ELSE m[c]]
    BY <1>2 DEF IsMemory
  <1>4. n = [c \in Tensors \X Cells |-> n[c]] /\ n[p] = x
    BY <1>3
  <1>5. \A c \in Tensors \X Cells : c # p => n[c] = m[c]
    BY <1>3
  <1>6. \A c \in Tensors \X Cells : c[1] # base => c # p
    BY <1>1
  <1>7. ASSUME NEW y PROVE [n EXCEPT ![p] = y] = [m EXCEPT ![p] = y]
    <2>1. [n EXCEPT ![p] = y] = [c \in Tensors \X Cells |-> IF c = p THEN y ELSE n[c]]
      BY <1>4
    <2>2. [m EXCEPT ![p] = y] = [c \in Tensors \X Cells |-> IF c = p THEN y ELSE m[c]]
      BY DEF IsMemory
    <2> QED
      BY <1>5, <2>1, <2>2
  <1>8. Cell(m, base, f, x) = n
    BY <1>1, <1>2 DEF Cell
  <1>9. \A y : Cell(n, base, f, y) = Cell(m, base, f, y)
    BY <1>1, <1>7 DEF Cell
  <1> QED
    BY <1>1, <1>4, <1>5, <1>6, <1>8, <1>9 DEF IsMemory

(* One iteration of a reduction adds what it loads to the accumulator. *)
LEMMA AddsOne ==
    ASSUME NEW k \in DOMAIN Buffers, NEW op, Converted(op, k),
           NEW mem, NEW g, Represents(mem, g), NEW bases,
           OtherNamesKept(bases, op),
           NEW acc \in Tensors, acc \in bases,
           NEW m, IsMemory(m),
           Spares(mem, m, bases),
           NEW env \in Environments,
           NEW f \in Nat, f < Size(op.ranges),
           At(env, MakeIndices("i", op.ranges), op.ranges, Len(op.ranges), f),
           NEW h \in Nat, h < Size(op.reduced),
           At(env, MakeIndices("r", op.reduced), op.reduced, Len(op.reduced), h),
           NEW p, p = OutputAddress(op, f),
           NEW x, NEW y, y = x + Loaded(g, op, f, h)
    PROVE  Takes(Store(acc, OutputIndex(op), BinaryOp("+", Load(acc, OutputIndex(op)), Evaluate(op))),
                 env, Cell(m, acc, p, x), Cell(m, acc, p, y))
  <1>1. PICK at, value, n : at = OutputIndex(op) /\ value = Evaluate(op) /\ n = Cell(m, acc, p, x)
    OBVIOUS
  <1>3. p \in Cells
    BY CellsOfConverted
  <1>4. /\ n[<<acc, p>>] = x
        /\ \A c \in Tensors \X Cells : c[1] # acc => n[c] = m[c]
        /\ Cell(n, acc, p, y) = Cell(m, acc, p, y)
    <2>1. /\ Cell(m, acc, p, x)[<<acc, p>>] = x
          /\ \A c \in Tensors \X Cells : c[1] # acc => Cell(m, acc, p, x)[c] = m[c]
          /\ \A z : Cell(Cell(m, acc, p, x), acc, p, z) = Cell(m, acc, p, z)
      BY <1>3, CellIsReplaced
    <2> QED
      BY <1>1, <2>1
  <1>5. HasValue(at, env, n, p)
    BY <1>1, AddressValues
  <1>6. HasValue(Load(acc, at), env, n, x)
    BY <1>4, <1>5, ValueOfLoad
  <1>7. HasValue(value, env, n, Loaded(g, op, f, h))
    <2>1. Spares(mem, n, bases)
      BY <1>4 DEF Spares
    <2> QED
      BY <1>1, <2>1, ValueOfInner
  <1>8. HasValue(BinaryOp("+", Load(acc, at), value), env, n, y)
    BY <1>6, <1>7, ValueOfBinaryOp
  <1>9. Takes(Store(acc, at, BinaryOp("+", Load(acc, at), value)), env, n, Cell(n, acc, p, y))
    BY <1>5, <1>8, TakesStore DEF Cell
  <1> QED
    BY <1>1, <1>4, <1>9

(* The reduction loops leave the sum in the accumulator. *)
LEMMA AddsAll ==
    ASSUME NEW k \in DOMAIN Buffers, NEW op, Converted(op, k),
           NEW mem, NEW g, Represents(mem, g), NEW bases,
           OtherNamesKept(bases, op),
           NEW acc \in Tensors, acc \in bases,
           NEW m, IsMemory(m),
           Spares(mem, m, bases),
           NEW env \in Environments,
           NEW f \in Nat, f < Size(op.ranges),
           At(env, MakeIndices("i", op.ranges), op.ranges, Len(op.ranges), f),
           NEW p, p = OutputAddress(op, f),
           NEW update,
           update = Store(acc, OutputIndex(op), BinaryOp("+", Load(acc, OutputIndex(op)), Evaluate(op)))
    PROVE  Takes(NestLoops("r", op.reduced, update), env,
                 Cell(m, acc, p, 0), Cell(m, acc, p, Summed(g, op, f)))
  <1>1. PICK q \in Nat : q = Size(op.reduced)
    BY OfConverted
  <1>2. op.ranges \in Shapes /\ op.reduced \in ReducedShapes /\ op.ranges \in Seq(Nat)
    BY ShapesAssumption DEF Converted
  <1>3. PICK sum : AddsUp(sum, g, op, f) /\ Summed(g, op, f) = sum[q]
    BY <1>1, SummedSteps
  <1>4. /\ sum[0] = 0
        /\ \A h \in 1..q : sum[h] = sum[h - 1] + Loaded(g, op, f, h - 1)
    BY <1>1, <1>3 DEF AddsUp
  <1>5. PICK R : R = [h \in 0..q |-> Cell(m, acc, p, sum[h])]
    OBVIOUS
  <1>6. ASSUME NEW other, Agrees(env, other, "r"), NEW h \in Nat, h < q,
               At(other, MakeIndices("r", op.reduced), op.reduced, Len(op.reduced), h)
        PROVE  Takes(update, other, R[h * 1], R[(h + 1) * 1])
    <2>1. PICK i : i = h + 1 /\ i \in 0..q /\ h \in 0..q /\ i \in 1..q /\ i - 1 = h
      <3>1. h + 1 \in 0..q /\ h \in 0..q /\ h + 1 \in 1..q /\ (h + 1) - 1 = h
        BY <1>6
      <3> QED
        BY <3>1
    <2>2. At(other, MakeIndices("i", op.ranges), op.ranges, Len(op.ranges), f)
      <3>1. \A j \in 1..Len(op.ranges) :
               env[MakeIndices("i", op.ranges)[j]] = other[MakeIndices("i", op.ranges)[j]]
        <4> SUFFICES ASSUME NEW j \in 1..Len(op.ranges), NEW v, v = MakeIndices("i", op.ranges)[j]
                     PROVE  env[v] = other[v]
          OBVIOUS
        <4>1. v \in Variables /\ v = <<"i", j - 1>>
          BY <1>2, LoopVariables
        <4>2. v[1] # "r"
          BY <4>1
        <4> QED
          BY <1>6, <4>1, <4>2 DEF Agrees
      <3>2. Len(op.ranges) \in Nat
        BY <1>2
      <3> QED
        BY <3>1, <3>2, AtSame
    <2>3. sum[i] = sum[h] + Loaded(g, op, f, h)
      BY <1>4, <2>1
    <2>4. PICK x, y : x = sum[h] /\ y = sum[i]
      OBVIOUS
    <2>5. y = x + Loaded(g, op, f, h)
      BY <1>1, <2>3, <2>4
    <2>6. other \in Environments /\ h < Size(op.reduced)
      BY <1>1, <1>6 DEF Agrees
    <2>7. Takes(update, other, Cell(m, acc, p, x), Cell(m, acc, p, y))
      <3>1. Takes(Store(acc, OutputIndex(op), BinaryOp("+", Load(acc, OutputIndex(op)), Evaluate(op))),
                  other, Cell(m, acc, p, x), Cell(m, acc, p, y))
        BY <1>6, <2>2, <2>5, <2>6, AddsOne
      <3> QED
        BY <3>1
    <2>8. R[h] = Cell(m, acc, p, x) /\ R[i] = Cell(m, acc, p, y)
      BY <1>5, <2>1, <2>4
    <2>9. h * 1 = h /\ (h + 1) * 1 = i
      BY <2>1
    <2> QED
      BY <2>7, <2>8, <2>9
  <1>7. Takes(NestLoops("r", op.reduced, update), env, R[0], R[Size(op.reduced)])
    <2>1. Passes(update, env, "r", op.reduced, Len(op.reduced), R, Size(op.reduced), 1)
      BY <1>1, <1>6 DEF Passes
    <2>2. \E w : HasStores(update, w)
      BY StoresOfStore
    <2> QED
      BY <1>2, <2>1, <2>2, TakesNest
  <1>8. R[0] = Cell(m, acc, p, 0) /\ R[q] = Cell(m, acc, p, Summed(g, op, f))
    BY <1>3, <1>4, <1>5
  <1> QED
    BY <1>1, <1>7, <1>8

(* At every output point a reduction leaves the sum in its accumulator and *)
(* in its output.                                                          *)
LEMMA ReducesOne ==
    ASSUME NEW k \in DOMAIN Buffers, NEW op, Converted(op, k),
           NEW mem, NEW g, Represents(mem, g), NEW bases,
           OtherNamesKept(bases, op),
           NEW acc \in Tensors, acc \in bases,
           NEW base \in Tensors, base \in bases, base # acc, bases = {acc, base},
           NEW f \in Nat, f < Size(op.ranges), NEW p, p = OutputAddress(op, f),
           NEW x, x = Summed(g, op, f),
           NEW m, IsMemory(m), Spares(mem, m, bases),
           NEW env \in Environments,
           At(env, MakeIndices("i", op.ranges), op.ranges, Len(op.ranges), f),
           NEW at, at = OutputIndex(op)
    PROVE  Takes(Seq2(Store(acc, at, Num(0)),
                      Seq2(NestLoops("r", op.reduced,
                                     Store(acc, at, BinaryOp("+", Load(acc, at), Evaluate(op)))),
                           Store(base, at, Load(acc, at)))),
                 env, m, Placed(m, bases, p, x))
  <1>1. PICK update, m1, m2, n :
           /\ update = Store(acc, at, BinaryOp("+", Load(acc, at), Evaluate(op)))
           /\ m1 = Cell(m, acc, p, 0) /\ m2 = Cell(m, acc, p, x) /\ n = Cell(m2, base, p, x)
    OBVIOUS
  <1>3. p \in Cells
    BY CellsOfConverted
  <1>4. IsMemory(m) /\ Spares(mem, m, bases)
    OBVIOUS
  <1>5. ASSUME NEW other PROVE HasValue(at, env, other, p)
    BY AddressValues
  <1>6. Takes(Store(acc, at, Num(0)), env, m, m1)
    <2>1. HasValue(Num(0), env, m, 0)
      BY ValueOfNum
    <2> QED
      BY <1>1, <1>5, <2>1, TakesStore DEF Cell
  <1>7. Takes(NestLoops("r", op.reduced, update), env, m1, m2)
    <2>1. update = Store(acc, OutputIndex(op), BinaryOp("+", Load(acc, OutputIndex(op)), Evaluate(op)))
      BY <1>1
    <2>2. Takes(NestLoops("r", op.reduced, update), env, Cell(m, acc, p, 0), Cell(m, acc, p, Summed(g, op, f)))
      BY <1>4, <2>1, AddsAll
    <2> QED
      BY <1>1, <2>2
  <1>8. IsMemory(m2) /\ m2[<<acc, p>>] = x /\ \A c \in Tensors \X Cells : c[1] # acc => m2[c] = m[c]
    <2>1. /\ IsMemory(Cell(m, acc, p, x)) /\ Cell(m, acc, p, x)[<<acc, p>>] = x
          /\ \A c \in Tensors \X Cells : c[1] # acc => Cell(m, acc, p, x)[c] = m[c]
      BY ONLY <1>3, <1>4, acc \in Tensors, CellIsReplaced
    <2> QED
      BY <1>1, <2>1
  <1>9. Takes(Store(base, at, Load(acc, at)), env, m2, n)
    <2>1. HasValue(Load(acc, at), env, m2, x)
      BY <1>5, <1>8, ValueOfLoad
    <2> QED
      BY <1>1, <1>5, <2>1, TakesStore DEF Cell
  <1>10. n = Placed(m, bases, p, x)
    <2>1. IsMemory(n)
      <3>1. IsMemory(Cell(m2, base, p, x))
        <4>1. IsMemory(m2)
          BY <1>8
        <4> QED
          BY ONLY <1>3, <4>1, base \in Tensors, CellIsReplaced
      <3> QED
        BY <1>1, <3>1
    <2>2. ASSUME NEW c \in Tensors \X Cells
          PROVE  n[c] = IF c[1] \in bases /\ c[2] = p THEN x ELSE m[c]
      <3>1. PICK t, q : t = <<acc, p>> /\ q = <<base, p>>
        OBVIOUS
      <3>2. c = t <=> c[1] = acc /\ c[2] = p
        BY <3>1
      <3>3. c = q <=> c[1] = base /\ c[2] = p
        BY <3>1
      <3>4. m2[c] = IF c = t THEN x ELSE m[c]
        BY <1>1, <1>4, <3>1 DEF Cell, IsMemory
      <3>5. n[c] = IF c = q THEN x ELSE m2[c]
        BY <1>1, <1>8, <3>1 DEF Cell, IsMemory
      <3>6. c[1] \in bases <=> c[1] = acc \/ c[1] = base
        OBVIOUS
      <3> QED
        BY ONLY <3>2, <3>3, <3>4, <3>5, <3>6
    <2>3. n = [c \in Tensors \X Cells |-> n[c]]
      BY <2>1 DEF IsMemory
    <2> QED
      BY <2>2, <2>3 DEF Placed
  <1>11. Takes(Seq2(NestLoops("r", op.reduced, update), Store(base, at, Load(acc, at))), env, m1, n)
    BY <1>7, <1>9, TakesSeq2
  <1>12. Takes(Seq2(Store(acc, at, Num(0)),
                    Seq2(NestLoops("r", op.reduced, update), Store(base, at, Load(acc, at)))),
               env, m, n)
    BY <1>6, <1>11, TakesSeq2
  <1> QED
    BY <1>1, <1>10, <1>12

(* A reduction computes its output. *)
LEMMA ReductionComputes ==
    ASSUME NEW k \in DOMAIN Buffers, NEW op, Converted(op, k), op.reduced # <<>>,
           accumulators \in Numbers
    PROVE  Computes(ReductionStmt(op), op)
  <1>1. SUFFICES ASSUME NEW env \in Environments, NEW mem, NEW g, Represents(mem, g)
                 PROVE  \E after : /\ Takes(ReductionStmt(op), env, mem, after)
                                   /\ Represents(after, Meaning(g, op))
    BY DEF Computes
  <1>2. PICK s \in Nat : s = Size(op.ranges)
    BY OfConverted
  <1>3. op.ranges \in Shapes /\ op.name \in Names
    BY OfConverted DEF Converted
  <1>4. PICK base, acc, at, bases :
           /\ base = Ref(Role(op.name), op.name) /\ at = OutputIndex(op)
           /\ acc = Ref("tensor", Accumulator(accumulators)) /\ bases = {acc, base}
    OBVIOUS
  <1>5. PICK update, body :
           /\ update = Store(acc, at, BinaryOp("+", Load(acc, at), Evaluate(op)))
           /\ body = Seq2(Store(acc, at, Num(0)),
                          Seq2(NestLoops("r", op.reduced, update), Store(base, at, Load(acc, at))))
    OBVIOUS
  <1>6. ReductionStmt(op) = NestLoops("i", op.ranges, body)
    <2>1. PICK s1, s2, s3 : /\ s1 = Store(acc, at, Num(0))
                            /\ s2 = NestLoops("r", op.reduced, update)
                            /\ s3 = Store(base, at, Load(acc, at))
      OBVIOUS
    <2>2. ReductionStmt(op) = NestLoops("i", op.ranges, seq(<<s1, s2, s3>>))
      BY <1>4, <1>5, <2>1 DEF ReductionStmt
    <2>3. seq(<<s1, s2, s3>>) = Seq2(s1, Seq2(s2, s3))
      BY SeqOfThree
    <2> QED
      BY <1>5, <2>1, <2>2, <2>3
  <1>7. /\ base \in Tensors /\ acc \in Tensors /\ base # acc
        /\ acc \in bases /\ base \in bases /\ OtherNamesKept(bases, op)
    <2>1. base \in Tensors /\ acc \in Tensors
      BY <1>3, <1>4 DEF Tensors
    <2>2. \A x \in Names : Ref(Role(x), x) # acc
      BY <1>4, AccumulatorsDiffer
    <2>3. \A x \in Names : x # op.name => Ref(Role(x), x) # base
      BY <1>4, RefsDiffer
    <2> QED
      BY <1>3, <1>4, <2>1, <2>2, <2>3 DEF OtherNamesKept
  <1>8. PICK M : FillsOut(M, mem, g, op, bases)
    BY <1>2, FillsOutSomehow
  <1>9. /\ \A f \in 0..s : IsMemory(M[f]) /\ Spares(mem, M[f], bases)
        /\ Represents(M[s], Meaning(g, op))
    BY <1>1, <1>2, <1>4, <1>7, <1>8, FillsOutMeans
  <1>10. ASSUME NEW other \in Environments, NEW f \in Nat, f < s,
                At(other, MakeIndices("i", op.ranges), op.ranges, Len(op.ranges), f)
         PROVE  Takes(body, other, M[f * 1], M[(f + 1) * 1])
    <2>1. PICK m, p, x : m = M[f] /\ p = OutputAddress(op, f) /\ x = Summed(g, op, f)
      OBVIOUS
    <2>2. IsMemory(m) /\ Spares(mem, m, bases) /\ M[f + 1] = Placed(m, bases, p, x)
      <3>1. f \in 0..s /\ f \in 0..(s - 1)
        BY <1>10
      <3>2. Result(g, op, f) = x
        BY <2>1 DEF Result
      <3> QED
        BY <1>2, <1>8, <1>9, <2>1, <3>1, <3>2 DEF FillsOut
    <2>3. f < Size(op.ranges)
      BY <1>2, <1>10
    <2>4. Takes(Seq2(Store(acc, at, Num(0)),
                     Seq2(NestLoops("r", op.reduced,
                                    Store(acc, at, BinaryOp("+", Load(acc, at), Evaluate(op)))),
                          Store(base, at, Load(acc, at)))),
                other, m, Placed(m, bases, p, x))
      BY <1>1, <1>4, <1>7, <1>10, <2>1, <2>2, <2>3, ReducesOne
    <2>5. f * 1 = f /\ (f + 1) * 1 = f + 1
      OBVIOUS
    <2> QED
      BY <1>5, <2>1, <2>2, <2>4, <2>5
  <1>11. Takes(ReductionStmt(op), env, M[0], M[s])
    <2>1. Passes(body, env, "i", op.ranges, Len(op.ranges), M, Size(op.ranges), 1)
      BY <1>2, <1>10 DEF Passes, Agrees
    <2>2. \E w : HasStores(body, w)
      <3>1. \E w : HasStores(update, w)
        BY <1>5, StoresOfStore
      <3>2. \E w : HasStores(NestLoops("r", op.reduced, update), w)
        BY <3>1, NestHasStores, ShapesAssumption DEF Converted
      <3>3. \E w : HasStores(Store(base, at, Load(acc, at)), w)
        BY StoresOfStore
      <3>4. \E w : HasStores(Seq2(NestLoops("r", op.reduced, update), Store(base, at, Load(acc, at))), w)
        BY <3>2, <3>3, StoresOfSeq2
      <3>5. \E w : HasStores(Store(acc, at, Num(0)), w)
        BY StoresOfStore
      <3> QED
        BY <1>5, <3>4, <3>5, StoresOfSeq2
    <2>3. Takes(NestLoops("i", op.ranges, body), env, M[0], M[Size(op.ranges)])
      BY <1>1, <1>3, <2>1, <2>2, TakesNest
    <2> QED
      BY <1>2, <1>6, <2>3
  <1>12. M[0] = mem
    BY <1>8 DEF FillsOut
  <1> QED
    BY <1>9, <1>11, <1>12

-----------------------------------------------------------------------------
(* The program. *)

(* At the start. *)
LEMMA InitiallyRepresents ==
    ASSUME NEW g, g = [at \in Names \X Cells |-> Initially(at[1], at[2])]
    PROVE  Represents(InitialMemory, g)
  <1>1. IsMemory(InitialMemory)
    BY DEF InitialMemory, IsMemory
  <1>2. g = [c \in Names \X Cells |-> g[c]]
    OBVIOUS
  <1>3. ASSUME NEW x \in Names, NEW i \in Cells
        PROVE  InitialMemory[<<Ref(Role(x), x), i>>] = g[<<x, i>>]
    <2>1. PICK base : base = Ref(Role(x), x)
      OBVIOUS
    <2>2. base.name = x /\ base \in Tensors
      BY <2>1 DEF Ref, Tensors
    <2>3. InitialMemory[<<base, i>>] = Initially(x, i)
      BY <2>2 DEF InitialMemory
    <2> QED
      BY <2>1, <2>3
  <1> QED
    BY <1>1, <1>2, <1>3 DEF Represents

(* From the k-th operation on, a program gives what the graph ends with. *)
Finishes(s, env, g, last) ==
    \A mem : Represents(mem, g) =>
       \E after : Takes(s, env, mem, after) /\ Represents(after, last)

(* The whole program, run from the start, leaves the graph's memory       *)
(* (build).                                                               *)
LEMMA BuildFinishes ==
    ASSUME NEW env \in Environments, IsSequence(statements),
           Len(statements) = Len(operations),
           \A k \in 1..Len(statements) : Computes(statements[k], operations[k])
    PROVE  \E after : /\ Takes(Build, env, InitialMemory, after)
                      /\ Represents(after, GraphMemory)
  <1>1. PICK n \in Nat : n = Len(statements) /\ DOMAIN statements = 1..n
    BY Positions
  <1>2. PICK G : Means(G) /\ GraphMemory = G[n]
    BY <1>1, GraphSteps
  <1>3. /\ G[0] = [at \in Names \X Cells |-> Initially(at[1], at[2])]
        /\ \A k \in 1..n : G[k] = Meaning(G[k - 1], operations[k])
    BY <1>1, <1>2 DEF Means
  <1>4. Represents(InitialMemory, G[0])
    BY <1>3, InitiallyRepresents
  <1>5. CASE n = 0
    <2>1. Build = Dummy
      BY <1>1, <1>5 DEF Build, IsSequence
    <2>2. PICK v : v = [e \in Environments |-> <<>>]
      OBVIOUS
    <2>3. HasStores(Dummy, v) /\ v[env] = <<>>
      BY <2>2, StoresOfDummy
    <2>4. IsSequence(<<>>)
      <3>1. PICK w : w = <<>>
        OBVIOUS
      <3>2. w \in Seq({})
        BY <3>1
      <3> QED
        BY <3>1, <3>2 DEF IsSequence
    <2>5. Run(InitialMemory, <<>>) = InitialMemory
      BY RunNothing
    <2>6. Takes(Build, env, InitialMemory, InitialMemory)
      BY <2>1, <2>3, <2>4, <2>5 DEF Takes
    <2> QED
      BY <1>2, <1>4, <1>5, <2>6
  <1>6. CASE n # 0
    <2>1. PICK r : Sequences(r, statements) /\ seq(statements) = r[n]
      <3>1. Len(statements) \in Nat \ {0}
        BY <1>1, <1>6
      <3> QED
        BY <1>1, <3>1, SeqSteps
    <2>2. r[1] = statements[n] /\ \A j \in 2..n : r[j] = Seq2(statements[n + 1 - j], r[j - 1])
      BY <1>1, <2>1 DEF Sequences, Last
    <2> DEFINE T == {0} \cup {j \in 1..n : Finishes(r[j], env, G[n - j], G[n])}
    <2>3. ASSUME NEW j \in 1..n, j - 1 \in T PROVE j \in T
      <3>1. PICK k \in 1..n : k = n + 1 - j /\ k - 1 = n - j
        <4>1. n + 1 - j \in 1..n /\ (n + 1 - j) - 1 = n - j
          OBVIOUS
        <4> QED
          BY <4>1
      <3>2. PICK s, g, g2 : s = statements[k] /\ g = G[k - 1] /\ g2 = G[k]
        OBVIOUS
      <3>3. Computes(s, operations[k]) /\ g2 = Meaning(g, operations[k])
        BY <1>1, <1>3, <3>2
      <3>4. ASSUME NEW mem, Represents(mem, g)
            PROVE  \E after : Takes(s, env, mem, after) /\ Represents(after, g2)
        BY <3>3, <3>4 DEF Computes
      <3>5. CASE j = 1
        <4>1. k = n
          BY <3>1, <3>5
        <4>2. r[j] = s /\ g2 = G[n]
          BY <2>2, <3>2, <3>5, <4>1
        <4>3. Finishes(s, env, g, g2)
          BY <3>4 DEF Finishes
        <4> QED
          BY <3>1, <3>2, <4>2, <4>3
      <3>6. CASE j # 1
        <4>1. j \in 2..n /\ j - 1 \in 1..n /\ n - (j - 1) = k
          BY <3>1, <3>6
        <4>2. PICK t : t = r[j - 1]
          OBVIOUS
        <4>3. r[j] = Seq2(s, t)
          BY <2>2, <3>1, <3>2, <4>1, <4>2
        <4>4. Finishes(t, env, g2, G[n])
          BY <2>3, <3>2, <4>1, <4>2
        <4>5. ASSUME NEW mem, Represents(mem, g)
              PROVE  \E after : Takes(Seq2(s, t), env, mem, after) /\ Represents(after, G[n])
          <5>1. PICK mid : Takes(s, env, mem, mid) /\ Represents(mid, g2)
            BY <3>4, <4>5
          <5>2. PICK after : Takes(t, env, mid, after) /\ Represents(after, G[n])
            BY <4>4, <5>1 DEF Finishes
          <5>3. Takes(Seq2(s, t), env, mem, after)
            BY <5>1, <5>2, TakesSeq2
          <5> QED
            BY <5>2, <5>3
        <4>6. Finishes(Seq2(s, t), env, g, G[n])
          BY <4>5 DEF Finishes
        <4> QED
          BY <3>1, <3>2, <4>3, <4>6
      <3> QED
        BY <3>5, <3>6
    <2>4. n \in T
      <3>1. 0 \in T /\ n \in 0..n
        OBVIOUS
      <3> HIDE DEF T
      <3> QED
        BY <2>3, <3>1, UpTo
    <2>5. Finishes(r[n], env, G[0], G[n])
      <3>1. n - n = 0
        OBVIOUS
      <3> QED
        BY <1>6, <2>4, <3>1
    <2>6. Build = r[n]
      <3>1. statements # <<>>
        BY <1>1, <1>6
      <3> QED
        BY <2>1, <3>1 DEF Build
    <2> QED
      BY <1>2, <1>4, <2>5, <2>6 DEF Finishes
  <1> QED
    BY <1>5, <1>6

(* So running the program gives the graph's memory. *)
LEMMA ProgramIsGraph ==
    ASSUME IsSequence(statements), Len(statements) = Len(operations),
           \A k \in 1..Len(statements) : Computes(statements[k], operations[k])
    PROVE  ProgramComputesGraph
  <1>1. PICK env : env = [v \in Variables |-> 0]
    OBVIOUS
  <1>2. env \in Environments
    BY <1>1 DEF Environments
  <1>3. PICK after : Takes(Build, env, InitialMemory, after) /\ Represents(after, GraphMemory)
    BY <1>2, BuildFinishes
  <1>4. Run(InitialMemory, Stores(Build, env)) = after
    <2>1. PICK v : HasStores(Build, v) /\ Run(InitialMemory, v[env]) = after
      BY <1>3 DEF Takes
    <2>2. Stores(Build, env) = v[env]
      BY <2>1, StoresAreThese
    <2> QED
      BY <2>1, <2>2
  <1>5. \A name \in Names, i \in Cells :
           after[<<Ref(Role(name), name), i>>] = GraphMemory[<<name, i>>]
    BY <1>3 DEF Represents
  <1> QED
    BY <1>1, <1>4, <1>5 DEF ProgramComputesGraph

-----------------------------------------------------------------------------
(* The inductive invariant: every statement converted so far is right for  *)
(* its operation.                                                          *)
Right(k) ==
    /\ Converted(operations[k], k)
    /\ Writes(statements[k], k)
    /\ Computes(statements[k], operations[k])

StatementsAreRight ==
    /\ IsSequence(operations) /\ IsSequence(statements)
    /\ Len(statements) = Len(operations) /\ Len(operations) <= Len(Buffers)
    /\ accumulators \in Nat /\ (status = "building" => accumulators <= Len(operations))
    /\ \A k \in 1..Len(operations) : Right(k)

(* Something after a sequence. *)
LEMMA Appending ==
    ASSUME NEW w, IsSequence(w), NEW x
    PROVE  /\ IsSequence(Append(w, x)) /\ Len(w) \in Nat /\ Len(Append(w, x)) = Len(w) + 1
           /\ \A k \in 1..Len(w) : Append(w, x)[k] = w[k]
           /\ Append(w, x)[Len(w) + 1] = x
  <1>1. PICK V : w \in Seq(V)
    BY DEF IsSequence
  <1>2. PICK U : U = V \cup {x}
    OBVIOUS
  <1>3. w \in Seq(U) /\ x \in U
    <2>1. V \subseteq U
      BY <1>2
    <2> QED
      BY <1>1, <1>2, <2>1, SeqMonotonic
  <1>4. Append(w, x) \in Seq(U) /\ Len(w) \in Nat /\ Len(Append(w, x)) = Len(w) + 1
    BY <1>3
  <1>5. \A k \in 1..Len(w) : Append(w, x)[k] = w[k]
    BY <1>3
  <1>6. Append(w, x)[Len(w) + 1] = x
    BY <1>3
  <1> QED
    BY <1>4, <1>5, <1>6 DEF IsSequence

(* What is read is known. *)
LEMMA ReadsAreKnown ==
    ASSUME NEW S, NEW reads \in BoundedSeq(S, MaxReads)
    PROVE  IsSequence(reads) /\ \A j \in DOMAIN reads : reads[j] \in S
  <1>1. PICK n \in 0..MaxReads : reads \in [1..n -> S]
    BY DEF BoundedSeq, SeqOf
  <1>2. n \in Nat
    BY <1>1, ShapesAssumption
  <1>3. reads \in Seq(S)
    BY <1>1, <1>2, SeqDef
  <1> QED
    BY <1>1, <1>3 DEF IsSequence

(* What is right does not change while the graph's outputs do not. *)
LEMMA RolesAreKept ==
    ASSUME outputs' = outputs
    PROVE  /\ \A s, k : Writes(s, k) => Writes(s, k)'
           /\ \A s, op : Computes(s, op) => Computes(s, op)'
  <1>1. \A x : Role(x)' = Role(x)
    BY DEF Role
  <1>2. ASSUME NEW w, NEW n, NEW k, Explained(w, n, k) PROVE Explained(w, n, k)'
    BY <1>1, <1>2 DEF Explained
  <1>3. ASSUME NEW s, NEW k, Writes(s, k) PROVE Writes(s, k)'
    <2>1. PICK w : /\ IsSequence(w) /\ HasWritten(s, w)
                   /\ \A n \in DOMAIN w : Explained(w, n, k)
                   /\ \E n \in DOMAIN w : w[n].base = Ref(Role(Buffers[k]), Buffers[k])
      BY <1>3 DEF Writes
    <2>2. \A n \in DOMAIN w : Explained(w, n, k)'
      BY <1>2, <2>1
    <2>3. \E n \in DOMAIN w : w[n].base = Ref(Role(Buffers[k])', Buffers[k])
      BY <1>1, <2>1
    <2> QED
      BY <2>1, <2>2, <2>3 DEF Writes
  <1>4. Tensors' = Tensors
    BY <1>1 DEF Tensors
  <1>5. ASSUME NEW m, NEW g PROVE Represents(m, g)' <=> Represents(m, g)
    BY <1>1, <1>4 DEF Represents, IsMemory
  <1>6. ASSUME NEW s, NEW op, Computes(s, op) PROVE Computes(s, op)'
    <2>1. ASSUME NEW env \in Environments, NEW mem, NEW g, Represents(mem, g)'
          PROVE  \E after : Takes(s, env, mem, after) /\ Represents(after, Meaning(g, op))'
      <3>1. Represents(mem, g)
        BY <1>5, <2>1
      <3>2. PICK after : Takes(s, env, mem, after) /\ Represents(after, Meaning(g, op))
        BY <1>6, <3>1 DEF Computes
      <3>3. PICK h : h = Meaning(g, op)
        OBVIOUS
      <3>4. Represents(after, h)'
        BY <1>5, <3>2, <3>3
      <3> QED
        BY <3>2, <3>3, <3>4
    <2> QED
      BY <2>1 DEF Computes
  <1> QED
    BY <1>3, <1>6

(* Converting an operation adds a right statement. *)
LEMMA ConvertIsRight ==
    ASSUME StatementsAreRight, NEW ranges \in Shapes, NEW reduced \in ReducedShapes, NEW index \in Indices,
           NEW reads \in BoundedSeq([name : Available, index : Indices], MaxReads),
           Convert(ranges, reduced, index, reads)
    PROVE  StatementsAreRight'
  <1>1. PICK n \in Nat, k \in Nat \ {0} : n = Len(operations) /\ k = n + 1 /\ k \in DOMAIN Buffers
    <2>1. Len(operations) \in Nat
      BY Positions DEF StatementsAreRight
    <2>2. DOMAIN Buffers = 1..Len(Buffers) /\ Len(Buffers) \in Nat
      BY NamesAssumption
    <2>3. Len(operations) < Len(Buffers)
      BY DEF Convert
    <2>4. Len(operations) + 1 \in Nat \ {0} /\ Len(operations) + 1 \in DOMAIN Buffers
      BY <2>1, <2>2, <2>3
    <2> QED
      BY <2>1, <2>4
  <1>2. PICK op : op = [name |-> NextName, ranges |-> ranges, reduced |-> reduced, index |-> index, reads |-> reads]
    OBVIOUS
  <1>3. PICK s : s = IF reduced = <<>> THEN PointwiseStmt(op) ELSE ReductionStmt(op)
    OBVIOUS
  <1>4. /\ Fits(op) /\ status = "building"
        /\ operations' = Append(operations, op)
        /\ statements' = Append(statements, s)
        /\ accumulators' = accumulators + (IF reduced = <<>> THEN 0 ELSE 1)
        /\ outputs' = outputs
    BY <1>2, <1>3 DEF Convert
  <1>5. Converted(op, k)
    <2>1. op.name = Buffers[k] /\ op.ranges = ranges /\ op.reduced = reduced
          /\ op.index = index /\ op.reads = reads
      BY <1>1, <1>2 DEF NextName
    <2>2. IsSequence(reads) /\ \A j \in DOMAIN reads : reads[j].name \in Available /\ reads[j].index \in Indices
      <3>1. PICK S : S = [name : Available, index : Indices]
        OBVIOUS
      <3>2. IsSequence(reads) /\ \A j \in DOMAIN reads : reads[j] \in S
        BY <3>1, ReadsAreKnown
      <3> QED
        BY <3>1, <3>2
    <2>3. Available \subseteq Known(k)
      <3>1. DOMAIN operations = 1..n
        BY <1>1, Positions DEF StatementsAreRight
      <3>2. \A i \in 1..n : operations[i].name = Buffers[i]
        BY <1>1 DEF StatementsAreRight, Right, Converted
      <3>3. \A i \in 1..n : i \in 1..(k - 1)
        BY <1>1
      <3> QED
        BY <3>1, <3>2, <3>3 DEF Available, Known
    <2> QED
      BY <1>4, <2>1, <2>2, <2>3 DEF Converted
  <1>6. op.reduced = reduced /\ op.name = Buffers[k] /\ IsOperation(op)
        /\ \A j \in DOMAIN op.reads : op.reads[j].name \in Known(k)
    <2>1. IsOperation(op)
      BY <1>1, <1>5, OfConverted
    <2> QED
      BY <1>2, <1>5, <2>1 DEF Converted
  <1>7. Writes(s, k)
    <2>1. CASE reduced = <<>>
      BY <1>1, <1>3, <1>6, <2>1, PointwiseIsExplained
    <2>2. CASE reduced # <<>>
      BY <1>1, <1>3, <1>6, <2>2, ReductionIsExplained
    <2> QED
      BY <2>1, <2>2
  <1>8. accumulators \in Nat /\ accumulators <= n /\ n < Len(Buffers) /\ Len(Buffers) \in Nat
    <2>1. accumulators \in Nat /\ accumulators <= n
      BY <1>1, <1>4 DEF StatementsAreRight
    <2> QED
      BY <1>1, <2>1, NamesAssumption DEF Convert
  <1>9. Computes(s, op)
    <2>1. CASE reduced = <<>>
      BY <1>1, <1>3, <1>5, <1>6, <2>1, PointwiseComputes
    <2>2. CASE reduced # <<>>
      <3>1. accumulators \in Numbers
        BY <1>8 DEF Numbers
      <3> QED
        BY <1>1, <1>3, <1>5, <1>6, <2>2, <3>1, ReductionComputes
    <2> QED
      BY <2>1, <2>2
  <1>10. /\ IsSequence(operations') /\ Len(operations') = k
         /\ \A i \in 1..n : operations'[i] = operations[i]
         /\ operations'[k] = op
    <2>1. IsSequence(operations)
      BY DEF StatementsAreRight
    <2> QED
      BY <1>1, <1>4, <2>1, Appending
  <1>11. /\ IsSequence(statements') /\ Len(statements') = k
         /\ \A i \in 1..n : statements'[i] = statements[i]
         /\ statements'[k] = s
    <2>1. IsSequence(statements) /\ Len(statements) = n
      BY <1>1 DEF StatementsAreRight
    <2> QED
      BY <1>1, <1>4, <2>1, Appending
  <1>12. ASSUME NEW i \in 1..k PROVE Right(i)'
    <2>1. PICK t, o : t = statements'[i] /\ o = operations'[i]
      OBVIOUS
    <2>2. Converted(o, i) /\ Writes(t, i) /\ Computes(t, o)
      <3>1. CASE i = k
        BY <1>5, <1>7, <1>9, <1>10, <1>11, <2>1, <3>1
      <3>2. CASE i # k
        <4>1. i \in 1..n
          BY <1>1, <3>2
        <4>2. Right(i)
          BY <1>1, <4>1 DEF StatementsAreRight
        <4> QED
          BY <1>10, <1>11, <2>1, <4>1, <4>2 DEF Right
      <3> QED
        BY <3>1, <3>2
    <2>3. Writes(t, i)' /\ Computes(t, o)'
      BY <1>4, <2>2, RolesAreKept
    <2> QED
      BY <2>1, <2>2, <2>3 DEF Right
  <1>13. accumulators' \in Nat /\ accumulators' <= k /\ k <= Len(Buffers)
    BY <1>1, <1>4, <1>8
  <1> QED
    BY <1>10, <1>11, <1>12, <1>13 DEF StatementsAreRight

(* The invariant holds from the start and every step keeps it. *)
LEMMA StatementsAreRightAtFirst == Init => StatementsAreRight
  <1> SUFFICES ASSUME Init PROVE StatementsAreRight
    OBVIOUS
  <1>1. operations = <<>> /\ statements = <<>> /\ accumulators = 0
    BY DEF Init
  <1>2. IsSequence(operations) /\ IsSequence(statements)
    <2>1. operations \in Seq({}) /\ statements \in Seq({})
      BY <1>1
    <2> QED
      BY <2>1 DEF IsSequence
  <1>3. Len(operations) = 0 /\ Len(statements) = 0 /\ 0 <= Len(Buffers)
    BY <1>1, NamesAssumption
  <1> QED
    BY <1>1, <1>2, <1>3 DEF StatementsAreRight

(* Every step of the lowering keeps every statement built so far right.   *)
LEMMA StatementsStayRight == StatementsAreRight /\ [Next]_vars => StatementsAreRight'
  <1> SUFFICES ASSUME StatementsAreRight, [Next]_vars PROVE StatementsAreRight'
    OBVIOUS
  <1>1. ASSUME outputs' = outputs, operations' = operations,
               statements' = statements,
               accumulators' \in Nat, status' = "building" => accumulators' <= Len(operations)
        PROVE  StatementsAreRight'
    <2>1. ASSUME NEW k \in 1..Len(operations) PROVE Right(k)'
      <3>1. PICK t, o : t = statements[k] /\ o = operations[k]
        OBVIOUS
      <3>2. Converted(o, k) /\ Writes(t, k) /\ Computes(t, o)
        BY <3>1 DEF StatementsAreRight, Right
      <3>3. Writes(t, k)' /\ Computes(t, o)'
        BY <1>1, <3>2, RolesAreKept
      <3> QED
        BY <1>1, <3>1, <3>2, <3>3 DEF Right
    <2> QED
      BY <1>1, <2>1 DEF StatementsAreRight
  <1>2. ASSUME NEW ranges \in Shapes, NEW reduced \in ReducedShapes, NEW index \in Indices,
               NEW reads \in BoundedSeq([name : Available, index : Indices], MaxReads),
               Convert(ranges, reduced, index, reads)
        PROVE  StatementsAreRight'
    BY <1>2, ConvertIsRight
  <1>3. accumulators \in Nat /\ (status = "building" => accumulators <= Len(operations))
    BY DEF StatementsAreRight
  <1>4. CASE Unsupported
    <2>1. accumulators' \in Nat /\ status' = "failed"
      BY <1>3, <1>4 DEF Unsupported
    <2> QED
      BY <1>1, <1>4, <2>1 DEF Unsupported
  <1>5. CASE Finish
    <2>1. accumulators' = accumulators /\ status' = "built"
      BY <1>5 DEF Finish
    <2> QED
      BY <1>1, <1>3, <1>5, <2>1 DEF Finish
  <1>6. CASE Stopped
    BY <1>1, <1>3, <1>6 DEF Stopped, vars
  <1>7. CASE UNCHANGED vars
    BY <1>1, <1>3, <1>7 DEF vars
  <1> QED
    BY <1>2, <1>4, <1>5, <1>6, <1>7 DEF Next

(* Every statement the lowering has built is right.                       *)
LEMMA AlwaysRight == Spec => []StatementsAreRight
  BY StatementsAreRightAtFirst, StatementsStayRight, PTL DEF Spec

(* A tensor is stored before it is loaded, and under the role it is loaded *)
(* with (graph_lowering.py, _tensor): true of every graph.                 *)
THEOREM RolesAreRight == Spec => []RolesMatchAccesses
  <1>1. StatementsAreRight => RolesMatchAccesses
    <2> SUFFICES ASSUME StatementsAreRight PROVE RolesMatchAccesses
      OBVIOUS
    <2>1. PICK n \in Nat : n = Len(statements)
      BY Positions DEF StatementsAreRight
    <2>2. IsSequence(statements) /\ \A k \in 1..n : Writes(statements[k], k)
      BY <2>1 DEF StatementsAreRight, Right
    <2>3. WritesFrom(Build, 1)
      BY <2>1, <2>2, BuildIsExplained
    <2> QED
      BY <2>3, RolesMatch
  <1> QED
    BY <1>1, AlwaysRight, PTL

(* The program that build returns leaves in every buffer what the graph    *)
(* means: for every number of operations, all shapes, all contents and     *)
(* whatever the inner functions compute (graph_lowering.py).               *)
THEOREM ProgramIsRight == Spec => []ProgramComputesGraph
  <1>1. StatementsAreRight => ProgramComputesGraph
    <2> SUFFICES ASSUME StatementsAreRight PROVE ProgramComputesGraph
      OBVIOUS
    <2>1. IsSequence(statements) /\ Len(statements) = Len(operations)
      BY DEF StatementsAreRight
    <2>2. \A k \in 1..Len(statements) : Computes(statements[k], operations[k])
      BY <2>1 DEF StatementsAreRight, Right
    <2> QED
      BY <2>1, <2>2, ProgramIsGraph
  <1> QED
    BY <1>1, AlwaysRight, PTL
=============================================================================
