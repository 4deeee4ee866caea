-------------------------------- MODULE Render --------------------------------
(***************************************************************************)
(* Printing an expression (_render_atom in pretty_print_loop/loop_ir.py)   *)
(* and reading it back.                                                    *)
(*                                                                         *)
(* The printed loop IR uses Python's operators, so what a reader takes a   *)
(* line to mean is what Python's grammar makes of it.  This module prints  *)
(* with the code's precedences, reads with Python's, and says exactly      *)
(* which expressions come back as something else.                          *)
(*                                                                         *)
(* Only operators, their operands and parentheses matter here: function    *)
(* calls, select and tensor accesses print their operands between commas   *)
(* and brackets, and count as variables.                                   *)
(***************************************************************************)
EXTENDS Naturals, Sequences, FiniteSets, FiniteSetsExt

CONSTANTS
    BinaryOps,   \* operators of _BINARY_OPERATORS under consideration
    PrefixOps,   \* operators of _UNARY_OPERATORS under consideration
    LeafKinds,   \* among "variable", "negative" and "index"
    MaxDepth     \* bound: operators around a leaf

ASSUME DepthAssumption == MaxDepth \in Nat

VARIABLES
    expr,    \* the expression to print
    depth    \* how many operators were put around its first leaf

vars == <<expr, depth>>

-----------------------------------------------------------------------------
(* Expressions: a variable; a constant below zero, as Constant(-1); an     *)
(* index expression of sympy, as the operand index_expr returns when       *)
(* temporaries are off; Call of a prefix or of a binary operator.          *)

Variable == [k |-> "variable"]
Leaf(kind) == [k |-> kind]
Prefixed(op, x) == [k |-> "prefix", op |-> op, x |-> x]
Binary(op, l, r) == [k |-> "binary", op |-> op, l |-> l, r |-> r]

(* What a leaf means to the reader: -1 is the negation of 1, and an index  *)
(* expression is a sum.                                                    *)
RECURSIVE Meaning(_)
Meaning(e) ==
    CASE e.k = "variable" -> e
      [] e.k = "negative" -> Prefixed("-", Variable)
      [] e.k = "index"    -> Binary("+", Variable, Variable)
      [] e.k = "prefix"   -> Prefixed(e.op, Meaning(e.x))
      [] e.k = "binary"   -> Binary(e.op, Meaning(e.l), Meaning(e.r))

-----------------------------------------------------------------------------
(* Printing. *)

(* _PRECEDENCE *)
Precedence(op) ==
    CASE op = "or" -> 10
      [] op = "and" -> 20
      [] op \in {"==", "!=", "<", ">", "<=", ">="} -> 30
      [] op = "|" -> 40
      [] op = "^" -> 41
      [] op = "&" -> 42
      [] op \in {"<<", ">>"} -> 45
      [] op \in {"+", "-"} -> 50
      [] op \in {"*", "/", "//", "%"} -> 60
      [] op = "**" -> 70

PrefixPrecedence == 80

\* mutant: treats every operator as associative
RightPrecedenceLoose(op) == Precedence(op)

(* The right operand of an operator that is not one of these needs         *)
(* parentheses at equal precedence.                                        *)
RightPrecedence(op) ==
    Precedence(op) + IF op \in {"+", "*", "and", "or"} THEN 0 ELSE 1

(* Tokens; a pair of parentheses is one token that holds its contents. *)
Word == [t |-> "word"]
Token(type, op) == [t |-> type, op |-> op]
Group(tokens) == [t |-> "group", in |-> tokens]

Parenthesized(tokens, own, parent) ==
    IF own < parent THEN <<Group(tokens)>> ELSE tokens

(* _render_atom(value, parent_precedence).  Only operators look at the     *)
(* precedence around them.                                                 *)
RECURSIVE RenderAtom(_, _)
RenderAtom(e, parent) ==
    CASE e.k = "variable" -> <<Word>>
      [] e.k = "negative" -> <<Token("prefix", "-"), Word>>
      [] e.k = "index"    -> <<Word, Token("infix", "+"), Word>>
      [] e.k = "prefix"   ->
            Parenthesized(<<Token("prefix", e.op)>> \o RenderAtom(e.x, PrefixPrecedence),
                          PrefixPrecedence, parent)
      [] e.k = "binary"   ->
            Parenthesized(RenderAtom(e.l, Precedence(e.op))
                             \o <<Token("infix", e.op)>>
                             \o RenderAtom(e.r, RightPrecedence(e.op)),
                          Precedence(e.op), parent)

-----------------------------------------------------------------------------
(* Reading, by Python's grammar (external). *)

Binding(op) ==
    CASE op = "or" -> 1
      [] op = "and" -> 2
      [] op \in {"==", "!=", "<", ">", "<=", ">="} -> 4
      [] op = "|" -> 5
      [] op = "^" -> 6
      [] op = "&" -> 7
      [] op \in {"<<", ">>"} -> 8
      [] op \in {"+", "-"} -> 9
      [] op \in {"*", "/", "//", "%"} -> 10
      [] op = "**" -> 12

PrefixBinding(op) == IF op = "not" THEN 3 ELSE 11
Comparison == 4
Power == 12

(* not a sentence, or a chain of comparisons, which is no binary operator *)
Nonsense == [k |-> "nonsense"]
StartsWithNot(tokens) == tokens[1].t = "prefix" /\ tokens[1].op = "not"

RECURSIVE Read(_)
Read(tokens) ==
    LET infix == {i \in DOMAIN tokens : tokens[i].t = "infix"}
        loosest == Min({Binding(tokens[i].op) : i \in infix})
        places == {i \in infix : Binding(tokens[i].op) = loosest}
        at == IF loosest = Power THEN Min(places) ELSE Max(places)
    IN
    IF tokens[1].t = "prefix"
       /\ (infix = {} \/ PrefixBinding(tokens[1].op) < loosest)
    THEN IF tokens[1].op # "not" /\ StartsWithNot(Tail(tokens))
         THEN Nonsense
         ELSE Prefixed(tokens[1].op, Read(Tail(tokens)))
    ELSE IF infix = {}
    THEN IF tokens[1].t = "group" THEN Read(tokens[1].in) ELSE Variable
    ELSE IF \/ loosest = Comparison /\ Cardinality(places) > 1
            \/ loosest > PrefixBinding("not")
               /\ StartsWithNot(SubSeq(tokens, at + 1, Len(tokens)))
    THEN Nonsense
    ELSE Binary(tokens[at].op, Read(SubSeq(tokens, 1, at - 1)),
                Read(SubSeq(tokens, at + 1, Len(tokens))))

(* x + (y - z) = (x + y) - z and the like: laws of arithmetic that a       *)
(* reader may apply, and the reason to print a + b + c without             *)
(* parentheses.  They do not hold for // and %.                            *)
Shifts(op) ==
    CASE op = "+" -> {"+", "-"}
      [] op = "*" -> {"*", "/"}
      [] op \in {"and", "or"} -> {op}
      [] OTHER -> {}

RECURSIVE LeftNested(_)
LeftNested(e) ==
    IF e.k = "prefix" THEN Prefixed(e.op, LeftNested(e.x))
    ELSE IF e.k # "binary" THEN e
    ELSE IF e.r.k = "binary" /\ e.r.op \in Shifts(e.op)
         THEN LeftNested(Binary(e.r.op, Binary(e.op, e.l, e.r.l), e.r.r))
         ELSE Binary(e.op, LeftNested(e.l), LeftNested(e.r))

ReadsBack(e) == LeftNested(Read(RenderAtom(e, 0))) = LeftNested(Meaning(e))

-----------------------------------------------------------------------------
(* The expressions: a leaf, wrapped again and again with leaves beside it, *)
(* or two operations joined by one.                                        *)

Leaves == {Leaf(kind) : kind \in LeafKinds}
Operations ==
    {Prefixed(op, x) : op \in PrefixOps, x \in Leaves}
        \cup {Binary(op, l, r) : op \in BinaryOps, l, r \in Leaves}

Init == expr \in Leaves /\ depth = 0

WrapPrefix(op) == expr' = Prefixed(op, expr)
WrapLeft(op) == \E sibling \in Leaves : expr' = Binary(op, expr, sibling)
WrapRight(op) == \E sibling \in Leaves : expr' = Binary(op, sibling, expr)

Join(op) == \E sibling \in Operations : expr' = Binary(op, expr, sibling)

Next ==
    \/ /\ depth = 1
       /\ depth' = MaxDepth
       /\ \E op \in BinaryOps : Join(op)
    \/ /\ depth < MaxDepth
       /\ depth' = depth + 1
       /\ \/ \E op \in PrefixOps : WrapPrefix(op)
          \/ \E op \in BinaryOps : WrapLeft(op) \/ WrapRight(op)
    \/ depth = MaxDepth /\ UNCHANGED vars

Spec == Init /\ [][Next]_vars

-----------------------------------------------------------------------------
(* Properties.                                                             *)

(* Rendering inlines an expression without changing it: the text of every  *)
(* expression reads as that expression, up to the laws of arithmetic       *)
(* ("render fully inlined expressions", README.md:27).                     *)
InlinedTextMeansExpression == ReadsBack(expr)

(* A child that _render_atom leaves bare although its parent binds         *)
(* differently in Python than in _PRECEDENCE.                              *)
Negation(e) == e.k = "negative" \/ (e.k = "prefix" /\ e.op # "not")
IsNot(e) == e.k = "prefix" /\ e.op = "not"
Is(e, ops) == e.k = "binary" /\ e.op \in ops

MisreadLeft(op, e) ==
    \/ op = "**" /\ (Negation(e) \/ Is(e, {"**"}))
    \/ Binding(op) = Comparison /\ e.k = "binary" /\ Binding(e.op) = Comparison
    \/ Binding(op) > PrefixBinding("not") /\ IsNot(e)
    \/ Binding(op) > Binding("+") /\ e.k = "index"

(* The first operation of a bare product rounds: (a // b) * c, a // b. *)
RECURSIVE RoundsFirst(_)
RoundsFirst(e) == Is(e, {"//", "%"}) \/ (Is(e, {"*", "/"}) /\ RoundsFirst(e.l))

MisreadRight(op, e) ==
    \/ op = "*" /\ RoundsFirst(e)
    \/ Binding(op) > PrefixBinding("not") /\ IsNot(e)
    \/ (op = "-" \/ Binding(op) > Binding("+")) /\ e.k = "index"

RECURSIVE Plain(_)
Plain(e) ==
    CASE e.k = "prefix" ->
            /\ Plain(e.x)
            /\ ~(e.op # "not" /\ (IsNot(e.x) \/ e.x.k = "index"))
      [] e.k = "binary" ->
            /\ Plain(e.l) /\ Plain(e.r)
            /\ ~MisreadLeft(e.op, e.l)
            /\ ~MisreadRight(e.op, e.r)
      [] OTHER -> TRUE

(* These are all the misreadings: an expression is read back as itself     *)
(* exactly when no operator in it has one of the operands above.  So the   *)
(* table _PRECEDENCE and the extra point for right operands are enough     *)
(* everywhere else, however deep the nesting.                              *)
MisreadExactlyWhenListed == ReadsBack(expr) <=> Plain(expr)
=============================================================================
