------------------------------- MODULE ScalarAST -------------------------------
(***************************************************************************)
(* From a lowered graph to the scalar loop AST                             *)
(* (pretty_print_loop/functional).                                         *)
(*                                                                         *)
(* GraphLoweringToScalarAST turns each operation of the graph, in order,   *)
(* into a loop nest that stores to a flat buffer, and joins them with seq. *)
(* An operation it does not know makes the whole conversion fail.          *)
(*                                                                         *)
(* The graph is the environment.  An operation has output ranges and, when *)
(* it is a sum, reduction ranges; its layout gives the flat index of its   *)
(* output, and its inner function combines loads of earlier buffers, each  *)
(* at a flat index of its own.  This module builds the AST, runs it, and   *)
(* compares memory with the graph's own meaning.                           *)
(***************************************************************************)
EXTENDS Integers, Sequences, SequencesExt, Trees

CONSTANTS
    GraphInputs,       \* names of graph inputs
    Buffers,           \* names of operation outputs, in the order of creation
    Accumulator(_),    \* the names acc_0, acc_1, ...
    MaxReads,          \* bound: loads in one inner function
    Shapes,            \* output ranges of an operation
    ReducedShapes,     \* reduction ranges; <<>> is a pointwise operation
    Cells,             \* flat addresses in a buffer
    Indices,           \* flat indices, of loads and of layouts
    Mix(_, _),         \* what inner functions combine values with
    Initially(_, _)    \* contents of a cell before the program

Numbers == 0..Len(Buffers)

(* Inductor's names. *)
ASSUME NamesAssumption ==
    /\ Buffers \in Seq(STRING)
    /\ \A m, n \in DOMAIN Buffers : Buffers[m] = Buffers[n] => m = n
    /\ \A n \in DOMAIN Buffers :
          Buffers[n] \notin GraphInputs \cup {Accumulator(m) : m \in Numbers}

ASSUME ShapesAssumption ==
    /\ Shapes \cup ReducedShapes \subseteq Seq(Nat)
    /\ MaxReads \in Nat

Variables == {"i", "r"} \X UNION {0..(Len(s) - 1) : s \in Shapes \cup ReducedShapes}

(* An index of sympy, expanded: a sum of products of integers and symbols; *)
(* one summand or factor stands for itself.                                *)
Integer(n) == [k |-> "integer", value |-> n]
Symbol(x) == [k |-> "symbol", name |-> x]
Factors == [k : {"integer"}, value : Int] \cup [k : {"symbol"}, name : Variables]

ASSUME IndicesAssumption ==
    \A index \in Indices :
        /\ index \in Seq(Seq(Factors)) /\ index # <<>>
        /\ \A s \in DOMAIN index : index[s] # <<>>

VARIABLES
    outputs,      \* _output_names: names among graph_outputs
    operations,   \* history: the operations converted
    statements,   \* the statement of each operation
    accumulators, \* _accumulator_index
    status        \* building, built or failed

vars == <<outputs, operations, statements, accumulators, status>>

Names == GraphInputs \cup ToSet(Buffers)

-----------------------------------------------------------------------------
(* The nodes of ast.py. *)

Num(n) == Leaf([k |-> "num", value |-> n])
Var(x) == Leaf([k |-> "var", name |-> x])
BinaryOp(op, l, r) == Tree([k |-> "binary", op |-> op], <<l, r>>)
Load(base, index) == Tree([k |-> "load", base |-> base], <<index>>)
Ref(role, name) == [role |-> role, name |-> name]

Dummy == Leaf([k |-> "dummy"])
Store(base, index, value) ==
    Leaf([k |-> "store", base |-> base, index |-> index, value |-> value])
Seq2(first, second) == Tree([k |-> "seq"], <<first, second>>)
Loop(var, end, body) == Tree([k |-> "loop", var |-> var, end |-> end], <<body>>)

\* mutant: folds from the left without reversing
SeqSwapped(stmts) ==
    LET rest[n \in 1..Len(stmts)] == IF n = 1 THEN stmts[1] ELSE Seq2(stmts[n], rest[n - 1])
    IN  rest[Len(stmts)]

(* seq: reduce over the reversed statements. *)
seq(stmts) ==
    LET rest[n \in 1..Len(stmts)] ==
          IF n = 1 THEN Last(stmts) ELSE Seq2(stmts[Len(stmts) + 1 - n], rest[n - 1])
    IN  rest[Len(stmts)]

-----------------------------------------------------------------------------
(* graph_lowering.py *)

\* mutant: takes what is not returned for an input
RoleByOutputsOnly(name) == IF name \in outputs THEN "output" ELSE "input"

(* _tensor *)
Role(name) ==
    IF name \in outputs THEN "output"
    ELSE IF name \in ToSet(Buffers) THEN "tensor"
    ELSE "input"

(* _make_indices *)
MakeIndices(prefix, extents) == [n \in DOMAIN extents |-> <<prefix, n - 1>>]

(* _nest_loops: the innermost loop is made first. *)
NestLoops(prefix, extents, body) ==
    LET variables == MakeIndices(prefix, extents)
        nest[n \in 0..Len(extents)] ==
          IF n = 0 THEN body
          ELSE LET d == Len(extents) + 1 - n IN Loop(variables[d], Num(extents[d]), nest[n - 1])
    IN  nest[Len(extents)]

(* _fold_binary *)
FoldBinary(name, values) ==
    LET result[n \in 1..Len(values)] ==
          IF n = 1 THEN values[1] ELSE BinaryOp(name, result[n - 1], values[n])
    IN  result[Len(values)]

FactorExpr(factor) == IF factor.k = "integer" THEN Num(factor.value) ELSE Var(factor.name)

sympy_to_expr(index) ==
    FoldBinary("+", [s \in DOMAIN index |->
        FoldBinary("*", [f \in DOMAIN index[s] |-> FactorExpr(index[s][f])])])

(* _output_index: what the layout's indexer makes of the loop variables. *)
OutputIndex(op) == sympy_to_expr(op.index)

(* _evaluate: the inner function under _ScalarOpsHandler. *)
Evaluate(op) ==
    LET e[n \in 0..Len(op.reads)] ==
          IF n = 0 THEN Num(1)
          ELSE BinaryOp("mix", e[n - 1],
                        Load(Ref(Role(op.reads[n].name), op.reads[n].name),
                             sympy_to_expr(op.reads[n].index)))
    IN  e[Len(op.reads)]

(* _pointwise *)
PointwiseStmt(op) ==
    NestLoops("i", op.ranges, Store(Ref(Role(op.name), op.name), OutputIndex(op), Evaluate(op)))

(* _reduction: the accumulator is a buffer of its own, with a fresh name. *)
ReductionStmt(op) ==
    LET acc == Ref("tensor", Accumulator(accumulators))
        at == OutputIndex(op)
        update == Store(acc, at, BinaryOp("+", Load(acc, at), Evaluate(op)))
    IN  NestLoops("i", op.ranges,
                  seq(<<Store(acc, at, Num(0)),
                        NestLoops("r", op.reduced, update),
                        Store(Ref(Role(op.name), op.name), at, Load(acc, at))>>))

(* build *)
Build == IF statements = <<>> THEN Dummy ELSE seq(statements)

-----------------------------------------------------------------------------
(* What indices mean.                                                      *)

Size(extents) ==
    LET product[n \in 0..Len(extents)] == IF n = 0 THEN 1 ELSE product[n - 1] * extents[n]
    IN  product[Len(extents)]
Points(extents) == 0..(Size(extents) - 1)

(* The n-th point, in the order of the loops. *)
Point(extents, n) ==
    LET rest[k \in 0..Len(extents)] ==
          IF k = 0 THEN n ELSE rest[k - 1] \div extents[Len(extents) + 1 - k]
    IN  [d \in DOMAIN extents |-> rest[Len(extents) - d] % extents[d]]

(* The loop variables of an operation at output point n and reduction      *)
(* point m.                                                                *)
Symbols(prefix, extents) == ToSet(MakeIndices(prefix, extents))
Coordinates(op, n, m) ==
    [x \in Symbols("i", op.ranges) \cup Symbols("r", op.reduced) |->
        IF x[1] = "i" THEN Point(op.ranges, n)[x[2] + 1] ELSE Point(op.reduced, m)[x[2] + 1]]

Combined(name, numbers) ==
    LET result[n \in 1..Len(numbers)] ==
          IF n = 1 THEN numbers[1]
          ELSE IF name = "+" THEN result[n - 1] + numbers[n] ELSE result[n - 1] * numbers[n]
    IN  result[Len(numbers)]

FactorAt(factor, at) == IF factor.k = "integer" THEN factor.value ELSE at[factor.name]
Address(index, at) ==
    Combined("+", [s \in DOMAIN index |->
        Combined("*", [f \in DOMAIN index[s] |-> FactorAt(index[s][f], at)])])

OutputAddress(op, n) == Address(op.index, Coordinates(op, n, 0))
InputAddress(op, j, n, m) == Address(op.reads[j].index, Coordinates(op, n, m))

UsesOnly(index, symbols) ==
    \A s \in DOMAIN index : \A f \in DOMAIN index[s] :
        index[s][f].k = "symbol" => index[s][f].name \in symbols

(* The indices of an operation are in its own variables and stay in the    *)
(* buffers, and its layout does not overlap itself.                        *)
Fits(op) ==
    /\ UsesOnly(op.index, Symbols("i", op.ranges))
    /\ \A j \in DOMAIN op.reads :
          UsesOnly(op.reads[j].index, Symbols("i", op.ranges) \cup Symbols("r", op.reduced))
    /\ LET addresses == {OutputAddress(op, n) : n \in Points(op.ranges)}
       IN  addresses \subseteq Cells /\ Cardinality(addresses) = Size(op.ranges)
    /\ \A n \in Points(op.ranges), m \in Points(op.reduced), j \in DOMAIN op.reads :
          InputAddress(op, j, n, m) \in Cells

-----------------------------------------------------------------------------
Init ==
    /\ outputs \in SUBSET Names
    /\ operations = <<>>
    /\ statements = <<>>
    /\ accumulators = 0
    /\ status = "building"

NextName == Buffers[Len(operations) + 1]
Available == GraphInputs \cup {operations[i].name : i \in DOMAIN operations}

(* operation *)
Convert(ranges, reduced, index, reads) ==
    LET op == [name |-> NextName, ranges |-> ranges, reduced |-> reduced,
               index |-> index, reads |-> reads] IN
    /\ status = "building"
    /\ Len(operations) < Len(Buffers)
    /\ Fits(op)
    /\ operations' = Append(operations, op)
    /\ statements' = Append(statements,
                            IF reduced = <<>> THEN PointwiseStmt(op) ELSE ReductionStmt(op))
    /\ accumulators' = accumulators + (IF reduced = <<>> THEN 0 ELSE 1)
    /\ UNCHANGED <<outputs, status>>

(* UnsupportedNodeError leaves build.  A reduction raises it after it has  *)
(* taken its accumulator when sympy_to_expr cannot write an extent.        *)
Unsupported ==
    /\ status = "building"
    /\ Len(operations) < Len(Buffers)
    /\ status' = "failed"
    /\ accumulators' \in {accumulators, accumulators + 1}
    /\ UNCHANGED <<outputs, operations, statements>>

Finish ==
    /\ status = "building"
    /\ status' = "built"
    /\ UNCHANGED <<outputs, operations, statements, accumulators>>

Stopped == status # "building" /\ UNCHANGED vars

Next ==
    \/ \E ranges \in Shapes, reduced \in ReducedShapes, index \in Indices :
          \E reads \in BoundedSeq([name : Available, index : Indices], MaxReads) :
             Convert(ranges, reduced, index, reads)
    \/ Unsupported
    \/ Finish
    \/ Stopped

Spec == Init /\ [][Next]_vars

-----------------------------------------------------------------------------
(* Running the AST.  Memory is one flat array per tensor.                  *)

Tensors == {Ref(Role(name), name) : name \in Names} \cup {Ref("tensor", Accumulator(n)) : n \in Numbers}
InitialMemory == [at \in Tensors \X Cells |-> Initially(at[1].name, at[2])]

Environments == [Variables -> Nat]

(* The value of a node whose operands have the values x and y, and of an   *)
(* expression.                                                             *)
ValueAt(node, env, mem, x, y) ==
    CASE node.k = "num" -> node.value
      [] node.k = "var" -> env[node.name]
      [] node.k = "load" -> mem[<<node.base, x>>]
      [] node.k = "binary" /\ node.op = "+" -> x + y
      [] node.k = "binary" /\ node.op = "*" -> x * y
      [] node.k = "binary" /\ node.op = "mix" -> Mix(x, y)

Eval(e, env, mem) ==
    LET value[p \in DOMAIN e] ==
          ValueAt(e[p], env, mem, value[Append(p, 1)], value[Append(p, 2)])
    IN  value[<<>>]

(* The stores that a statement makes in order, each with the values of the *)
(* loop variables.  Extents hold no loads (sympy_to_expr).                 *)
StoresAt(node, x, y) ==
    [env \in Environments |->
        CASE node.k = "dummy" -> <<>>
          [] node.k = "store" -> <<[node |-> node, env |-> env]>>
          [] node.k = "seq" -> x[env] \o y[env]
          [] node.k = "loop" ->
                FlattenSeq([n \in 1..Eval(node.end, env, <<>>) |->
                              x[[env EXCEPT ![node.var] = n - 1]]])]

Stores(s, env) ==
    LET stores[p \in DOMAIN s] ==
          StoresAt(s[p], stores[Append(p, 1)], stores[Append(p, 2)])
    IN  stores[<<>>][env]

Put(mem, store) ==
    LET to == store.node IN
    [mem EXCEPT ![<<to.base, Eval(to.index, store.env, mem)>>] = Eval(to.value, store.env, mem)]

Run(mem, stores) ==
    LET after[n \in 0..Len(stores)] == IF n = 0 THEN mem ELSE Put(after[n - 1], stores[n])
    IN  after[Len(stores)]

(* The graph: an operation gives every point of its output a value, from   *)
(* memory as it was before.                                                *)
Loaded(mem, op, n, m) ==
    LET x[k \in 0..Len(op.reads)] ==
          IF k = 0 THEN 1 ELSE Mix(x[k - 1], mem[<<op.reads[k].name, InputAddress(op, k, n, m)>>])
    IN  x[Len(op.reads)]

Summed(mem, op, n) ==
    LET sum[k \in 0..Size(op.reduced)] ==
          IF k = 0 THEN 0 ELSE sum[k - 1] + Loaded(mem, op, n, k - 1)
    IN  sum[Size(op.reduced)]

Result(mem, op, n) == IF op.reduced = <<>> THEN Loaded(mem, op, n, 0) ELSE Summed(mem, op, n)

Meaning(mem, op) ==
    LET after[n \in 0..Size(op.ranges)] ==
          IF n = 0 THEN mem
          ELSE [after[n - 1] EXCEPT ![<<op.name, OutputAddress(op, n - 1)>>] = Result(mem, op, n - 1)]
    IN  after[Size(op.ranges)]

GraphMemory ==
    LET after[n \in 0..Len(operations)] ==
          IF n = 0 THEN [at \in Names \X Cells |-> Initially(at[1], at[2])]
          ELSE Meaning(after[n - 1], operations[n])
    IN  after[Len(operations)]

-----------------------------------------------------------------------------
(* Properties.                                                             *)

(* The program computes the graph: running the AST leaves in every buffer  *)
(* what the operations compute, so seq keeps their order and a reduction   *)
(* starts again from zero at every output point.                           *)
ProgramComputesGraph ==
    status = "built" =>
        LET ran == Run(InitialMemory, Stores(Build, [v \in Variables |-> 0]))
            graph == GraphMemory
        IN  \A name \in Names, i \in Cells :
               ran[<<Ref(Role(name), name), i>>] = graph[<<name, i>>]

(* The tensors that an expression loads from. *)
LoadsOf(e) == {e[p].base : p \in {q \in DOMAIN e : e[q].k = "load"}}

(* The stores of a statement in program order. *)
WrittenAt(node, x, y) ==
    CASE node.k = "dummy" -> <<>>
      [] node.k = "store" -> <<node>>
      [] node.k = "seq" -> x \o y
      [] node.k = "loop" -> x

StoresOf(s) ==
    LET written[p \in DOMAIN s] ==
          WrittenAt(s[p], written[Append(p, 1)], written[Append(p, 2)])
    IN  written[<<>>]

(* Roles are the same everywhere and tell what the program does: an Input  *)
(* is never stored, and a Tensor or Output is stored before it is loaded,  *)
(* under the role it is loaded with.  An input that the graph returns as   *)
(* it is counts as an Output and is never stored.                          *)
RolesMatchAccesses ==
    LET program == StoresOf(Build) IN
    \A n \in DOMAIN program :
        /\ program[n].base.role # "input"
        /\ \A base \in LoadsOf(program[n].value) :
              IF base.role = "input" THEN base.name \in GraphInputs
              ELSE \/ base.name \in GraphInputs \cap outputs
                   \/ \E m \in 1..(n - 1) : program[m].base = base
=============================================================================
