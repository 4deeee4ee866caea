----------------------------- MODULE Accumulators -----------------------------
(***************************************************************************)
(* Loops that accumulate (pretty_print_loop/loop_ir.py).                   *)
(*                                                                         *)
(* _format_reduction, _format_welford_reduction and _format_scan print,    *)
(* for every output point, accumulators set to an identity, a loop nest    *)
(* over the reduction variables that updates them, and a store.  This      *)
(* module runs the nest they print, one iteration per step, and compares   *)
(* the accumulators with the definition of what they accumulate.           *)
(*                                                                         *)
(* Numbers are exact: fractions for Welford's formulas, residues of        *)
(* integers of limited width for sum, prod and xor_sum.                    *)
(***************************************************************************)
EXTENDS Integers, Sequences, SequencesExt, FiniteSetsExt, Folding

CONSTANTS
    Shapes,    \* extents of the reduction variables, outermost first
    Points,    \* number of output points
    Types,     \* reduction types, "scan" among them
    Values,    \* values that may be loaded
    Batches,   \* sequences of values summarized by one welford_combine input
    Modulus,   \* how many integers there are: 2^w, where they have w bits
    BitXor(_, _), \* the bitwise operation
    None       \* a declared local without a value

WelfordTypes == {"welford_reduce", "welford_combine"}
SimpleTypes == {"sum", "dot", "prod", "max", "min", "any", "xor_sum", "scan"}

ASSUME ShapesAssumption == Shapes \subseteq Seq(Nat)
ASSUME TypesAssumption == Types \subseteq SimpleTypes \cup WelfordTypes
ASSUME ValuesAssumption ==
    Modulus \in Nat \ {0} /\ Values \subseteq 0..(Modulus - 1) /\ Batches \subseteq Seq(Values)
ASSUME XorAssumption == \A a, b \in 0..(Modulus - 1) : BitXor(a, b) \in 0..(Modulus - 1)

VARIABLES
    type,    \* reduction_type
    sizes,   \* data.reduction_ranges, or data.scan_ranges
    point,   \* the output point, the i variables
    index,   \* the reduction variables, or None after the nest
    acc,     \* acc_0, scan_0, or <<mean_0, m2_0, weight_0>>
    seen,    \* history: the values accumulated for this point
    out      \* the values stored to the output buffer, in order

vars == <<type, sizes, point, index, acc, seen, out>>

-----------------------------------------------------------------------------
(* Fractions <<n, d>> in lowest terms, d > 0. *)

Frac(n, d) ==
    LET lowest == Min({k \in 1..d : (n * k) % d = 0})
    IN <<(n * lowest) \div d, lowest>>
Whole(n) == <<n, 1>>
Plus(x, y)  == Frac(x[1] * y[2] + y[1] * x[2], x[2] * y[2])
Minus(x, y) == Frac(x[1] * y[2] - y[1] * x[2], x[2] * y[2])
Times(x, y) == Frac(x[1] * y[1], x[2] * y[2])
Over(x, y)  == Frac(x[1] * y[2], x[2] * y[1])     \* for y > 0

-----------------------------------------------------------------------------
(* What is to be accumulated. *)

Total(xs) == Fold([p \in Int \X Int |-> p[1] + p[2]], 0, xs)

(* mean, sum of squared deviations from it, and weight *)
Moments(xs) ==
    IF xs = <<>> THEN <<Whole(0), Whole(0), Whole(0)>>
    ELSE LET mean == Frac(Total(xs), Len(xs))
             deviation(x) == Minus(Whole(x), mean)
             add == [p \in (Int \X Int) \X Int |->
                       Plus(p[1], Times(deviation(p[2]), deviation(p[2])))]
         IN  <<mean, Fold(add, Whole(0), xs), Whole(Len(xs))>>

(* combine_fn: an associative operation that hides nothing. *)
Combine(x, y) == x \o y

LeastValue == 0
Wrap(n) == n % Modulus

Definition(xs) ==
    CASE type \in {"sum", "dot"} -> Wrap(Total(xs))
      [] type = "prod"    -> Fold([p \in Int \X Int |-> Wrap(p[1] * p[2])], 1, xs)
      [] type = "max"     -> IF xs = <<>> THEN LeastValue ELSE Max(ToSet(xs))
      [] type = "min"     -> IF xs = <<>> THEN Modulus - 1 ELSE Min(ToSet(xs))
      [] type = "any"     -> \E i \in DOMAIN xs : xs[i] # 0
      [] type = "xor_sum" -> Fold([p \in Int \X Int |-> BitXor(p[1], p[2])], 0, xs)
      [] type = "scan"    -> IF xs = <<>> THEN None ELSE xs
      [] type \in WelfordTypes -> Moments(xs)

-----------------------------------------------------------------------------
(* The printed statements. *)

(* _reduction_identity; scan states are declared without a value. *)
Identity ==
    CASE type \in {"sum", "dot", "xor_sum"} -> 0
      [] type = "any"  -> FALSE
      [] type = "prod" -> 1
      [] type = "max"  -> LeastValue       \* dtype_min
      [] type = "min"  -> Modulus - 1      \* dtype_max
      [] type = "scan" -> None
      [] type \in WelfordTypes ->
            <<Whole(0), Whole(0), Whole(0)>>

\* mutant: looks at the innermost variable only
FirstIterationOfInnermost(r) == r = <<>> \/ r[Len(r)] = 0

(* _first_reduction_iteration: every reduction variable is zero. *)
FirstIteration(r) == \A d \in DOMAIN r : r[d] = 0

(* _welford_reduce_update *)
WelfordReduce(first, value) ==
    LET mean == acc[1]
        delta == Minus(value, mean)
        nextWeight == Plus(acc[3], Whole(1))
        nextMean == IF first THEN value ELSE Plus(mean, Over(delta, nextWeight))
        nextM2 == IF first THEN Whole(0)
                  ELSE Plus(acc[2], Times(delta, Minus(value, nextMean)))
    IN  <<nextMean, nextM2, nextWeight>>

(* weight_ratio: the peer's share, zero when both sides are empty. *)
WelfordRatio(weight, nextWeight) ==
    IF nextWeight = Whole(0) THEN Whole(0) ELSE Over(weight, nextWeight)

(* _welford_combine_update *)
WelfordCombine(peer) ==
    LET delta == IF acc[1] = peer[1] THEN Whole(0) ELSE Minus(peer[1], acc[1])
        nextWeight == Plus(acc[3], peer[3])
        ratio == WelfordRatio(peer[3], nextWeight)
    IN  <<Plus(acc[1], Times(delta, ratio)),
          Plus(Plus(acc[2], peer[2]), Times(Times(Times(delta, delta), acc[3]), ratio)),
          nextWeight>>

(* _build_scan_update: next = select(first, value, combined). *)
ScanStep(first, value) == IF first THEN value ELSE Combine(acc, value)

(* Update with _reduction_operator, and the tuple updates. *)
Updated(first, x) ==
    CASE type \in {"sum", "dot"} -> Wrap(acc + x)
      [] type = "prod"    -> Wrap(acc * x)
      [] type = "max"     -> Max({acc, x})
      [] type = "min"     -> Min({acc, x})
      [] type = "any"     -> acc \/ x # 0
      [] type = "xor_sum" -> BitXor(acc, x)
      [] type = "scan"    -> ScanStep(first, <<x>>)
      [] type = "welford_reduce" -> WelfordReduce(first, Whole(x))

(* _make_loop_nest: the innermost variable moves fastest; a zero extent    *)
(* runs no iteration.                                                      *)
Origin == [d \in DOMAIN sizes |-> 0]
Entered == IF 0 \in ToSet(sizes) THEN None ELSE Origin

Following(r) ==
    LET movable == {d \in DOMAIN r : r[d] + 1 < sizes[d]} IN
    IF movable = {} THEN None
    ELSE LET m == Max(movable)
         IN  [d \in DOMAIN r |-> IF d < m THEN r[d] ELSE IF d = m THEN r[d] + 1 ELSE 0]

-----------------------------------------------------------------------------
Init ==
    /\ type \in Types
    /\ sizes \in Shapes
    /\ point = 0
    /\ index = Entered
    /\ acc = Identity
    /\ seen = <<>>
    /\ out = <<>>

Iterate(x) ==
    /\ point < Points
    /\ index # None
    /\ type # "welford_combine"
    /\ acc' = Updated(FirstIteration(index), x)
    /\ seen' = Append(seen, x)
    /\ index' = Following(index)
    /\ out' = IF type = "scan" THEN Append(out, [value |-> acc', from |-> seen']) ELSE out
    /\ UNCHANGED <<type, sizes, point>>

IterateCombine(batch) ==
    /\ point < Points
    /\ index # None
    /\ type = "welford_combine"
    /\ acc' = WelfordCombine(Moments(batch))
    /\ seen' = seen \o batch
    /\ index' = Following(index)
    /\ UNCHANGED <<type, sizes, point, out>>

\* mutant: declares the accumulators outside the output loops
DeclaredOutside == acc

(* Declarations are inside the output loops: each point has its own. *)
DeclaredAgain == Identity

(* Assign to the output, which a scan has done in every iteration, then    *)
(* the declarations of the next point.                                     *)
StorePoint ==
    /\ point < Points
    /\ index = None
    /\ out' = IF type = "scan" THEN out ELSE Append(out, [value |-> acc, from |-> seen])
    /\ point' = point + 1
    /\ acc' = DeclaredAgain
    /\ index' = Entered
    /\ seen' = <<>>
    /\ UNCHANGED <<type, sizes>>

Finished == point = Points /\ UNCHANGED vars

Next ==
    \/ \E x \in Values : Iterate(x)
    \/ \E batch \in Batches : IterateCombine(batch)
    \/ StorePoint
    \/ Finished

Spec == Init /\ [][Next]_vars

-----------------------------------------------------------------------------
(* Properties.                                                             *)

(* At every iteration the accumulators hold what they are named after: the *)
(* sum, extremum, ... of the values so far; for welford_reduce and         *)
(* welford_combine the mean, the sum of squared deviations and the weight  *)
(* of all values so far, whichever way they were batched, empty batches    *)
(* included; for a scan the combination in order.                          *)
AccumulatesDefinition == acc = Definition(seen)

(* What is stored for a point depends on that point's values alone: those  *)
(* up to the position for a scan, all of them for a reduction; an empty    *)
(* reduction stores the value of the empty accumulation.                   *)
EveryPointFromItsOwnValues ==
    \A i \in DOMAIN out : out[i].value = Definition(out[i].from)
=============================================================================
