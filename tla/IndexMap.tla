-------------------------------- MODULE IndexMap --------------------------------
(***************************************************************************)
(* From loop variables to the elements of a buffer.                        *)
(*                                                                         *)
(* A fused region has the loops of one parent.  _LogicalRangeMapper        *)
(* (pretty_print_loop/fused_scheduler.py) gives each child its own         *)
(* coordinates: the common flat index, taken apart again by the child's    *)
(* ranges.  The child computes a flat address from them, and _make_access  *)
(* (pretty_print_loop/loop_ir.py) takes that apart into the coordinates of *)
(* the buffer, or prints the address where it cannot.                      *)
(*                                                                         *)
(* One step is one iteration of the region's loops.  How the ranges of a   *)
(* child are split over the groups of a kernel is Inductor's               *)
(* (SIMDKernel.map_kernel_groups_to_node_sizes).                           *)
(***************************************************************************)
EXTENDS Naturals, Sequences, SequencesExt, FiniteSetsExt, Folding

CONSTANTS
    ParentRanges,  \* <<pointwise sizes, reduction sizes>> of the parent
    ChildRanges,   \* <<sizes, reduction sizes>> of the child
    BufferSizes,   \* sizes of the buffer the child accesses
    Strides,       \* strides of a buffer
    Offsets        \* offsets of a buffer

ASSUME SizesAssumption ==
    /\ ParentRanges \cup ChildRanges \subseteq Seq(Nat \ {0}) \X Seq(Nat \ {0})
    /\ BufferSizes \subseteq Seq(Nat \ {0})
    /\ Strides \cup Offsets \subseteq Nat

VARIABLES
    parent,   \* parent.get_ranges()
    active,   \* reduction_active of the phase
    lengths,  \* child.get_ranges()
    layout,   \* [sizes, strides, offset] of the buffer
    viewed,   \* the child sees the buffer flat, not in its own shape
    index,    \* values of the loop variables, or <<>> after the last
    visited   \* history: child coordinates, address and access, in order

vars == <<parent, active, lengths, layout, viewed, index, visited>>

Product(sizes) == Fold([p \in Nat \X Nat |-> p[1] * p[2]], 1, sizes)

(* ModularIndexing *)
Modular(i, divisor, modulus) == (i \div divisor) % modulus

-----------------------------------------------------------------------------
(* fused_scheduler.py *)

(* _flatten *)
Flatten(variables, sizes) ==
    Fold([p \in Nat \X (Nat \X Nat) |-> p[1] * p[2][2] + p[2][1]], 0,
         [d \in DOMAIN sizes |-> <<variables[d], sizes[d]>>])

\* mutant: multiplies the sizes before a dimension, not those after it
UnflattenFromFront(i, sizes) ==
    [d \in DOMAIN sizes |->
        IF sizes[d] = 1 THEN 0 ELSE Modular(i, Product(SubSeq(sizes, 1, d - 1)), sizes[d])]

(* _unflatten *)
Unflatten(i, sizes) ==
    [d \in DOMAIN sizes |->
        IF sizes[d] = 1 THEN 0
        ELSE Modular(i, Product(SubSeq(sizes, d + 1, Len(sizes))), sizes[d])]

PointwiseSizes == parent[1]
ReductionSizes == parent[2]

(* The loops around a child: the reduction loop only in an active phase. *)
Nest == PointwiseSizes \o (IF active THEN ReductionSizes ELSE <<>>)

(* _set_ranges: the common flat indices by the factors of each group. *)
SetRanges(at, factors) ==
    LET p == SubSeq(at, 1, Len(PointwiseSizes))
        r == SubSeq(at, Len(PointwiseSizes) + 1, Len(at))
    IN  <<Unflatten(Flatten(p, PointwiseSizes), factors[1]),
          IF active THEN Unflatten(Flatten(r, ReductionSizes), factors[2])
          ELSE Unflatten(0, factors[2])>>

(* map_child, groups *)
KernelGroups == <<Product(PointwiseSizes), IF active THEN Product(ReductionSizes) ELSE 1>>

-----------------------------------------------------------------------------
(* SIMDKernel._split_iteration_ranges: hands the child's sizes out to the  *)
(* two groups in order, splitting one that is too large for the first.  A  *)
(* getter says how a coordinate is put together from the new variables.    *)

ChildSizes == lengths[1] \o lengths[2]

TakeFrom(split, g, size) ==
    [split EXCEPT !.remaining[g] = @ \div size,
                  !.ranges[g] = Append(@, size),
                  !.ok = @ /\ split.remaining[g] % size = 0]

SplitSize(split, size) ==
    LET g == IF split.remaining[1] = 1 THEN 2 ELSE 1
        n == Len(split.ranges[1]) + Len(split.ranges[2])
        first == split.remaining[1]
        getter(how) == [split EXCEPT !.getters = Append(@, how)]
    IN  IF size = 1 THEN getter(<<>>)
        ELSE IF g = 1 /\ size > first
        THEN [TakeFrom(TakeFrom(getter(<<size \div first, n + 1, n + 2>>), 1, first),
                       2, size \div first)
                 EXCEPT !.ok = @ /\ size % first = 0]
        ELSE TakeFrom(getter(<<n + 1>>), g, size)

Splitting == [remaining: Nat \X Nat, ranges: Seq(Nat) \X Seq(Nat),
              getters: Seq(Seq(Nat)), ok: BOOLEAN]

Split == Fold([p \in Splitting \X Nat |-> SplitSize(p[1], p[2])],
              [remaining |-> KernelGroups, ranges |-> <<<<>>, <<>>>>,
               getters |-> <<>>, ok |-> TRUE],
              ChildSizes)

TilingMatches == \A g \in 1..2 : Product(lengths[g]) = KernelGroups[g]
Splits == TilingMatches \/ (Split.ok /\ Split.remaining = <<1, 1>>)

(* map_child: the coordinates of the child at one iteration. *)
MapChild(at) ==
    IF TilingMatches
    THEN SetRanges(at, lengths)[1] \o SetRanges(at, lengths)[2]
    ELSE LET groups == SetRanges(at, Split.ranges)
             variables == groups[1] \o groups[2]
         IN  [n \in DOMAIN Split.getters |->
                LET how == Split.getters[n] IN
                CASE how = <<>> -> 0
                  [] Len(how) = 1 -> variables[how[1]]
                  [] Len(how) = 3 -> how[1] * variables[how[2]] + variables[how[3]]]

-----------------------------------------------------------------------------
(* loop_ir.py *)

Total(xs) == Fold([p \in Nat \X Nat |-> p[1] + p[2]], 0, xs)

AddressOf(at) ==
    layout.offset + Total([d \in DOMAIN at |-> layout.strides[d] * at[d]])

Contiguous ==
    \A d \in DOMAIN layout.sizes :
        layout.sizes[d] # 1 =>
            layout.strides[d] = Product(SubSeq(layout.sizes, d + 1, Len(layout.sizes)))

ActiveDims == {d \in DOMAIN layout.sizes : layout.sizes[d] # 1}

(* Sizes of the dimensions that are sorted before d: smaller strides, and  *)
(* among equal ones the earlier dimensions, since sorting is stable.       *)
SortedBefore(d, e) ==
    \/ layout.strides[d] < layout.strides[e]
    \/ layout.strides[d] = layout.strides[e] /\ d < e
SizesBefore(e) ==
    [d \in DOMAIN layout.sizes |-> IF SortedBefore(d, e) THEN layout.sizes[d] ELSE 1]

\* mutant: accepts layouts with holes
DenseByOrder ==
    \/ Contiguous
    \/ \A d \in ActiveDims : layout.strides[d] >= Product(SizesBefore(d))

(* _is_dense *)
IsDense ==
    \/ Contiguous
    \/ \A d \in ActiveDims : layout.strides[d] = Product(SizesBefore(d))

Buffered(address) == [mode |-> "buffer", at |-> <<address>>]

(* The index is one loop variable and a coordinate keeps a division. *)
Linearized ==
    /\ viewed /\ layout.offset = 0
    /\ Len(Nest) = 1 /\ Product(ChildSizes) \in Range(ChildSizes)
    /\ \E d \in ActiveDims : layout.sizes[d] # Product(layout.sizes)

(* _make_access *)
MakeAccess(address) ==
    IF ~IsDense \/ Linearized THEN Buffered(address)
    ELSE [mode |-> "logical",
          at |-> [d \in DOMAIN layout.sizes |->
                    IF layout.sizes[d] = 1 THEN 0
                    ELSE Modular(address - layout.offset, layout.strides[d],
                                 layout.sizes[d])]]

-----------------------------------------------------------------------------
(* A reduction is fused only in an active phase, with its parent's groups. *)
Init ==
    /\ parent \in ParentRanges
    /\ active \in BOOLEAN
    /\ Product(parent[2]) = 1 => ~active
    /\ lengths \in ChildRanges
    /\ IF Product(lengths[2]) = 1 THEN Splits ELSE active /\ TilingMatches
    /\ viewed \in BOOLEAN
    /\ \E sizes \in BufferSizes, offset \in Offsets :
          /\ IF viewed THEN Product(sizes) = Product(ChildSizes) ELSE sizes = ChildSizes
          /\ \E strides \in [DOMAIN sizes -> Strides] :
                layout = [sizes |-> sizes, strides |-> strides, offset |-> offset]
    /\ index = [d \in DOMAIN Nest |-> 0]
    /\ visited = <<>>

(* A child computes the address of its element of the buffer (external). *)
ChildAddress(at) ==
    IF viewed THEN layout.offset + Flatten(at, ChildSizes) ELSE AddressOf(at)

(* The innermost loop moves fastest. *)
Following(at) ==
    LET m == Max({d \in DOMAIN at : at[d] + 1 < Nest[d]})
    IN  [d \in DOMAIN at |-> IF d < m THEN at[d] ELSE IF d = m THEN at[d] + 1 ELSE 0]

LastIteration == \A d \in DOMAIN Nest : index[d] + 1 = Nest[d]
Finished == Len(visited) = Product(Nest)

Iterate ==
    /\ ~Finished
    /\ LET at == MapChild(index)
           address == ChildAddress(at)
       IN  visited' = Append(visited, [at |-> at, address |-> address,
                                       access |-> MakeAccess(address)])
    /\ index' = IF LastIteration THEN index ELSE Following(index)
    /\ UNCHANGED <<parent, active, lengths, layout, viewed>>

Next == Iterate \/ (Finished /\ UNCHANGED vars)

Spec == Init /\ [][Next]_vars

-----------------------------------------------------------------------------
(* Properties.                                                             *)

Within(at, sizes) ==
    /\ Len(at) = Len(sizes)
    /\ \A d \in DOMAIN at : at[d] < sizes[d]

Before(at1, at2) ==
    \E d \in DOMAIN at1 : at1[d] < at2[d] /\ \A e \in 1..(d - 1) : at1[e] = at2[e]

(* The region's loops take the child through every point of its own ranges *)
(* exactly once and in its own order, however its ranges are split over    *)
(* the parent's, so that replaying children of different shapes in one     *)
(* nest runs each of them whole (_flatten, _unflatten, map_child).         *)
EveryPointOnce ==
    /\ \A n \in DOMAIN visited : Within(visited[n].at, ChildSizes)
    /\ \A n \in 2..Len(visited) : Before(visited[n - 1].at, visited[n].at)
    /\ Finished => Len(visited) = Product(ChildSizes)

(* What is printed is the element the child means: logical coordinates are *)
(* inside of the buffer's shape and address the same element, whatever the *)
(* order of its strides; layouts with holes or overlaps are printed by     *)
(* address (_make_access, _is_dense).                                      *)
AccessDenotesAddress ==
    \A n \in DOMAIN visited :
        LET access == visited[n].access IN
        IF access.mode = "buffer" THEN access.at = <<visited[n].address>>
        ELSE Within(access.at, layout.sizes) /\ AddressOf(access.at) = visited[n].address
=============================================================================
