----------------------------- MODULE PostLowering -----------------------------
(***************************************************************************)
(* From a graph to a program of regions: PostLoweringFormatter.build       *)
(* (loop_ir.py), one region per operation in the graph's order, and        *)
(* build_fused_scheduler_loop_ir (fused_scheduler.py), one region per node *)
(* in the scheduler's order.  Both end with a region for every output that *)
(* is a view, and with the list of what is returned.                       *)
(*                                                                         *)
(* The graph and its schedule are the environment's.  A buffer's value is  *)
(* the data flow it comes from.  The program is run next to its printing,  *)
(* an operation at a time: memory maps the names that its regions write    *)
(* to values.  The loops of a region are the subject of other modules;     *)
(* here its operations compute from the buffers that they name.            *)
(***************************************************************************)
EXTENDS Naturals, Sequences, FiniteSets, SequencesExt

CONSTANTS
    Inputs,      \* graph inputs; a name is a pair <<stem, number>>
    Targets,     \* graph inputs that operations may mutate
    MaxOps, MaxOutputs,   \* bounds: operations and outputs of the graph
    MaxUses      \* bound: what is read, and output, in all

None == <<"none", 0>>

VARIABLES
    mode,        \* "operations" or "nodes": which of the two programs
    operations,  \* graph.operations
    outputs,     \* graph.graph_outputs
    value,       \* what the graph computes, by buffer
    printed,     \* indices of the operations that have a region
    regions,     \* the program
    running,     \* operations of the last region still to be run
    memory,      \* what running the program so far leaves
    viewed,      \* outputs that _format_output_views has gone through
    returns,     \* names returned, once the program is complete
    failed       \* an exception has left the formatter

graph == <<mode, operations, outputs, value>>
vars  == <<graph, printed, regions, running, memory, viewed, returns, failed>>

-----------------------------------------------------------------------------
(* The graph.  Operation i reads buffers as data and as seeds, defines     *)
(* <<"buf", i>>, and may write target through an alias.  declared is what  *)
(* get_read_names() tells of its reads: of a scan it may miss some, those  *)
(* of its other inner functions.  Operations are                           *)
(*   loops, scan  what the formatter replays;                              *)
(*   subclass     loops that only a fused node replays;                    *)
(*   unfit        nodes of the scheduler that a fused node cannot replay   *)
(*                either: templates, a Welford contribution that does not  *)
(*                fit its type;                                            *)
(*   extern       calls, which are no SchedulerNodes.                      *)
(* An output is a view of a buffer, a buffer, or a value.                  *)

Name(i) == <<"buf", i>>
Reads(op) == op.data \cup op.seeds

(* Values: an input as it was, what an operation made of the values in f   *)
(* of the buffers it reads, a view of a value, a constant, or nothing.     *)
Undefined == [kind |-> "undefined"]
Constant  == [kind |-> "constant"]
Original(n) == [kind |-> "input", of |-> n]
ViewOf(v) == IF v = Undefined THEN Undefined ELSE [kind |-> "view", of |-> v]

At(f, n) == IF n \in DOMAIN f THEN f[n] ELSE Undefined
Result(i, op, f) ==
    IF \E n \in Reads(op) : At(f, n) = Undefined THEN Undefined
    ELSE [kind |-> "result", of |-> i, data |-> [n \in op.data |-> f[n]],
          seeds |-> [n \in op.seeds |-> f[n]]]

Updated(f, n, v) == [m \in DOMAIN f \cup {n} |-> IF m = n THEN v ELSE f[m]]

(* Bound: what the operations ops read, and count outputs. *)
UsesBounded(ops, count) ==
    FoldLeft(LAMBDA n, op : n + Cardinality(op.data) + Cardinality(op.seeds), count, ops)
        <= MaxUses

Kinds == {"loops", "scan", "subclass", "unfit", "extern"}

Declared(kind, reads) == IF kind = "scan" THEN SUBSET reads ELSE {reads}

AddOperation ==
    LET i == Len(operations) + 1
    IN /\ outputs = <<>> /\ i <= MaxOps
       /\ \E kind \in Kinds, data, seeds \in SUBSET DOMAIN value, target \in Targets \cup {None} :
          \E declared \in Declared(kind, data \cup seeds) :
            LET op == [kind |-> kind, data |-> data, seeds |-> seeds, target |-> target,
                       declared |-> declared]
                v  == Result(i, op, value)
            IN /\ operations' = Append(operations, op)
               /\ value' = Updated(IF target = None THEN value ELSE [value EXCEPT ![target] = v],
                                   Name(i), v)
       /\ UsesBounded(operations', 1)
       /\ UNCHANGED <<mode, outputs, printed, regions, running, memory, viewed, returns, failed>>

AddOutput ==
    /\ operations # <<>> /\ printed = {} /\ ~failed /\ Len(outputs) < MaxOutputs
    /\ \E kind \in {"view", "buffer", "value"}, of \in DOMAIN value \cup {None} :
         /\ kind = "value" <=> of = None
         /\ outputs' = Append(outputs, [kind |-> kind, of |-> of])
    /\ UsesBounded(operations, Len(outputs'))
    /\ UNCHANGED <<mode, operations, value, printed, regions, running, memory, viewed,
                   returns, failed>>

GraphOutput(o) ==
    CASE o.kind = "view"   -> ViewOf(value[o.of])
      [] o.kind = "buffer" -> value[o.of]
      [] o.kind = "value"  -> Constant

-----------------------------------------------------------------------------
(* Regions.                                                                *)

(* load_seed prints the buffer under a name that ends in _seed. *)
Display(n) == IF n[1] = "input_seed" THEN n ELSE <<n[1] \o "_seed", n[2]>>

(* Inductor's names: buffers are buf and a number, and no input is called  *)
(* as another input or a buffer would be with the suffix of seeds.  (That  *)
(* the suffix makes a name another one is computed here, not proved.)      *)
ASSUME NamesAssumption ==
    /\ Targets \subseteq Inputs
    /\ Display(Name(1))[1] # "buf"
    /\ \A n \in Inputs :
          /\ n[1] \notin {"none", "buf", "output", Display(Name(1))[1]}
          /\ Display(n) # n => Display(n) \notin Inputs /\ Display(n)[1] # "buf"

(* What the body of an operation's region names: load, load_seed. *)
BodyNames(op) == op.data \cup {Display(n) : n \in op.seeds}

\* mutant: forgets the renames
InputVariablesAsTheyAre(names, renamed) == names

(* _input_variables *)
InputVariables(names, renamed) ==
    {IF n \in renamed THEN Display(n) ELSE n : n \in names}

Region(kind, ops, ins, outs, loads) ==
    [kind |-> kind, ops |-> ops, ins |-> ins, outs |-> outs, loads |-> loads]

(* _format_unimplemented: the signature, and nothing in the body. *)
Unimplemented(i) ==
    Region("operation", {i}, InputVariables(operations[i].declared, {}), {Name(i)}, {})

(* _format_pointwise, _format_reduction, and _format_welford_reduction up  *)
(* to its fallback: the signature has what get_read_names() says.          *)
Loops(i) ==
    LET op == operations[i]
    IN Region("operation", {i}, InputVariables(op.declared, op.seeds), {Name(i)}, BodyNames(op))

(* _format_scan: the signature has what the handler has seen. *)
Scan(i) ==
    LET op == operations[i]
    IN Region("operation", {i}, InputVariables(Reads(op), op.seeds), {Name(i)}, BodyNames(op))

FormatOperation(i) ==
    CASE operations[i].kind = "loops" -> Loops(i)
      [] operations[i].kind = "scan"  -> Scan(i)
      [] OTHER                        -> Unimplemented(i)

\* mutant: lists what the region writes among its inputs
FusedInputsAll(S) == UNION {Reads(operations[i]) : i \in S}

(* The inputs of a fused region, as they are called in the graph. *)
FusedInputs(S) == (UNION {Reads(operations[i]) : i \in S}) \ {Name(i) : i \in S}

(* build_fused_node_loop_ir, when no child raises *)
FusedNode(S) == Region("fused", S, FusedInputs(S), {Name(i) : i \in S},
                       UNION {BodyNames(operations[i]) : i \in S})

(* Scheduler nodes that are neither, and special fused nodes. *)
OpaqueNode(S) == Region("opaque", S, {}, {}, {})

Emit(region) ==
    /\ outputs # <<>> /\ running = {} /\ ~failed
    /\ printed' = printed \cup region.ops
    /\ regions' = Append(regions, region)
    /\ running' = {i \in region.ops : Name(i) \in region.outs}
    /\ UNCHANGED <<graph, memory, viewed, returns, failed>>

(* The operations of a region run in order, those that it says it writes.  *)
RunOperation == \E i \in running :
    /\ \A j \in running : i <= j
    /\ memory' = Updated(memory, Name(i), Result(i, operations[i], memory))
    /\ running' = running \ {i}
    /\ UNCHANGED <<graph, printed, regions, viewed, returns, failed>>

Unprinted == DOMAIN operations \ printed

(* build: the graph's operations, in order. *)
FormatNext ==
    /\ mode = "operations" /\ Unprinted # {}
    /\ Emit(FormatOperation(Cardinality(printed) + 1))

-----------------------------------------------------------------------------
(* The scheduler: nodes are sets of operations, in an order that keeps     *)
(* every two operations that touch one buffer in theirs.                   *)

Writes(i) == {Name(i), operations[i].target} \ {None}
Touches(i) == Writes(i) \cup Reads(operations[i])

Ready(S) ==
    /\ mode = "nodes" /\ S # {}
    /\ \A j \in S, i \in Unprinted \ S :
         i < j => Writes(i) \cap Touches(j) = {} /\ Touches(i) \cap Writes(j) = {}

SchedulerNodes(S) == \A i \in S : operations[i].kind # "extern"
Replayable(S) == \A i \in S : operations[i].kind \in {"loops", "scan", "subclass"}

FormatSchedulerNode == \E i \in Unprinted :
    /\ Ready({i}) /\ SchedulerNodes({i})
    /\ Emit(FormatOperation(i))

FormatFusedNode == \E S \in SUBSET Unprinted :
    /\ Ready(S) /\ Replayable(S) /\ Cardinality(S) > 1
    /\ Emit(FusedNode(S))

FormatOpaqueNode == \E S \in SUBSET Unprinted :
    /\ Ready(S) /\ (SchedulerNodes(S) => Cardinality(S) > 1)
    /\ Emit(OpaqueNode(S))

(* An exception leaves the formatter, and nothing is returned: a fused     *)
(* node whose children are not SchedulerNodes, whose backend is not        *)
(* SIMDScheduling or that replays what is unfit, or an inner function of   *)
(* an operation or a view that asks the handler for what it cannot do.     *)
Raise ==
    /\ outputs # <<>> /\ running = {} /\ ~failed
    /\ Unprinted # {} \/ viewed < Len(outputs)
    /\ failed' = TRUE
    /\ UNCHANGED <<graph, printed, regions, running, memory, viewed, returns>>

-----------------------------------------------------------------------------
(* Outputs.                                                                *)

\* mutant: numbers views among views, not among outputs
ViewNameAmongViews(i) ==
    <<"output", Cardinality({j \in 1..i : outputs[j].kind = "view"})>>

(* The name of output i in _format_output_views ... *)
ViewName(i) == <<"output", i>>

(* ... and in _format_returns. *)
ReturnName(i) ==
    CASE outputs[i].kind = "view"   -> <<"output", i>>
      [] outputs[i].kind = "buffer" -> outputs[i].of
      [] outputs[i].kind = "value"  -> None

(* _format_output_views: a region for an output that is a view. *)
IsView(i) == outputs[i].kind = "view"
ViewRegion(i) == Region("view", {}, InputVariables({outputs[i].of}, {}), {ViewName(i)},
                        {outputs[i].of})

(* An iteration of its loop, after the last region. *)
FormatOutput ==
    LET i == viewed + 1 IN
    /\ outputs # <<>> /\ Unprinted = {} /\ running = {} /\ ~failed
    /\ i <= Len(outputs)
    /\ viewed' = i
    /\ IF IsView(i)
       THEN /\ regions' = Append(regions, ViewRegion(i))
            /\ memory' = Updated(memory, ViewName(i), ViewOf(At(memory, outputs[i].of)))
       ELSE UNCHANGED <<regions, memory>>
    /\ UNCHANGED <<graph, printed, running, returns, failed>>

(* _format_returns *)
FormatReturns ==
    /\ outputs # <<>> /\ viewed = Len(outputs) /\ returns = <<>> /\ ~failed
    /\ returns' = [i \in DOMAIN outputs |-> ReturnName(i)]
    /\ UNCHANGED <<graph, printed, regions, running, memory, viewed, failed>>

Finished == (returns # <<>> \/ failed) /\ UNCHANGED vars

Init ==
    /\ mode \in {"operations", "nodes"}
    /\ operations = <<>> /\ outputs = <<>>
    /\ value = [n \in Inputs |-> Original(n)] /\ memory = value
    /\ printed = {} /\ regions = <<>> /\ running = {} /\ viewed = 0 /\ returns = <<>>
    /\ failed = FALSE

Next ==
    \/ AddOperation \/ AddOutput
    \/ FormatNext
    \/ FormatSchedulerNode \/ FormatFusedNode \/ FormatOpaqueNode
    \/ RunOperation
    \/ FormatOutput \/ FormatReturns
    \/ Raise
    \/ Finished

Spec == Init /\ [][Next]_vars

-----------------------------------------------------------------------------
(* Properties.                                                             *)

(* An operation or an output reads a buffer after another operation wrote  *)
(* it through an alias.                                                    *)
Stale == \E i \in DOMAIN operations :
    LET t == operations[i].target
    IN /\ t # None
       /\ \/ \E j \in DOMAIN operations : j > i /\ t \in Reads(operations[j])
          \/ \E k \in DOMAIN outputs : outputs[k].of = t

Opaque == \E k \in DOMAIN regions : regions[k].kind = "opaque"

(* ReturnsGraphOutputs: in the order of the graph or of the scheduler, the *)
(* complete program returns what the graph outputs, in the right slots,    *)
(* except that a write through an alias is not visible under the target's  *)
(* name, and that what a node without a rendering writes is not defined.   *)
ReturnsGraphOutputs ==
    \A i \in DOMAIN returns :
        LET v == IF returns[i] = None THEN Constant ELSE At(memory, returns[i])
        IN v = GraphOutput(outputs[i]) \/ Stale \/ (Opaque /\ v = Undefined)

(* What a region's body names and its signature does not. *)
Unnamed(r) == r.loads \ (r.ins \cup r.outs)

(* The names of an operation's seeds that are not those of their buffers.  *)
Suffixed(op) == {Display(n) : n \in {m \in op.seeds : Display(m) # m}}

(* SignaturesNameLoads: a signature names what the body loads, with two    *)
(* exceptions: a buffer that one operation reads both as data and as seeds *)
(* appears under the second name only, and a fused region's signature does *)
(* not know the names under which seeds are printed.                       *)
SignaturesNameLoads ==
    \A k \in DOMAIN regions :
        LET r    == regions[k]
            ops  == {operations[i] : i \in r.ops}
        IN Unnamed(r) =
             CASE r.kind = "fused" -> UNION {Suffixed(op) : op \in ops}
               [] r.kind = "operation" ->
                    UNION {{n \in op.data \cap op.seeds : Display(n) # n} :
                             op \in {x \in ops : x.kind \in {"loops", "scan"}}}
               [] OTHER -> {}

(* NamesResolve: a signature names graph inputs, buffers of earlier        *)
(* regions, or buffers of earlier nodes without a rendering, up to the     *)
(* suffix of seeds.                                                        *)
NamesResolve ==
    \A k \in DOMAIN regions :
        LET before == Inputs \cup
                        UNION {regions[j].outs \cup
                                 (IF regions[j].kind = "opaque"
                                  THEN {Name(i) : i \in regions[j].ops} ELSE {}) :
                               j \in 1..(k - 1)}
        IN regions[k].ins \subseteq before \cup {Display(n) : n \in before}

(* FusedSignaturesNameLoads: the signature of a fused region names what    *)
(* its body loads, as tests/test_unit.py:402-404 expects of the region of  *)
(* an operation that uses a seed.                                          *)
FusedSignaturesNameLoads ==
    \A k \in DOMAIN regions : regions[k].kind = "fused" => Unnamed(regions[k]) = {}

=============================================================================
