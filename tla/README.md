# A TLA+ model of pretty-print-inductor

The repository prints what PyTorch's Inductor compiler is about to do as
readable loops: the operations of a lowered graph (`loop_ir.py`), the regions
of a fused schedule (`fused_scheduler.py`), the history of the fusion passes
(`fusion_trace.py`), and a small scalar AST (`functional/`).  Its output is only
worth reading if the printed loops compute what the compiler's nodes compute,
so that is what most of these specifications are about.

All paths below are relative to the repository, `loop_ir.py` stands for
`pretty_print_loop/loop_ir.py`, and so on.

## Inventory

| Part | State | Operations | What is hard | What makes it correct |
| --- | --- | --- | --- | --- |
| Fused region builder, `fused_scheduler.py` | open phase; current statements, pending bindings, initializers, finalizers; `forwarded`, `forwarded_reductions`; counters; `reads` | one handler method per call of a LoopBody: load, store, reduction, scan, store_reduction, scalar operations; phase start and end; markers | values forwarded across stores and phases; empty phases; numbering across children | the region computes what its children compute; nothing is read before it is final; signature and body agree |
| Logical ops handler, `loop_ir.py` 253-478 | bindings, temporary and indirect counters, `reads`, `var_ranges`, types by `id` | load, bind, masked, indirect indexing, dtype promotion | bindings hoisted out of masks, types of collected objects | what is handed back means what was asked for; masked loads stay masked; types stay with their values |
| Accumulators, `loop_ir.py` 499-1012 | accumulator locals of a printed loop nest | update, Welford updates, scan update, store | first iteration, empty ranges, zero weights, simultaneous assignment | the locals hold what they are named after |
| Rendering, `loop_ir.py` 1071-1261 | none | `_render_atom`, `_Renderer` | precedence | the text means the expression |
| Access decoding, `loop_ir.py` 348-418, and range mapping, `fused_scheduler.py` 48-106 | none | `_make_access`, `_is_dense`, `_flatten`, `_unflatten` | strides, offsets, extents of one | the coordinates address the same element; each point is visited once |
| Post-lowering formatter, `loop_ir.py` 578-1050 | none beyond a handler per operation | one formatter per kind of operation, output views, returns | operations it cannot express, unimplemented fallbacks, renamed seeds, orders of the graph and of the scheduler | the program returns what the graph outputs; signatures name what bodies load |
| Fusion trace, `fusion_trace.py` | patched attributes of `Scheduler`, `trace.passes`, `pass_stack` | the two wrappers, entering and leaving the capture | nesting, exceptions, several schedulers, nodes mutated later | transparent to the compiler; every rewrite recorded once, as it was |
| Scalar AST, `functional/` | `_accumulator_index`, `_output_names` | one statement per operation, `seq` | order, accumulators in memory, tensor roles | the program computes the graph |
| Graph setup, `lowering.py` | none | calls torch | | |
| Inductor (external) | schedules, LoopBodies, nodes, loop order | `generate_node_schedule`, `fuse_nodes_once`, `fuse_two_nodes` | | |

How they interact.  `build_fused_scheduler_loop_ir` walks `scheduler.nodes`; for
a fused node it asks Inductor for a node schedule, and then Inductor's LoopBody
calls back into the handler, once per operation.  `capture_fusion_steps`
replaces two methods of `Scheduler`, so that Inductor calls the wrappers, which
call what they replaced and build and print the region of every node the
compiler fuses.  The formatter of `loop_ir.py` shares the handler's base class,
the loop nest and the accumulator updates with the fused builder.

Nothing here runs concurrently: the docstring of `capture_fusion_steps` rules
out threads, and everything else is called and returns.  What interleaves is
Inductor's side of the calls: which handler method a LoopBody calls next, where
the markers of a schedule stand, which scheduler calls which patched function,
and where an exception is raised and caught.  Those choices are the
nondeterminism of the models.

## Modules

| Module | Role |
| --- | --- |
| `FusedRegion` | the builder and the handler as a state machine, one action per call |
| `FusedExec` | extends it with an interpreter of the emitted statements and of the LoopBodies, and compares the two |
| `FusedRegionProofs` | theorems about `FusedRegion`: types, finality of what is read, phases, loads and forwarding, names of locals |
| `FusedExecProofs` | extends it: a region computes what its children compute |
| `Folding` | folds along a sequence, as recursive functions |
| `FusionHistory` | abstract: what the compiler's fusion does when nobody watches |
| `FusionTrace` | the wrappers, as a call stack; refines `FusionHistory` |
| `FusionTraceProofs` | theorems about `FusionTrace`: types, nesting, pass stacks, refinement, what captures record |
| `Render` | printing with the code's precedences and reading with Python's |
| `Accumulators` | the loop nests of reductions and scans, one iteration per step |
| `AccumulatorsProofs` | theorems about `Accumulators`: what is accumulated and stored |
| `Trees` | trees as functions from paths to labels |
| `ScalarAST` | from a graph to the scalar AST, with an interpreter |
| `ScalarASTProofs` | theorems about `ScalarAST`: roles, what the program computes |
| `IndexMap` | from the variables of a region's loops to the coordinates of a child and of its buffers, one iteration per step |
| `IndexMapProofs` | theorems about `IndexMap`: points of a child, accesses to its buffers |
| `OpsHandler` | replaying one `inner_fn` against the ops handler, one action per method |
| `OpsHandlerText` | extends it with an evaluator of what was printed |
| `OpsHandlerProofs` | theorems about `OpsHandler`, types, and about `OpsHandlerText`, values and masks |
| `PostLowering` | from a graph, or a schedule, to a program of regions and its returns |
| `PostLoweringProofs` | theorems about `PostLowering`: signatures, names, returns |
| `MC*` | symmetry sets and constant values for TLC |

### FusedRegion

The schedule belongs to Inductor.  `DisableReduction`, `EnableReduction`,
`StartChild` and the choice of calls are its moves; `hasRed`, `enabled`,
`notReady` and `written` are what it knows.  Its contract, from the code of
`generate_node_schedule` as this repository uses it: markers alternate; a child
that needs a reduced buffer comes after a marker that closed the loop; a reader of
an indirect write is not fused with the writer (`Readable`).  The model consumes
the schedule while `_split_phases` cuts it, since a phase depends only on the
entries before it; so `NextPhase` is both `_split_phases` and the end of an
iteration of the loop over phases.

| Code | Model |
| --- | --- |
| `handler.current`, `handler.bindings` | `block`, `bindings`; `Flushed` is `flush_bindings` |
| `initializers`, `finalizers` | `inits`, `fins` |
| `forwarded`, `forwarded_reductions` | `fwd`, `fwdRed`, functions from `Key` |
| `_temporary_count`, `accumulator_count`, `scan_state_count` | `count` |
| `outer_statements` | `outer`, kept by section |
| `phases[-1].reduction_active`, `phases[-1].nodes` | `active`, `opened` |

A statement keeps what it declares, reads and writes, and drops the operator.
An `acc` stands for the one local of a reduction or the three of a Welford
reduction, which are declared, updated and stored together.  Two index keys may
denote the same address, because keys are only as equal as `simplify` and
`expand` make them.

An exception leaves the formatter for good.  What the handler has done by then stays done:
`Raise` is one from a child's replay, between two calls, `RaiseInReduction` one from
the Welford reduction, which flushes, takes an accumulator number and extends the
initializers before it finds that the child does not fit.

### FusedExec

`bodies` records the calls.  `RunBodies` runs them unfused: each LoopBody over its
iteration space, all loads from memory.  `RunRegion` runs the emitted sections
for each pointwise index.  What the values are, what an operation makes of its
operands (`Mix`), what an atomic write leaves (`Add`) and the memory before the region
are constants.  For TLC values are residues and `Mix` is a function that tells operands
and their order apart, so equal memories mean equal data flow; the theorem holds for
every choice.

### FusionTrace and FusionHistory

`stack` is Python's call stack restricted to the frames that matter: with blocks,
wrappers, and passes of a scheduler.  `control` says whether code runs, calls,
returns or raises.  A wrapper's own code is one action before and one after the
call it makes; an exception travels one frame per step.  `happened` is a history
variable.

| Code | Model |
| --- | --- |
| `self` and `nodes` of the `fuse_nodes_once` calls under way (Inductor's) | `running`, one entry per pass frame, innermost last |
| the local `fusion_pass` of a `traced_fuse_nodes_once` | `at` of its frame, an index into `passes[c]` |
| `Scheduler.fuse_nodes_once` and `Scheduler.fuse_two_nodes` | `installed`, patched together |
| `original_once`, `original_two` | `original[c]` |
| `trace.passes`, `pass_stack` | `passes[c]`, `passStack[c]` (indices) |

The refinement `Untraced` takes `running` for the frames of `FusionHistory` and hides
the wrappers; a call in flight has not begun, and a list being returned through
wrappers is already installed.  `get_name` and `debug_str` are assumed not to raise.

### Render

Operators, operands and parentheses only.  `RenderAtom` prints tokens as
`_render_atom` does, `Read` parses them by Python's grammar, and `ReadsBack`
compares up to the laws a + (b - c) = (a + b) - c and a * (b / c) = (a * b) / c
that the code relies on when it drops parentheses on purpose.

### Accumulators

The state is the printed program's: reduction variables, accumulator locals,
output.  Fractions are exact and in lowest terms, and there are `Modulus` integers,
which gives `dtype_min` and `dtype_max` their meaning; floating-point identities are
the infinities instead and are the same case.  `BitXor` is a constant.

### ScalarAST

An operation is converted as a whole (`Convert`), the accumulator index is the
only state that lasts.  An operation that the code does not support ends the conversion
(`Unsupported`); a reduction may have taken an accumulator number by then.  The indices
of loads, and the index the layout's indexer returns for the output, are expressions of
sympy, which the code gets from Inductor and translates (`sympy_to_expr`).  The model takes them
from `Indices`, as expanded sums of products of integers and loop variables, so a layout may
have any strides, any offset and any order.  `Fits` is what Inductor owes: an index names the
operation's own loop variables and stays inside of its buffer, and no two points of an output are
stored to one cell.  A quotient, a remainder or a power in an index is one of the things that
`Unsupported` stands for; a sum inside of a product is left out.  The nodes of `ast.py` are trees (`Trees`): an expression or a
statement is a function from paths to nodes, so that what is said of it can be a
function of its paths.  `Eval`, `Stores` and `Run` give the AST the meaning its comments
state: a statement makes a list of stores, each with the values of the loop variables
around it, and `Run` makes them one after the other.  `Meaning` is the graph's.

### IndexMap

A step is one iteration of the loops `build_fused_node_loop_ir` prints around one
child.  `MapChild` is `map_child`; how a child's ranges are split over the two
groups (`Split`) is Inductor's `SIMDKernel`, as is the address function of a
layout.  A child sees a buffer in its own shape or, after a reshape, flat
(`viewed`).  `MakeAccess` decodes the address it computes.  Symbolic expressions
are represented by their values; only `Linearized` asks what the expression would
look like, a bare loop variable.

### OpsHandler

`inner_fn` is the environment: it calls a method with values it still holds, may
forget a value, and returns.  What it holds has three parts: what the handler
handed back (`e`), what it means at every point where the code now replayed is
meant to run (`mean`), and its type (`type`).  `Value` and `After` of `OpsHandlerText`
give the printed expressions and declarations their meaning: declarations run at every
point, a select takes one branch, an access outside of the points for which its index
is meant gives `Fault` (`Gives`).

| Code | Model |
| --- | --- |
| `use_temporaries` | `temporaries`, either way at first; `masked` saves it in `frames` |
| `bindings` | `bindings`, each with the type of its local |
| `_expression_dtypes` | `dtypes`, from ids; `NewIds` reuses the id of an object nothing refers to |
| `_temporary_count`, `_indirect_var_count` | `count` |
| `var_ranges`, of the index variables that `indirect_indexing` declares | `ranges` |
| the select that `wrap_neg` puts around an index | `WrapNegative`; what it means is `Wrapped` |
| types and `promote_types` | natural numbers and their maximum |

The `body` of `masked` is the calls between `BeginMasked` and `EndMasked`, at the
points where the mask holds.  What it computes is local to it, except what
`indirect_indexing` declares.

### PostLowering

`mode` says which of the two programs is printed: `operations` is
`PostLoweringFormatter.build`, `nodes` is `build_fused_scheduler_loop_ir`.  The graph
is built first, an operation and an output at a time; an operation reads any buffers as
data and as seeds and may write a graph input through an alias.  Its kind says who replays
it: both formatters (`loops`, `scan`), fused nodes only (`subclass`), nobody (`unfit`), or
that it is no `SchedulerNode` (`extern`).  Two things are told of its reads: the handler
sees them all; `get_read_names()` may miss some of a scan (`declared`), which is why
`_format_scan` alone takes its signature from the handler (`Scan`, next to `Loops` and
`Unimplemented`).  Then every region is one step, and so are every iteration of the loop
over output views and the list of returns.  A region keeps its operations, the names in
its signature, and the names its body loads.  A fused node whose children are no
`SchedulerNode`s, or which cannot be replayed, has no region: the formatter raises
(`Raise`), as it also may for a backend it does not know and for an inner function that
asks for what no handler has; then nothing is returned.

`memory` runs the program next to the printing, one operation of the last region at a
time (`RunOperation`): a value is the term of the data flow behind it, which operation
made it of which values.  The scheduler may emit any set of operations next that keeps
the order of every two that touch one buffer (`Ready`).

## Runs

| Run | Question | Bounds and why they are enough |
| --- | --- | --- |
| `fused_exec` | scoping, finality, forwarding, phases, signature, names; region computes its schedule | three children, so that a producer, a consumer and an unrelated child can stand in any order; two markers give all three shapes of loop, epilogue, second loop; one operation per child besides its store; 2 x 3 points: a last iteration that is not the first, and two pointwise points so that nothing leaks between them |
| `fused_scan` | tuple scans, aliasing keys | two children, one load each besides a scan of two states and a store, so that the second may load under one key what the first stored under the other; two keys for one address; one marker |
| `fusion_trace` | transparency, patches, recording, pass stack | two captures, two schedulers, two nodes, two passes, one exception: nesting of everything in everything |
| `fusion_passes` | replay of a pass; watching ends | one capture, three nodes, two passes, one exception: two rewrites in one pass, and a pass after an aborted one; no symmetry, as a liveness property is checked |
| `render` | exactly which expressions are misread | fourteen operators, one or more of every precedence in `_PRECEDENCE`, two prefixes, three kinds of leaf; three nested operators with leaves beside them (a parent, a child and a grandchild), and every operator between two operations on leaves |
| `accumulators` | reductions, Welford, scans | no, one and two reduction variables and an empty range; two output points; 2-bit integers that overflow |
| `scalar_ast` | program computes graph, roles | three operations, so that one stands between a buffer and its use; a scalar or a matrix for the output, nothing or a vector to sum; one load each; three indices: the matrix by columns with its rows backwards (strides -1 and 2, offset 1), the summed dimension, and one fixed cell |
| `index_map` | every point once and in order; accesses denote their address | four nests, with and without reduction; children and buffers of up to three dimensions with extents 1, 2, 3 and 6 and at most twelve elements, so that ranges split inside a size and across the groups; strides 0, 1, 2, 3 and 6 in every combination: permuted, padded, overlapping and broadcast layouts |
| `ops_handler` | values, masks and types of one `inner_fn` | five calls, of which at most three loads, two masks, one indirect index, one value forgotten and one other operation; three points; two buffers and an `other` of three types, so that promotion matters; five numbers, two of which stand for negative ones, and one size to wrap them with |
| `post_lowering` | returns, signatures, names | two operations, two outputs, two inputs, one of which may be mutated, and one of which is named as seeds are; reads and outputs are three in all; enough for a fused node, for an order other than the graph's, and for a view next to another output |
| `render_division`, `fused_seed` | statements of the documentation the code does not keep | the operators `*` and `//`; the bounds of `post_lowering` |

Deadlock is checked everywhere: every module has an explicit action for the states
in which it may stop.

Fairness: `FusionTrace` has `FairSpec`, weak fairness of `Proceed`.  Code that was
called runs and returns or raises, an exception travels to its handler, and the
block under a `with` comes to its end: all of that is Python executing one thread,
which nothing here makes wait.  Calls, rewrites, exceptions and new captures are left
out of `Proceed`: nobody owes them, they only may happen, as often as the bounds
allow.  `WatchingEnds` is checked under `FairSpec`: however a capture ends,
`Scheduler` gets its functions back and no pass stays open.  A compilation that never
ends is outside of it: the bounds on passes and exceptions stand for that.

The other modules state no fairness.  Their code is called and returns, and whether
Inductor's next call ever comes is not its to promise.

### Disagreements with the documentation

README.md:27 says that `use_temporaries=False` renders fully inlined expressions.
Four kinds of inlined text do not mean their expression in Python's grammar, whose
operators the text uses:

- `a * (b // c)`, and the same with `%`, loses its parentheses;
- `(a ** b) ** c` loses its parentheses, as does `(-a) ** b`;
- `not` binds like a sign: `(not a) == b` is printed `not a == b`;
- an index expression as an operand gets no parentheses.

`render_division` prints a counterexample of the first kind; `MisreadExactlyWhenListed`
shows that, for the operators in its run, these four and chained comparisons are all
the cases there are.

README.md:56 says that a region's inputs and outputs are the global tensors.  The
body of a fused region names the seeds it reads with the suffix that `load_seed` adds,
and its signature names them without (fused_scheduler.py:369 does not look at
`input_renames`, which `_input_variables` does for all other regions).  `fused_seed`
prints the counterexample.  `SignaturesNameLoads` says that this is the only way in
which a fused signature misses a name, and that the signature of an unfused operation
misses one only when it reads one buffer as data and as seeds.

functional/README.md:37 calls what `seq` constructs the canonical right-associated
form.  `seq` does not flatten its arguments, and a sum to a scalar is a `Seq` itself,
so a program may begin with a `Seq` inside a `Seq`.  What it computes is right
(`ProgramComputesGraph`), so no run is spent on it.

Three things of which the documentation does not speak are named exceptions in the
properties: a load whose value only feeds an indirect index inside `masked` runs
for masked points too (`LoadsStayMasked` allows the declarations of index variables,
and no other); a read after a write through an alias gets the old value
(`Stale` in `ReturnsGraphOutputs`); a node without a rendering has an empty signature,
so the buffers it writes are named later without having been written (`Opaque`).

## Proofs

All theorems hold for every value of the constants: any number of children, captures,
operations, passes or exceptions.  They rest on the assumptions that the modules
declare about their constants, which every run of the module checks as well:

- `FusedRegion`: inputs and outputs are different buffers, full and row indices
  different keys, `None` is neither; the bounds are natural numbers;
- `FusionTrace`: captures, the unpatched function and `None` are different things;
  the bounds are natural numbers;
- `FusedExec`: the loops have at least one iteration, since Inductor makes no kernel
  for an empty output and a constant of an empty reduction; operations have values;
- `OpsHandler`: types are natural numbers, in the order of promotion, and `None` is not
  one of them;
- `OpsHandlerText`: operations of numbers give numbers, and `Fault` is none;
- `Accumulators`: extents are natural numbers, also none at all and zero; there is at
  least one integer, and loaded values fit; `BitXor` gives an integer that fits;
- `IndexMap`: extents are at least one, since Inductor makes no kernel and no buffer access
  for an empty shape; strides and offsets are natural numbers;
- `ScalarAST`: no two buffers have one name, and none has the name of a graph input or of
  an accumulator; ranges are sequences of natural numbers, zero included; an index is
  a sum of one product or more, a product has one factor or more;
- `PostLowering`: Inductor's names.  Buffers are `buf` and a number; no graph input is
  called like a buffer or an output; none is called as another would be with the
  suffix of seeds, whether a seed is read from an input or from a buffer.  Without the
  last, a seed `x` and an input `x_seed` would be one name in the printed text, which is
  what `load_seed` relies on not to happen.

| Module | Theorem | Property |
| --- | --- | --- |
| `FusedRegionProofs` | `TypeCorrect`, `ReadsAreSettled`, `PhasesFollowSchedule` | `TypeOK`, `ReadsSettled`, `PhaseFollowsSchedule` |
| `FusedRegionProofs` | `ForwardingIsLastStore`, `LoadsAreDefined` | `ForwardingMatchesStores`, `LoadsDefined` |
| `FusedRegionProofs` | `NamesDeclaredOnce` | `DeclaredOnce` |
| `FusedExecProofs` | `RegionIsItsChildren` | `RegionComputesSchedule` |
| `FusionTraceProofs` | `TraceTypeCorrect`, `PatchesAlwaysNest`, `PassStackFollowsCalls` | `TypeOK`, `PatchesNest`, `PassStackIsCallStack` |
| `FusionTraceProofs` | `TracingIsTransparent` | `Transparent`: `FusionTrace` implements `FusionHistory` |
| `FusionTraceProofs` | `RewritesRecordedOnce`, `PassesExplained` | `EveryRewriteOnce`, `PassesReplay` |
| `PostLoweringProofs` | `SignaturesCoverLoads`, `NamesAlwaysResolve`, `GraphOutputsReturned` | `SignaturesNameLoads`, `NamesResolve`, `ReturnsGraphOutputs` |
| `OpsHandlerProofs` | `TypesAreKept`, `TemporariesHaveTypes` | `TypesKept`, `DeclarationsTyped` |
| `OpsHandlerProofs` | `ValuesAreKept`, `MaskedLoadsStay` | `ValuesKept`, `LoadsStayMasked` |
| `AccumulatorsProofs` | `AccumulatorsAreRight`, `PointsAreSeparate` | `AccumulatesDefinition`, `EveryPointFromItsOwnValues` |
| `IndexMapProofs` | `PointsAreMetOnce`, `AccessesAreRight` | `EveryPointOnce`, `AccessDenotesAddress` |
| `ScalarASTProofs` | `RolesAreRight`, `ProgramIsRight` | `RolesMatchAccesses`, `ProgramComputesGraph` |

Every theorem goes through an inductive invariant, since none of the properties is one
by itself.  A step of its proof is a lemma about one action, or about what several
actions have in common.

The interpreters are recursive functions, never RECURSIVE operators, so that they can be
reasoned about.  The induction theorems of the library take an operator as a parameter,
which the provers cannot instantiate, so the proofs that need induction begin with the same facts
about sets: a set of numbers has a least element (`LeastNumber`, from the well-foundedness
of `<`), a set of sequences that is closed under `Append` has all of them
(`SequencesAreBuilt`), a recursion from 0 to n has exactly one solution (`Solves`).

### FusedRegion

`ReadsSettled` talks about emitted statements, and says nothing of the values
that the handler will hand to the next call.  `IInv` adds what is known of those:

- `ChildHolds`: a value that the child being replayed holds is available where its
  next statement will stand;
- `ForwardedHolds`: the values in `forwarded` are settled in the open phase;
- `ReductionHolds`: a value in `forwarded_reductions` is an accumulator that is
  either exported by an earlier section or belongs to a loop still open, and then
  its buffer is in `notReady`, so that the schedule does not let anyone read it;
- `EmptyUntilOpened`: a phase without a child has no statements, so that changing
  its kind loses nothing.

Most actions only append to the open block, so the lemmas about `BodyReads`, `Given`
and `GivenBefore` of a concatenation carry the argument; the end of a phase turns
what the phase has given into what its section exports.

`MemoryInv` adds to `IInv` what ties emitted stores to what the schedule knows, because
`load` is legal by the schedule while the properties speak of statements: a child's
output is unwritten until its last call (`UnwrittenUntilStored`), stores are never left
among the bindings (`BindingsWriteNothing`), and what counts as written is in the open
block or in a closed section, or among the finalizers while nobody may read it
(`StoresPlaced`).

`NamesInv` adds that a name is a family and a number below its counter, that loop
bodies and initializers use different families, and that pending bindings count as part
of the block they will be flushed into.

### FusedExec

Two runs whose orders have nothing in common are hard to compare, so the proof does not
compare them.  It speaks of an account instead: for each pointwise index, what each
local is worth in each iteration (`d`) and what each address holds in the end (`M`).  An
account is right about a statement if it gives the statement's local or address what the
operation makes of its operands, and about a call of a LoopBody likewise.  The proof
has two halves.

The handler keeps an account (`Accounted`): each action extends the one it finds to the
statements it emits and the call it answers, and leaves what it said before as it was
(`Agrees`).  This is where forwarding is justified, since a value in `forwarded` is what
memory holds in the end (`Forwards`), and so are scans, whose simultaneous update has to
agree with `Combined`, and reductions, whose accumulator is worth the child's `acc` in
every iteration (`Linked`).

Both runs follow the account.  A run of the region has in scope what the account gives
(`RegionFollows`), provided that its sections have the shape the handler gives them:
initializers before a loop, atomic writes before any other to their buffer, loads of what
an earlier section has written or of the iteration's own address (`ShapeInv`).  A run of the LoopBodies fills the
addresses of one child after the other (`BodiesFollow`), provided that a child loads what
its predecessors or its own iteration have written (`BodiesInv`).  `DoneWrites` closes the
gap: what a child has written, some section writes.  `ExecInv` is all of these together
with `MemoryInv` and `NamesInv`.  A region whose building has raised has no account, as
nothing is printed of it.

### FusionTrace

`TraceInv` says what the call stack looks like.  Whatever may be called was opened
(`CalleesOpened`); the wrappers of one call lie on top of each other, those of
`fuse_nodes_once` below its pass (`StackShape`); frames and the lists in `running`
correspond in order (`FramesKnown`); and what a call was checked for when it was made
still holds when it gets past the wrappers (`CallsAllowed`).  The last is what the
refinement needs: a pass begins in `FusionHistory` only when the unpatched function is
reached, several steps after the guard.

`WrapInv` adds which captures see a call: a call reaches the open captures from the
innermost outwards (`CallsInwardOut`), so that when it gets to the unpatched function
exactly the open captures have a wrapper of it on the stack, each once.  `RecordInv`
then relates every trace to `happened` at any moment, with the rewrite under way
missing exactly from the captures whose wrapper has not returned.  `ReplayInv` follows a
pass while it is open: its list in `running` is what its recorded steps lead to,
except for the rewrite that is being returned, and it is what `after` gets when the
wrappers of `fuse_nodes_once` return.

### PostLowering

`PrintInv` follows the program: the graph does not change once something is printed;
what is printed is closed under what it reads, in the graph's order because an operation
reads what is before it and in the scheduler's because of `Ready` (`PrintedInOrder`);
what is printed has a region that provides its buffer (`PrintedProvided`).
`SignaturesNameLoads` and `NamesResolve` are inductive relative to it.

`ValuesInv` follows the values.  The printed program reads inputs as they were, so
`GraphMeaning` compares the graph's values with what its operations make of those
(`Reading`), unless the graph is `Stale`; `MemoryMeaning` says that what has been run has
the graph's value, or none if a node has no rendering; `OutputsMeaning` says the same of
views.

### OpsHandler

`HandlerInv` says where the type of a value is to be found: a variable has exactly one
declaration, since names are numbers below their counter (`NamesCounted`); any other
expression has it under the id of an object that the value itself keeps alive, so that
no new object gets that id (`NewIdFree`).  Both have to hold of the values that callers of
`masked` have put aside, too (`Values`, `Variables`), as they are used again when it ends.
`TypedForTemporaries` says that values without a type exist only while temporaries are
off; `masked`, which may switch them on again, forgets all values of its body but one, and
`other` gives that one a type.

`TextInv` is about values.  Code that is replayed with temporaries on runs at every
point, since declarations do (`Nested`); a value means the same after any further
declaration, which takes the least text that would not (`Meant`); a new local has a name
that was not declared (`NamesCounted` again); and only the declaration of an index
variable may fault, which is how `LoadsStayMasked` gets into its own proof: a temporary
declared inside a mask would spoil the values outside.  The value of a text is a
recursive function of its parts, and a text is nested deeper than its operands.

### Accumulators

`AccumulatesDefinition` is nearly inductive: what is missing is that the nest is at its
first iteration exactly when nothing has been accumulated (`NestInv`), that inputs fit,
and that what is stored was the definition of something (`Stored`).  The work is in
one step, an update of the accumulators.  Welford's formulas become statements about the
number of values, their sum and the sum of their squares (`BySums`), which simply add up;
that the printed fractions are the ones of the definition, and not only equal to them,
holds because fractions in lowest terms are unique (`Same`).

### IndexMap

Coordinates are the digits of a flat index in a mixed radix, the sizes of the dimensions:
unflattening gives a point of these sizes (`UnflattenIs`), and the next number gives a
later point (`UnflattenBefore`).  `WalkInv` says that the flat index of the loop variables is
the number of iterations so far, and that what was recorded at an iteration are the
child's digits of that number.  For this `MapChild` has to be the unflattening in the
child's own sizes (`MapChildIs`), also where `Split` has handed them out to the two groups.
`SplitInv` follows the splitting one size at a time: the sizes taken and what remains make
up each group (`Kept`), they multiply up to the child's sizes so far, and each of those is
one of them, in the same place, or two neighbours (`Got`), whose digits merge.

A dense layout orders its dimensions.  A contiguous one does so from the last to the first,
any other by strides (`Ordered`, with a key for each dimension): the stride of a dimension
is the product of the sizes that come before it.  Taking the dimensions in that order, the
coordinates that were decoded so far address the remainder of the flat index by the
product of their sizes (`Decomposed`), and in the end that is the whole index.  Dimensions of
one element have any stride and the coordinate 0, so they add nothing.

### ScalarAST

`StatementsAreRight` says of every statement built so far that its operation reads what was
available (`Converted`), that its stores can be accounted for (`Writes`), and that it computes
its operation (`Computes`).  Nothing that is built later changes any of the three, since a role
depends on names and outputs alone; so the work is in one step, and in `Build`.

Values and stores are recursive along paths.  A path has finitely many nodes below it, so there
is exactly one function with the right values, and the tree that a constructor builds has the value
made of its operands' (`HasValue`, `HasStores`, `HasWritten`).  From then on statements
are compared by what they make of a memory (`Takes`): a store changes one cell,
a sequence goes through the memory in between, and a nest goes through
one memory for each point of its ranges, the last dimension innermost (`TakesNest`).  At each
point the loop variables are the digits of its number (`At`), which are the coordinates that
`Point` divides out of it (`AtPoint`, `CoordinatesAt`).  An index that was folded into nodes has
the value of the sum of products it was folded from (`FoldValue`, `IndexValue`), so a store
goes to the cell of its point, and a load comes from the cell the operation reads
(`AddressValues`).  Since no two points have one cell, what is stored at a point stays there:
after any number of points a nest has filled the cells of these points and no
others (`FillsOut`), and at the end it has done what the graph's operation does (`FillsOutMeans`).
So does a reduction, whose inner nest adds to its accumulator from zero on.

`Represents` relates a memory of the program to one of the graph: a buffer holds the same under
its role as under its name.  What an accumulator holds does not matter, because it is cleared before
it is used; that its name is no buffer's does.  `seq` is built from the back, so the program is
followed in the same direction: the rest of the program takes a memory that represents the
graph's after the first operations to one that represents it at the end.

`RolesMatchAccesses` does not run the program.  The stores of each statement are listed in program
order (`WritesFrom`), and each loads inputs, buffers of earlier operations, or what was stored
before it in the same statement.

### Only checked by TLC

- `WatchingEnds`: liveness is out of the proof system's reach;
- `MisreadExactlyWhenListed` of `Render`: printing and reading are RECURSIVE operators over
  nested terms, which the proof system does not handle, and a parser that is a function of
  positions in a text would be another model than the grammar it stands for.

## Not modelled

- symbolic sizes and strides: `IndexMap` has numbers, and `FusedRegion` takes the
  keys under which loads and stores are forwarded as given;
- `deduce_output_dtype_by_name` and `promote_types` are torch's; `OpsHandler` has
  ordered types, of which an operation takes the greatest of its operands;
- layout and wording of the text: `_Renderer`, `format_fusion_trace`, `to_sexpr`; they
  keep no state and decide nothing that the AST has not decided;
- `lowering.py`, `__init__.py`, the tests: no state of their own;
- aliasing between buffers of different names, which only Inductor knows;
- a local and a graph input of one name in the printed text: the AST tells them apart.

## Plan

Done, in this order: `FusedRegion`, `FusedExec`, `FusedRegionProofs`,
`FusionHistory` with `FusionTrace`, `Render`, `Accumulators`, `ScalarAST`,
`IndexMap`, fairness of `FusionTrace`, `OpsHandler`, `PostLowering`; the theorems
about memory and names of `FusedRegion`, about `FusionTrace` and its refinement, about
`PostLowering`, and about the types of `OpsHandler`; then those about what printed text
computes, of `OpsHandlerText`, `Accumulators` and `FusedExec`, and about `IndexMap`.

The last were those about `ScalarAST`, once its nodes had become trees.

What is left is `Render`: `MisreadExactlyWhenListed` for expressions of every depth would need
terms as trees, and a relation between a token sequence and the terms it can be read as in
place of `Read`.
