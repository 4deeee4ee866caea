----------------------------- MODULE FusedRegion -----------------------------
(***************************************************************************)
(* Building one fused region (pretty_print_loop/fused_scheduler.py).       *)
(*                                                                         *)
(* build_fused_node_loop_ir asks the backend for a node schedule: child    *)
(* nodes separated by the markers DisableReduction and EnableReduction.    *)
(* _split_phases cuts it into phases, and every child of a phase replays   *)
(* its LoopBody against one _FusedLogicalOpsHandler, which emits           *)
(* statements, forwards stored values to later loads, and keeps the        *)
(* initializers and finalizers of reductions.  A phase becomes a section   *)
(* of the region: a loop over the reduction domain between its             *)
(* initializers and its finalizers, or straight-line statements.           *)
(*                                                                         *)
(* The schedule and the LoopBodies belong to Inductor, not to this         *)
(* repository: they are the environment here, one action per call made to  *)
(* the handler.  Phases depend only on the entries before them, so this    *)
(* module consumes the schedule while _split_phases produces it.           *)
(***************************************************************************)
EXTENDS Naturals, Sequences

CONSTANTS
    Inputs,      \* buffers that exist before the region
    Outputs,     \* buffers the region's children write, one per child
    FullIdx,     \* index keys over pointwise and reduction variables
    RowIdx,      \* index keys over pointwise variables only
    None,        \* "no value"
    MaxOps,      \* bound: loads and computed values per child
    MaxArgs,     \* bound: operands of one computed value
    MaxStates,   \* bound: scan states carried by one scan
    MaxMarkers   \* bound: schedule markers

Buf == Inputs \cup Outputs
Idx == FullIdx \cup RowIdx

(* _key(name, index): several keys may denote one address, since keys are  *)
(* only as equal as simplify and expand make them.                         *)
Key == Buf \X Idx

(* Local scalars, by family and number: tmpN, acc_N, scan_N, next_N.  One  *)
(* acc stands for the three locals of a Welford reduction.                 *)
Var == {"tmp", "acc", "scan", "next"} \X Nat

ASSUME NamesAssumption ==
    /\ Inputs \cap Outputs = {}
    /\ FullIdx \cap RowIdx = {}
    /\ None \notin Var \cup Buf \cup Idx

ASSUME BoundsAssumption ==
    /\ MaxOps \in Nat
    /\ MaxArgs \in Nat
    /\ MaxStates \in Nat
    /\ MaxMarkers \in Nat

(* Statements of the loop IR, told apart by what they read and write:      *)
(* load/calc/combine/pick declare dst; update and move write an existing   *)
(* local; store and atomic write memory; init declares an accumulator with *)
(* its identity, uninit declares a scan state without an initializer.      *)
Op == {"load", "calc", "combine", "pick", "update", "move", "store",
       "atomic", "init", "uninit"}

Stmt == [op: Op, dst: Var \cup {None}, buf: Buf \cup {None},
         idx: Idx \cup {None}, args: Seq(Var)]

Local(op, dst, args) ==
    [op |-> op, dst |-> dst, buf |-> None, idx |-> None, args |-> args]

LoadOf(dst, b, k) ==
    [op |-> "load", dst |-> dst, buf |-> b, idx |-> k, args |-> <<>>]

StoreTo(op, b, k, v) ==
    [op |-> op, dst |-> None, buf |-> b, idx |-> k, args |-> <<v>>]

Section == [loop: BOOLEAN, inits: Seq(Stmt), body: Seq(Stmt),
            fins: Seq(Stmt)]

VARIABLES
    \* the schedule (external)
    hasRed,    \* reduction_numel != 1
    enabled,   \* the last marker seen left the reduction loop open
    notReady,  \* buffers reduced since the last marker
    written,   \* how far each output is written, and over which domain
    markers,   \* markers seen, to bound them
    child,     \* the LoopBody being replayed
    \* _split_phases and build_fused_node_loop_ir
    active,    \* reduction_active of the open phase
    opened,    \* the open phase has a child
    outer,     \* outer_statements, by section
    status,
    \* _FusedLogicalOpsHandler
    block, bindings, inits, fins, fwd, fwdRed, count, reads

schedule == <<hasRed, enabled, notReady, written, markers>>
builder  == <<active, opened, outer, status>>
phase    == <<block, bindings, inits, fins>>
handler  == <<phase, fwd, fwdRed, count, reads>>
vars     == <<schedule, child, builder, handler>>

-----------------------------------------------------------------------------
(* What the schedule guarantees (SIMDScheduling.generate_node_schedule).   *)

InLoop == hasRed /\ enabled

(* A child reads a buffer of the region at the address its producer wrote; *)
(* a reduced value is read only once a marker has ended its loop; readers  *)
(* of an indirect (atomic) write are never fused with it.                  *)
Readable(b, k) ==
    \/ b \in Inputs /\ (k \in RowIdx \/ InLoop)
    \/ b \in Outputs /\ written[b] = "full" /\ k \in FullIdx /\ InLoop
    \/ b \in Outputs /\ written[b] = "row" /\ k \in RowIdx /\ b \notin notReady

Idle == [out |-> None, vals |-> <<>>, ops |-> 0, mode |-> "idle"]

-----------------------------------------------------------------------------
(* The handler.                                                            *)

(* flush_bindings: what the current block becomes. *)
Flushed == block \o bindings

\* mutant: numbers a temporary by its position among the pending bindings
NextTempByPosition == <<"tmp", Len(bindings)>>

(* _bind: a new temporary holding the expression. *)
NextTemp == <<"tmp", count.tmp>>

(* load consults forwarded, then forwarded_reductions. *)
Forwarded(key) == IF fwd[key] # None THEN fwd[key] ELSE fwdRed[key]

\* mutant: treats every output as local to the region
MaterializedNothing == {}

(* Every output of every child is stored to memory. *)
Materialized == Outputs

\* mutant: start_phase keeps the values of the previous phase
ForwardedKept == fwd

(* forwarded after start_phase: cleared.  forwarded_reductions is kept. *)
ForwardedAtPhaseStart == [key \in Key |-> None]

(* The handler method that LoopBody calls, then the value it hands back.   *)
Returns(v) ==
    child' = [child EXCEPT !.vals = Append(@, v), !.ops = @ + 1]

LoadForwarded(b, k) ==
    /\ child.mode \in {"body", "scanned"}
    /\ child.ops < MaxOps
    /\ Readable(b, k)
    /\ Forwarded(<<b, k>>) # None
    /\ Returns(Forwarded(<<b, k>>))
    /\ UNCHANGED <<schedule, builder, handler>>

\* mutant: records the key of the access in reads, not the buffer's name
LoadMemoryByKey(b, k) ==
    /\ child.mode \in {"body", "scanned"}
    /\ child.ops < MaxOps
    /\ Readable(b, k)
    /\ Forwarded(<<b, k>>) = None
    /\ reads' = reads \cup {<<b, k>>}
    /\ bindings' = Append(bindings, LoadOf(NextTemp, b, k))
    /\ count' = [count EXCEPT !.tmp = @ + 1]
    /\ Returns(NextTemp)
    /\ UNCHANGED <<schedule, builder, block, inits, fins, fwd, fwdRed>>

LoadMemory(b, k) ==
    /\ child.mode \in {"body", "scanned"}
    /\ child.ops < MaxOps
    /\ Readable(b, k)
    /\ Forwarded(<<b, k>>) = None
    /\ reads' = reads \cup {b}
    /\ bindings' = Append(bindings, LoadOf(NextTemp, b, k))
    /\ count' = [count EXCEPT !.tmp = @ + 1]
    /\ Returns(NextTemp)
    /\ UNCHANGED <<schedule, builder, block, inits, fins, fwd, fwdRed>>

(* constant and every scalar operation: _default, where, to_dtype, ... *)
Operands(is) == [a \in DOMAIN is |-> child.vals[is[a]]]

Compute(is) ==
    /\ child.mode \in {"body", "scanned"}
    /\ child.ops < MaxOps
    /\ bindings' = Append(bindings, Local("calc", NextTemp, Operands(is)))
    /\ count' = [count EXCEPT !.tmp = @ + 1]
    /\ Returns(NextTemp)
    /\ UNCHANGED <<schedule, builder, block, inits, fins, fwd, fwdRed, reads>>

(* store: flush, record the value for later loads, emit the write. *)
StoreStmts(op, b, k, v) ==
    IF op = "atomic" \/ b \in Materialized
    THEN <<StoreTo(op, b, k, v)>>
    ELSE <<>>

\* mutant: forwards by buffer name, whatever the index
ForwardedByName(b, k, v) == [key \in Key |-> IF key[1] = b THEN v ELSE fwd[key]]

ForwardedBy(b, k, v) == [fwd EXCEPT ![<<b, k>>] = v]

Store(i, k, op) ==
    /\ child.mode \in {"body", "scanned"}
    /\ k \in IF InLoop THEN FullIdx ELSE RowIdx
    /\ block' = Flushed \o StoreStmts(op, child.out, k, child.vals[i])
    /\ bindings' = <<>>
    /\ fwd' = ForwardedBy(child.out, k, child.vals[i])
    /\ written' = [written EXCEPT ![child.out] =
                      IF op = "atomic" THEN "scatter"
                      ELSE IF InLoop THEN "full" ELSE "row"]
    /\ child' = Idle
    /\ UNCHANGED <<hasRed, enabled, notReady, markers, builder, inits, fins,
                   fwdRed, count, reads>>

(* reduction: the accumulator is declared before the loop and updated in   *)
(* it.                                                                     *)
Reduction(i) ==
    LET acc == <<"acc", count.acc>> IN
    /\ child.mode = "body"
    /\ InLoop
    /\ inits' = Append(inits, Local("init", acc, <<>>))
    /\ block' = Append(Flushed, Local("update", acc, <<child.vals[i]>>))
    /\ bindings' = <<>>
    /\ count' = [count EXCEPT !.acc = @ + 1]
    /\ child' = [child EXCEPT !.vals = <<acc>>, !.mode = "reduced"]
    /\ UNCHANGED <<schedule, builder, fins, fwd, fwdRed, reads>>

(* store_reduction: the write goes after the loop. *)
ReductionForwardedBy(b, k, v) == [fwdRed EXCEPT ![<<b, k>>] = v]

StoreReduction(k) ==
    /\ child.mode = "reduced"
    /\ k \in RowIdx
    /\ block' = Flushed
    /\ bindings' = <<>>
    /\ fwdRed' = ReductionForwardedBy(child.out, k, child.vals[1])
    /\ fins' = fins \o StoreStmts("store", child.out, k, child.vals[1])
    /\ written' = [written EXCEPT ![child.out] = "row"]
    /\ notReady' = notReady \cup {child.out}
    /\ child' = Idle
    /\ UNCHANGED <<hasRed, enabled, markers, builder, inits, fwd, count, reads>>

(* _build_scan_update for the states scan_first ...: combine_fn computes   *)
(* one value per state from all states and all inputs; every next_ is      *)
(* selected before any state is assigned.                                  *)
ScanUpdate(values) ==
    LET n == Len(values)
        state(j) == <<"scan", count.scan + j - 1>>
        next(j)  == <<"next", count.scan + j - 1>>
        temp(j)  == <<"tmp", count.tmp + j - 1>>
        states   == [j \in 1..n |-> state(j)]
    IN  [states   |-> states,
         inits    |-> [j \in 1..n |-> Local("uninit", state(j), <<>>)],
         combines |-> [j \in 1..n |->
                         Local("combine", temp(j),
                               <<state(j), values[j]>> \o states \o values)],
         picks    |-> [j \in 1..n |->
                         Local("pick", next(j), <<values[j], temp(j)>>)],
         moves    |-> [j \in 1..n |-> Local("move", state(j), <<next(j)>>)]]

\* mutant: finishes one state before it combines the next
ScanStmtsOneByOne(update) ==
    [i \in 1..(3 * Len(update.moves)) |->
        LET j == (i + 2) \div 3 IN
        CASE i % 3 = 1 -> update.combines[j]
          [] i % 3 = 2 -> update.picks[j]
          [] OTHER     -> update.moves[j]]

ScanStmts(update) == update.combines \o update.picks \o update.moves

Scan(is) ==
    LET update == ScanUpdate(Operands(is)) IN
    /\ child.mode = "body"
    /\ InLoop
    /\ inits' = inits \o update.inits
    /\ block' = Flushed \o ScanStmts(update)
    /\ bindings' = <<>>
    /\ count' = [count EXCEPT !.tmp = @ + Len(is), !.scan = @ + Len(is)]
    /\ child' = [child EXCEPT !.vals = @ \o update.states, !.mode = "scanned"]
    /\ UNCHANGED <<schedule, builder, fins, fwd, fwdRed, reads>>

-----------------------------------------------------------------------------
(* The phases.                                                             *)

(* How a finished phase enters outer_statements. *)
PhaseSection ==
    IF active /\ hasRed
    THEN [loop |-> TRUE, inits |-> inits, body |-> Flushed, fins |-> fins]
    ELSE [loop |-> FALSE, inits |-> <<>>, body |-> Flushed, fins |-> <<>>]

\* mutant: does not split a phase that holds a reduction
EntersNewPhaseIfPlain == opened /\ inits = <<>>

(* A marker closes the open phase only if that phase has a child. *)
EntersNewPhase == opened

\* mutant: a marker on an empty phase leaves its reduction_active alone
NextPhaseOnlyIfOpened(reductionActive) ==
    IF EntersNewPhase
    THEN /\ active' = reductionActive
         /\ outer' = Append(outer, PhaseSection)
         /\ opened' = FALSE
         /\ block' = <<>>
         /\ bindings' = <<>>
         /\ inits' = <<>>
         /\ fins' = <<>>
         /\ fwd' = ForwardedAtPhaseStart
    ELSE UNCHANGED <<active, opened, outer, phase, fwd>>

NextPhase(reductionActive) ==
    /\ active' = reductionActive
    /\ IF EntersNewPhase
       THEN /\ outer' = Append(outer, PhaseSection)
            /\ opened' = FALSE
            /\ block' = <<>>
            /\ bindings' = <<>>
            /\ inits' = <<>>
            /\ fins' = <<>>
            /\ fwd' = ForwardedAtPhaseStart
       ELSE UNCHANGED <<opened, outer, phase, fwd>>

Marker ==
    /\ status = "building"
    /\ child = Idle
    /\ hasRed
    /\ markers < MaxMarkers
    /\ markers' = markers + 1
    /\ notReady' = {}
    /\ UNCHANGED <<hasRed, written, child, status, fwdRed, count, reads>>

DisableReduction ==
    /\ enabled
    /\ enabled' = FALSE
    /\ Marker
    /\ NextPhase(FALSE)

EnableReduction ==
    /\ ~enabled
    /\ enabled' = TRUE
    /\ Marker
    /\ NextPhase(TRUE)

StartChild(o) ==
    /\ status = "building"
    /\ child = Idle
    /\ written[o] = "no"
    /\ opened' = TRUE
    /\ child' = [Idle EXCEPT !.out = o, !.mode = "body"]
    /\ UNCHANGED <<schedule, active, outer, status, handler>>

(* The last phase closes, unless it is empty, and the region is returned. *)
Finish ==
    /\ status = "building"
    /\ child = Idle
    /\ opened \/ outer # <<>>
    /\ outer' = IF opened THEN Append(outer, PhaseSection) ELSE outer
    /\ status' = "done"
    /\ UNCHANGED <<schedule, child, active, opened, handler>>

(* An exception ends the LoopBody and leaves the builder. *)
Fails == child' = Idle /\ status' = "failed"

(* A method raises before it has changed anything. *)
Raise ==
    /\ child # Idle
    /\ Fails
    /\ UNCHANGED <<schedule, active, opened, outer, handler>>

(* reduction raises when a Welford contribution does not fit its type,     *)
(* between the initializers and the update.                                *)
RaiseInReduction(i) ==
    /\ child.mode = "body"
    /\ InLoop
    /\ inits' = Append(inits, Local("init", <<"acc", count.acc>>, <<>>))
    /\ block' = Flushed
    /\ bindings' = <<>>
    /\ count' = [count EXCEPT !.acc = @ + 1]
    /\ Fails
    /\ UNCHANGED <<schedule, active, opened, outer, fins, fwd, fwdRed, reads>>

Stopped == status \in {"done", "failed"} /\ UNCHANGED vars

-----------------------------------------------------------------------------
Init ==
    /\ hasRed \in BOOLEAN
    /\ enabled = TRUE
    /\ notReady = {}
    /\ written = [o \in Outputs |-> "no"]
    /\ markers = 0
    /\ child = Idle
    /\ active = hasRed
    /\ opened = FALSE
    /\ outer = <<>>
    /\ status = "building"
    /\ block = <<>>
    /\ bindings = <<>>
    /\ inits = <<>>
    /\ fins = <<>>
    /\ fwd = [key \in Key |-> None]
    /\ fwdRed = [key \in Key |-> None]
    /\ count = [tmp |-> 0, acc |-> 0, scan |-> 0]
    /\ reads = {}

Positions(n) == UNION {[1..m -> DOMAIN child.vals] : m \in 0..n}

Next ==
    \/ \E o \in Outputs : StartChild(o)
    \/ \E b \in Buf, k \in Idx : LoadForwarded(b, k)
    \/ \E b \in Buf, k \in Idx : LoadMemory(b, k)
    \/ \E is \in Positions(MaxArgs) : Compute(is)
    \/ \E i \in DOMAIN child.vals, k \in Idx, op \in {"store", "atomic"} :
          Store(i, k, op)
    \/ \E i \in DOMAIN child.vals : Reduction(i)
    \/ \E k \in RowIdx : StoreReduction(k)
    \/ \E is \in Positions(MaxStates) : is # <<>> /\ Scan(is)
    \/ DisableReduction
    \/ EnableReduction
    \/ Finish
    \/ Raise
    \/ \E i \in DOMAIN child.vals : RaiseInReduction(i)
    \/ Stopped

Spec == Init /\ [][Next]_vars

-----------------------------------------------------------------------------
(* Properties.                                                             *)

(* A LoopBody being replayed has an output; after its reduction it holds   *)
(* the accumulator.                                                        *)
ChildOK ==
    /\ child \in [out: Outputs \cup {None}, vals: Seq(Var), ops: Nat,
                  mode: {"idle", "body", "scanned", "reduced"}]
    /\ child.mode = "idle" <=> child.out = None
    /\ child.mode = "reduced" => child.vals # <<>>

(* The type invariant of the builder and the handler. *)
TypeOK ==
    /\ hasRed \in BOOLEAN /\ enabled \in BOOLEAN
    /\ notReady \subseteq Outputs
    /\ written \in [Outputs -> {"no", "full", "row", "scatter"}]
    /\ markers \in Nat
    /\ ChildOK
    /\ active \in BOOLEAN /\ opened \in BOOLEAN
    /\ outer \in Seq(Section)
    /\ status \in {"building", "done", "failed"}
    /\ block \in Seq(Stmt) /\ bindings \in Seq(Stmt)
    /\ inits \in Seq(Stmt) /\ fins \in Seq(Stmt)
    /\ fwd \in [Key -> Var \cup {None}]
    /\ fwdRed \in [Key -> Var \cup {None}]
    /\ count \in [tmp: Nat, acc: Nat, scan: Nat]
    /\ reads \subseteq Buf

(* The locals whose value of the current iteration is settled once seq has *)
(* run: declared with a value, or a scan state that has been assigned.     *)
Gives(s) == s.op \in {"load", "calc", "combine", "pick", "move"}
Given(seq) == {seq[i].dst : i \in {j \in DOMAIN seq : Gives(seq[j])}}
GivenBefore(seq, i) ==
    {seq[j].dst : j \in {h \in DOMAIN seq : h < i /\ Gives(seq[h])}}

Declares(seq, op) ==
    {seq[i].dst : i \in {j \in DOMAIN seq : seq[j].op = op}}

ArgsOf(s) == {s.args[a] : a \in DOMAIN s.args}

(* Every statement names only locals of base, locals given before it, and, *)
(* in a combine, the scan states of this loop; updates and moves write     *)
(* locals this loop's initializers declare.                                *)
BodyReads(seq, ini, base) ==
    \A i \in DOMAIN seq :
        /\ ArgsOf(seq[i]) \subseteq
              base \cup GivenBefore(seq, i)
                   \cup (IF seq[i].op = "combine"
                         THEN Declares(ini, "uninit") ELSE {})
        /\ seq[i].op = "update" => seq[i].dst \in Declares(ini, "init")
        /\ seq[i].op = "move" => seq[i].dst \in Declares(ini, "uninit")

FinReads(seq, ini, base) ==
    \A i \in DOMAIN seq : ArgsOf(seq[i]) \subseteq base \cup Declares(ini, "init")

(* What a later section may name: finished accumulators, and the locals of *)
(* a straight-line section.  Temporaries and scan states stay in the loop. *)
Exports(sec) == IF sec.loop THEN Declares(sec.inits, "init") ELSE Given(sec.body)
ExportsBefore(secs, n) ==
    {v \in Var : \E m \in DOMAIN secs : m < n /\ v \in Exports(secs[m])}
Exported == ExportsBefore(outer, Len(outer) + 1)

SectionsSettled(secs) ==
    \A n \in DOMAIN secs :
        /\ BodyReads(secs[n].body, secs[n].inits, ExportsBefore(secs, n))
        /\ FinReads(secs[n].fins, secs[n].inits, ExportsBefore(secs, n))

PhaseSettled ==
    /\ BodyReads(Flushed, inits, Exported)
    /\ FinReads(fins, inits, Exported)

(* Scoping and finality.  No statement of the region reads a local before  *)
(* it has its value: temporaries do not leave their loop, a scan state is  *)
(* read only by its own combine or after its assignment, and an            *)
(* accumulator is read only after the loop that fills it, so that          *)
(* forwarding never hands out a partial reduction (start_phase, load,      *)
(* store, store_reduction and the phase loop together).                    *)
ReadsSettled == SectionsSettled(outer) /\ PhaseSettled

(* The open phase agrees with the schedule: it is a loop exactly while the *)
(* markers leave the reduction loop open, however empty phases are skipped *)
(* by _split_phases.  A reduction or scan outside of it would lose its     *)
(* initializers and finalizers.                                            *)
PhaseFollowsSchedule ==
    /\ active = InLoop
    /\ ~active => inits = <<>> /\ fins = <<>>

(* Loads and stores in the order the program runs them, per section. *)
WritesOf(seq, b) == {i \in DOMAIN seq : seq[i].buf = b /\ seq[i].op \in {"store", "atomic"}}
SectionWrites(sec, b) == WritesOf(sec.body, b) # {} \/ WritesOf(sec.fins, b) # {}

RegionInputs == reads \ Outputs

(* The printed signature and the body agree.  A statement that loads from  *)
(* memory loads an input of the region, or a buffer that the region has    *)
(* already written: earlier in the same iteration, or in an earlier        *)
(* section.  The region's inputs are all among the graph's inputs.         *)
LoadsDefined ==
    LET defined(seq, n) ==
            \A i \in DOMAIN seq :
                seq[i].op = "load" =>
                    \/ seq[i].buf \in RegionInputs \cap Inputs
                    \/ \E j \in WritesOf(seq, seq[i].buf) : j < i
                    \/ \E m \in DOMAIN outer : m < n /\ SectionWrites(outer[m], seq[i].buf)
    IN  /\ \A n \in DOMAIN outer : defined(outer[n].body, n)
        /\ defined(Flushed, Len(outer) + 1)

(* A forwarded value is the last one stored: for every entry of forwarded  *)
(* there is a store of that value in the open phase and no later store to  *)
(* the buffer; for every entry of forwarded_reductions there is a          *)
(* finalizer that stores it, in the open phase or in an earlier loop.      *)
ForwardingMatchesStores ==
    /\ \A key \in Key : fwd[key] # None =>
         \E i \in WritesOf(block, key[1]) :
            /\ block[i].idx = key[2]
            /\ block[i].args = <<fwd[key]>>
            /\ \A j \in WritesOf(block, key[1]) : j <= i
    /\ \A key \in Key : fwdRed[key] # None =>
         LET finalized(seq) == \E i \in WritesOf(seq, key[1]) :
                                 seq[i].idx = key[2] /\ seq[i].args = <<fwdRed[key]>>
         IN  \/ finalized(fins)
             \/ \E m \in DOMAIN outer : finalized(outer[m].fins)

(* Names are unique: no local is declared twice in the region, in one      *)
(* phase or in two, by one LoopBody or by several.                         *)
Region == IF status = "done" THEN outer ELSE Append(outer, PhaseSection)
Declarations(sec) == sec.inits \o sec.body
Declaring(s) == s.op \in {"load", "calc", "combine", "pick", "init", "uninit"}

DeclaredOnce ==
    \A n, m \in DOMAIN Region :
        LET s == Declarations(Region[n])
            t == Declarations(Region[m])
        IN  \A i \in DOMAIN s, j \in DOMAIN t :
                /\ Declaring(s[i]) /\ Declaring(t[j])
                /\ s[i].dst = t[j].dst
                => <<n, i>> = <<m, j>>
=============================================================================
