------------------------------ MODULE FusedExec ------------------------------
(***************************************************************************)
(* What a fused region means.  FusedRegion builds the statements; this     *)
(* module keeps the LoopBodies that were replayed, runs both on a small    *)
(* iteration space, and compares the memory they leave:                    *)
(*                                                                         *)
(*   - the reference runs the LoopBodies one after another, each over its  *)
(*     whole iteration space, every load from memory;                      *)
(*   - the region runs all of its sections for each pointwise index, as    *)
(*     the nest of _make_loop_nest prescribes.                             *)
(*                                                                         *)
(* Mix stands for whatever the operations compute: when the two agree for  *)
(* every Mix, the data flow is the same.                                   *)
(***************************************************************************)
EXTENDS FusedRegion

CONSTANTS
    PointwiseSize,   \* extent of the pointwise variable
    ReductionSize,   \* extent of the reduction variable
    Value,           \* what locals and memory hold
    Unit,            \* the identity of a reduction
    Undef,           \* the value of an unset local, or one out of scope
    Mix(_, _),       \* what an operation computes of its operands, one by one
    Add(_, _),       \* what an atomic write leaves
    InitialMemory    \* the memory before the region

Points == 0..(PointwiseSize - 1)
Rs == 0..(ReductionSize - 1)

(* Inductor makes no reduction of no elements (it makes the identity, as a *)
(* pointwise operation), and no kernel for an empty output.                *)
ASSUME SizesAssumption == PointwiseSize \in Nat \ {0} /\ ReductionSize \in Nat \ {0}
ASSUME ValuesAssumption ==
    /\ {Unit, Undef} \subseteq Value
    /\ \A x, y \in Value : Mix(x, y) \in Value /\ Add(x, y) \in Value
    /\ InitialMemory \in [Buf \X Points \X Rs -> Value]

VARIABLE bodies      \* the LoopBodies replayed: [inLoop, out, calls]

execVars == <<vars, bodies>>

-----------------------------------------------------------------------------
(* Recording the calls a LoopBody makes (external). *)

Call(op, b, k, is) == [op |-> op, buf |-> b, idx |-> k, is |-> is]

Records(call) ==
    bodies' = [bodies EXCEPT ![Len(bodies)].calls = Append(@, call)]

ExecInit == Init /\ bodies = <<>>

ExecNext ==
    \/ \E o \in Outputs :
          /\ StartChild(o)
          /\ bodies' = Append(bodies, [inLoop |-> InLoop, out |-> o, calls |-> <<>>])
    \/ \E b \in Buf, k \in Idx :
          /\ LoadForwarded(b, k) \/ LoadMemory(b, k)
          /\ Records(Call("load", b, k, <<>>))
    \/ \E is \in Positions(MaxArgs) :
          Compute(is) /\ Records(Call("compute", None, None, is))
    \/ \E i \in DOMAIN child.vals, k \in Idx, op \in {"store", "atomic"} :
          Store(i, k, op) /\ Records(Call(op, child.out, k, <<i>>))
    \/ \E i \in DOMAIN child.vals :
          Reduction(i) /\ Records(Call("reduction", None, None, <<i>>))
    \/ \E k \in RowIdx :
          StoreReduction(k) /\ Records(Call("store_reduction", child.out, k, <<>>))
    \/ \E is \in Positions(MaxStates) :
          is # <<>> /\ Scan(is) /\ Records(Call("scan", None, None, is))
    \/ /\ \/ DisableReduction \/ EnableReduction \/ Finish \/ Raise \/ Stopped
          \/ \E i \in DOMAIN child.vals : RaiseInReduction(i)
       /\ UNCHANGED bodies

ExecSpec == ExecInit /\ [][ExecNext]_execVars

-----------------------------------------------------------------------------
(* Values and memory. *)

(* op(... op(op(from, 1), 2) ..., n), ascending as _make_loop_nest runs it. *)
Repeat(op(_, _), from, n) ==
    LET after[k \in 0..n] == IF k = 0 THEN from ELSE op(after[k - 1], k)
    IN  after[n]

MixAll(xs) == LET mix(y, a) == Mix(y, xs[a]) IN Repeat(mix, Unit, Len(xs))

Place(k, r) == IF k \in FullIdx THEN r ELSE 0
Address(b, k, p, r) == <<b, p, Place(k, r)>>

-----------------------------------------------------------------------------
(* The region: state is the memory and the locals in scope. *)

ValueOf(env, v) == IF v \in DOMAIN env THEN env[v] ELSE Undef
Values(env, args) == [a \in DOMAIN args |-> ValueOf(env, args[a])]

Bind(env, v, x) == [w \in DOMAIN env \cup {v} |-> IF w = v THEN x ELSE env[w]]
RestrictTo(env, scope) == [v \in DOMAIN env \cap scope |-> env[v]]

(* What s computes when its operands are xs, its local holds own, and its  *)
(* address stored.                                                         *)
Outcome(s, xs, own, stored, r) ==
    CASE s.op = "load" -> stored
      [] s.op \in {"calc", "combine"} -> MixAll(xs)
      [] s.op = "pick" -> IF r = 0 THEN xs[1] ELSE xs[2]
      [] s.op = "update" -> Mix(own, xs[1])
      [] s.op = "move" -> xs[1]
      [] s.op = "init" -> Unit
      [] s.op = "uninit" -> Undef
      [] s.op = "store" -> xs[1]
      [] s.op = "atomic" -> Add(stored, xs[1])

Run(st, s, p, r) ==
    LET at == Address(s.buf, s.idx, p, r)
        new == Outcome(s, Values(st.env, s.args), ValueOf(st.env, s.dst), st.mem[at], r)
    IN  IF s.op \in {"store", "atomic"}
        THEN [mem |-> [st.mem EXCEPT ![at] = new], env |-> st.env]
        ELSE [mem |-> st.mem, env |-> Bind(st.env, s.dst, new)]

RunAll(st, seq, p, r) ==
    LET run(now, i) == Run(now, seq[i], p, r) IN Repeat(run, st, Len(seq))

(* One iteration of a loop; scope is what was declared outside of it. *)
RunBlock(st, seq, scope, p, r) ==
    LET end == RunAll(st, seq, p, r)
    IN  [mem |-> end.mem, env |-> RestrictTo(end.env, scope)]

RunLoop(entered, seq, p) ==
    LET iteration(now, k) == RunBlock(now, seq, DOMAIN entered.env, p, k - 1)
    IN  Repeat(iteration, entered, ReductionSize)

RunSection(st, sec, p) ==
    IF ~sec.loop THEN RunAll(st, sec.body, p, 0)
    ELSE RunAll(RunLoop(RunAll(st, sec.inits, p, 0), sec.body, p), sec.fins, p, 0)

RunSections(mem, secs, p) ==
    LET run(now, n) == RunSection(now, secs[n], p)
    IN  Repeat(run, [mem |-> mem, env |-> <<>>], Len(secs)).mem

RunRegion ==
    LET nest(mem, k) == RunSections(mem, outer, k - 1)
    IN  Repeat(nest, InitialMemory, PointwiseSize)

-----------------------------------------------------------------------------
(* The reference: LoopBodies one at a time.  acc and states live across    *)
(* the iterations of one reduction loop, vals within one iteration.        *)

Chosen(xs, is) == [a \in DOMAIN is |-> xs[is[a]]]

(* A scan's new states: the first inputs, then what combine_fn makes of    *)
(* all the states and all the inputs.                                      *)
Combined(states, xs, r) ==
    [j \in DOMAIN xs |->
        IF r = 0 THEN xs[j] ELSE MixAll(<<states[j], xs[j]>> \o states \o xs)]

Step(st, call, p, r) ==
    LET xs == Chosen(st.vals, call.is)
        at == Address(call.buf, call.idx, p, r)
    IN
    CASE call.op = "load" -> [st EXCEPT !.vals = Append(@, st.mem[at])]
      [] call.op = "compute" -> [st EXCEPT !.vals = Append(@, MixAll(xs))]
      [] call.op = "store" -> [st EXCEPT !.mem[at] = xs[1]]
      [] call.op = "atomic" -> [st EXCEPT !.mem[at] = Add(@, xs[1])]
      [] call.op = "reduction" -> [st EXCEPT !.acc = Mix(@, xs[1])]
      [] call.op = "store_reduction" ->
            IF r = ReductionSize - 1 THEN [st EXCEPT !.mem[at] = st.acc] ELSE st
      [] call.op = "scan" ->
            [st EXCEPT !.states = Combined(st.states, xs, r),
                       !.vals = @ \o Combined(st.states, xs, r)]

RunCalls(st, calls, p, r) ==
    LET step(now, j) == Step(now, calls[j], p, r)
    IN  Repeat(step, [st EXCEPT !.vals = <<>>], Len(calls))

RunPoint(mem, body, p) ==
    LET iteration(now, k) == RunCalls(now, body.calls, p, k - 1)
    IN  Repeat(iteration, [mem |-> mem, vals |-> <<>>, acc |-> Unit, states |-> <<>>],
               IF body.inLoop THEN ReductionSize ELSE 1).mem

RunBody(mem, body) ==
    LET nest(now, k) == RunPoint(now, body, k - 1) IN Repeat(nest, mem, PointwiseSize)

RunBodies ==
    LET run(mem, n) == RunBody(mem, bodies[n]) IN Repeat(run, InitialMemory, Len(bodies))

-----------------------------------------------------------------------------
(* The fused region computes what its children compute: for every schedule *)
(* and every LoopBodies, running the emitted statements leaves in memory   *)
(* exactly what running the children unfused, one after another, leaves.   *)
(* Store forwarding, phase splitting, finalizers and scan updates together *)
(* (build_fused_node_loop_ir and the whole handler).                       *)
RegionComputesSchedule == status = "done" => RunRegion = RunBodies
=============================================================================
