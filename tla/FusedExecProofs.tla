--------------------------- MODULE FusedExecProofs ---------------------------
(***************************************************************************)
(* Proofs about FusedExec: running a finished region leaves in memory what *)
(* running its LoopBodies one after another leaves.                        *)
(*                                                                         *)
(* The argument compares no two runs.  An account of the region gives      *)
(* every local a value in every iteration and every address a final value, *)
(* such that each statement and each call is right about them; the handler *)
(* keeps such an account.  Then both runs follow it.                       *)
(***************************************************************************)
EXTENDS FusedExec, FusedRegionProofs

-----------------------------------------------------------------------------
(* Runs are sequences of states. *)

Mem == [Buf \X Points \X Rs -> Value]
Env == UNION {[D -> Value] : D \in SUBSET Var}
State == [mem : Mem, env : Env]

(* Statements and calls with all that their operation needs. *)
Proper(s) ==
    /\ s \in Stmt
    /\ s.op \in {"load", "store", "atomic"} => s.buf \in Buf /\ s.idx \in Idx
    /\ s.op \notin {"store", "atomic"} => s.dst \in Var
    /\ s.op = "pick" => Len(s.args) = 2
    /\ s.op \in {"update", "move", "store", "atomic"} => Len(s.args) = 1

(* The first turn, the first point and the last turn exist. *)
LEMMA Zero == 0 \in Rs /\ 0 \in Points /\ ReductionSize - 1 \in Rs
  BY SizesAssumption DEF Rs, Points

(* An index key names a place of the reduction dimension. *)
LEMMA PlaceIn ==
    ASSUME NEW r \in Rs, NEW k
    PROVE  Place(k, r) \in Rs
  BY Zero DEF Place

(* Folding operations over values gives a value. *)
LEMMA MixAllType ==
    ASSUME NEW xs \in Seq(Value)
    PROVE  MixAll(xs) \in Value
  <1>0. PICK n \in Nat : n = Len(xs) /\ \A k \in 1..n : xs[k] \in Value
    OBVIOUS
  <1> DEFINE F == [k \in 1..n |-> [x \in Value |-> Mix(x, xs[k])]]
             it == CHOOSE f : f = [k \in 0..n |-> IF k = 0 THEN Unit ELSE Mix(f[k - 1], xs[k])]
  <1>2. F \in [1..n -> [Value -> Value]] /\ Unit \in Value
    BY <1>0, ValuesAssumption
  <1>3. PICK f : Solves(f, F, Unit, n, Value)
    <2> HIDE DEF F, it
    <2> QED
      BY <1>2, RecursionExists
  <1>4. /\ f \in [0..n -> Value]
        /\ f = [k \in 0..n |-> IF k = 0 THEN Unit ELSE Mix(f[k - 1], xs[k])]
    BY <1>3 DEF Solves
  <1>5. it = [k \in 0..n |-> IF k = 0 THEN Unit ELSE Mix(it[k - 1], xs[k])]
    BY <1>4
  <1>6. MixAll(xs) = it[n]
    BY <1>0 DEF MixAll, Repeat
  <1>7. \A k \in 0..n : it[k] = f[k]
    <2> HIDE DEF it
    <2>1. it[0] = f[0]
      BY <1>4, <1>5
    <2>2. \A k \in 1..n : it[k - 1] = f[k - 1] => it[k] = f[k]
      BY <1>4, <1>5
    <2> QED
      BY <2>1, <2>2, RecursionUnique, SMTT(60)
  <1> QED
    BY <1>4, <1>6, <1>7

(* An environment gives values to some variables. *)
LEMMA EnvIs ==
    /\ \A env \in Env : /\ DOMAIN env \subseteq Var
                        /\ env = [v \in DOMAIN env |-> env[v]]
                        /\ \A v \in DOMAIN env : env[v] \in Value
    /\ \A D \in SUBSET Var : \A env \in [D -> Value] : env \in Env
    /\ <<>> \in Env /\ DOMAIN <<>> = {}
  <1>1. <<>> \in [{} -> Value] /\ {} \in SUBSET Var
    OBVIOUS
  <1>2. \A env \in Env : \E D \in SUBSET Var : env \in [D -> Value]
    BY DEF Env
  <1>3. \A D \in SUBSET Var : \A env \in [D -> Value] : env \in Env
    BY DEF Env
  <1>4. \A env \in Env : /\ DOMAIN env \subseteq Var
                         /\ env = [v \in DOMAIN env |-> env[v]]
                         /\ \A v \in DOMAIN env : env[v] \in Value
    <2>1. TAKE env \in Env
    <2>2. PICK D \in SUBSET Var : env \in [D -> Value]
      BY <1>2
    <2>3. DOMAIN env = D
      BY <2>2
    <2> QED
      BY <2>2, <2>3
  <1> QED
    BY <1>1, <1>3, <1>4

(* Every local holds a value, if only that of an unset one. *)
LEMMA ValueOfType ==
    ASSUME NEW env \in Env, NEW v
    PROVE  ValueOf(env, v) \in Value
  BY EnvIs, ValuesAssumption DEF ValueOf

(* So do the operands of a statement, in their order. *)
LEMMA ValuesType ==
    ASSUME NEW env \in Env, NEW args \in Seq(Var)
    PROVE  /\ Values(env, args) \in Seq(Value) /\ Len(Values(env, args)) = Len(args)
           /\ \A a \in DOMAIN args : Values(env, args)[a] = ValueOf(env, args[a])
  <1>1. PICK n \in Nat : n = Len(args) /\ DOMAIN args = 1..n
    BY LenProperties
  <1>2. Values(env, args) \in [1..n -> Value]
    BY <1>1, ValueOfType DEF Values
  <1>3. Values(env, args) \in Seq(Value) /\ Len(Values(env, args)) = n
    BY <1>2, FunctionIsSeq
  <1> QED
    BY <1>1, <1>3 DEF Values

(* Binding a local changes what it holds, and no other. *)
LEMMA BindType ==
    ASSUME NEW env \in Env, NEW v \in Var, NEW x \in Value
    PROVE  /\ Bind(env, v, x) \in Env
           /\ DOMAIN Bind(env, v, x) = DOMAIN env \cup {v}
           /\ Bind(env, v, x)[v] = x
           /\ \A w \in DOMAIN env : w # v => Bind(env, v, x)[w] = env[w]
  <1>1. PICK D \in SUBSET Var : D = DOMAIN env /\ \A w \in D : env[w] \in Value
    BY EnvIs
  <1>2. PICK new : new = Bind(env, v, x)
    OBVIOUS
  <1>3. new = [w \in D \cup {v} |-> IF w = v THEN x ELSE env[w]]
    BY <1>1, <1>2 DEF Bind
  <1>4. D \cup {v} \in SUBSET Var /\ new \in [D \cup {v} -> Value]
    BY <1>1, <1>3
  <1>5. new \in Env
    BY <1>4, EnvIs
  <1> QED
    BY <1>1, <1>2, <1>3, <1>5

(* Leaving a scope forgets the locals declared in it, and no other. *)
LEMMA RestrictType ==
    ASSUME NEW env \in Env, NEW scope
    PROVE  /\ RestrictTo(env, scope) \in Env
           /\ DOMAIN RestrictTo(env, scope) = DOMAIN env \cap scope
           /\ \A v \in DOMAIN env \cap scope : RestrictTo(env, scope)[v] = env[v]
  <1>1. PICK D \in SUBSET Var : D = DOMAIN env /\ \A w \in D : env[w] \in Value
    BY EnvIs
  <1>2. PICK new : new = RestrictTo(env, scope)
    OBVIOUS
  <1>3. new = [w \in D \cap scope |-> env[w]]
    BY <1>1, <1>2 DEF RestrictTo
  <1>4. D \cap scope \in SUBSET Var /\ new \in [D \cap scope -> Value]
    BY <1>1, <1>3
  <1>5. new \in Env
    BY <1>4, EnvIs
  <1> QED
    BY <1>1, <1>2, <1>3, <1>5

(* An operation over values gives a value. *)
LEMMA OutcomeType ==
    ASSUME NEW s, Proper(s), NEW xs \in Seq(Value), Len(xs) = Len(s.args),
           NEW own \in Value, NEW stored, NEW r,
           s.op \in {"load", "atomic"} => stored \in Value
    PROVE  Outcome(s, xs, own, stored, r) \in Value
  <1>1. s.op \in Op
    BY DEF Proper, Stmt
  <1>2. MixAll(xs) \in Value
    BY MixAllType
  <1>3. s.op = "pick" => xs[1] \in Value /\ xs[2] \in Value
    BY DEF Proper
  <1>4. s.op \in {"update", "move", "store", "atomic"} => xs[1] \in Value
    BY DEF Proper
  <1>5. \A x, y \in Value : Mix(x, y) \in Value /\ Add(x, y) \in Value
    BY ValuesAssumption
  <1>6. Unit \in Value /\ Undef \in Value
    BY ValuesAssumption
  <1>7. CASE s.op \in {"load", "calc", "combine", "pick"}
    BY <1>2, <1>3, <1>7 DEF Outcome
  <1>8. CASE s.op \in {"update", "move", "store", "atomic"}
    BY <1>4, <1>5, <1>8 DEF Outcome
  <1>9. CASE s.op \in {"init", "uninit"}
    BY <1>6, <1>9 DEF Outcome
  <1> QED
    BY <1>1, <1>7, <1>8, <1>9 DEF Op

(* The address of a statement. *)
At(s, p, r) == Address(s.buf, s.idx, p, r)

(* What a statement does to a state. *)
Result(st, s, p, r) ==
    Outcome(s, Values(st.env, s.args), ValueOf(st.env, s.dst), st.mem[At(s, p, r)], r)

(* The address of a statement is an address. *)
LEMMA AtType ==
    ASSUME NEW s, s.buf \in Buf, NEW p \in Points, NEW r \in Rs
    PROVE  At(s, p, r) \in Buf \X Points \X Rs
  BY PlaceIn DEF At, Address

(* A statement either writes its address or binds its local. *)
LEMMA RunIs ==
    ASSUME NEW st \in State, NEW s, Proper(s), NEW p \in Points, NEW r \in Rs
    PROVE  /\ Result(st, s, p, r) \in Value
           /\ Run(st, s, p, r) \in State
           /\ s.op \in {"store", "atomic"} =>
                 /\ Run(st, s, p, r).env = st.env
                 /\ Run(st, s, p, r).mem = [st.mem EXCEPT ![At(s, p, r)] = Result(st, s, p, r)]
           /\ s.op \notin {"store", "atomic"} =>
                 /\ Run(st, s, p, r).env = Bind(st.env, s.dst, Result(st, s, p, r))
                 /\ Run(st, s, p, r).mem = st.mem
  <1>1. st.mem \in Mem /\ st.env \in Env
    BY DEF State
  <1>2. PICK new : new = Result(st, s, p, r)
    OBVIOUS
  <1>3. new \in Value
    <2>1. s.args \in Seq(Var)
      BY DEF Proper, Stmt
    <2>2. /\ Values(st.env, s.args) \in Seq(Value)
          /\ Len(Values(st.env, s.args)) = Len(s.args)
      BY <1>1, <2>1, ValuesType
    <2>3. ValueOf(st.env, s.dst) \in Value
      BY <1>1, ValueOfType
    <2>4. s.op \in {"load", "atomic"} => st.mem[At(s, p, r)] \in Value
      BY <1>1, AtType DEF Proper, Mem
    <2> QED
      BY <1>2, <2>2, <2>3, <2>4, OutcomeType DEF Result
  <1>4. Run(st, s, p, r) =
          IF s.op \in {"store", "atomic"}
          THEN [mem |-> [st.mem EXCEPT ![At(s, p, r)] = new], env |-> st.env]
          ELSE [mem |-> st.mem, env |-> Bind(st.env, s.dst, new)]
    BY <1>2 DEF Run, Result, At
  <1>5. CASE s.op \in {"store", "atomic"}
    <2>1. [st.mem EXCEPT ![At(s, p, r)] = new] \in Mem
      BY <1>1, <1>3 DEF Mem
    <2> QED
      BY <1>1, <1>2, <1>3, <1>4, <1>5, <2>1 DEF State
  <1>6. CASE s.op \notin {"store", "atomic"}
    <2>1. Bind(st.env, s.dst, new) \in Env
      BY <1>1, <1>3, <1>6, BindType DEF Proper
    <2> QED
      BY <1>1, <1>2, <1>3, <1>4, <1>6, <2>1 DEF State
  <1> QED
    BY <1>5, <1>6

(* Running a sequence of statements is a sequence of states. *)
LEMMA RunAllIs ==
    ASSUME NEW st \in State, NEW seq \in Seq(Stmt), \A i \in DOMAIN seq : Proper(seq[i]),
           NEW p \in Points, NEW r \in Rs
    PROVE  \E f \in [0..Len(seq) -> State] :
              /\ f[0] = st
              /\ \A i \in DOMAIN seq : f[i] = Run(f[i - 1], seq[i], p, r)
              /\ RunAll(st, seq, p, r) = f[Len(seq)]
  <1>1. PICK n \in Nat : n = Len(seq) /\ DOMAIN seq = 1..n
    BY LenProperties
  <1> DEFINE F == [k \in 1..n |-> [x \in State |-> Run(x, seq[k], p, r)]]
             it == CHOOSE f : f = [k \in 0..n |-> IF k = 0 THEN st ELSE Run(f[k - 1], seq[k], p, r)]
  <1>2. F \in [1..n -> [State -> State]]
    <2>1. \A k \in 1..n, x \in State : Run(x, seq[k], p, r) \in State
      BY <1>1, RunIs
    <2> QED
      BY <2>1
  <1>3. PICK f : Solves(f, F, st, n, State)
    <2> HIDE DEF F, it
    <2> QED
      BY <1>2, RecursionExists
  <1>4. /\ f \in [0..n -> State]
        /\ f = [k \in 0..n |-> IF k = 0 THEN st ELSE Run(f[k - 1], seq[k], p, r)]
    BY <1>3 DEF Solves
  <1>5. it = [k \in 0..n |-> IF k = 0 THEN st ELSE Run(it[k - 1], seq[k], p, r)]
    BY <1>4
  <1>6. RunAll(st, seq, p, r) = it[n]
    BY <1>1 DEF RunAll, Repeat
  <1>7. \A k \in 0..n : it[k] = f[k]
    <2> HIDE DEF it
    <2>1. it[0] = f[0]
      BY <1>4, <1>5
    <2>2. \A k \in 1..n : it[k - 1] = f[k - 1] => it[k] = f[k]
      BY <1>4, <1>5
    <2> QED
      BY <2>1, <2>2, RecursionUnique, ZenonT(60)
  <1>8. RunAll(st, seq, p, r) = f[n]
    BY <1>6, <1>7
  <1>9. f[0] = st /\ \A k \in 1..n : f[k] = Run(f[k - 1], seq[k], p, r)
    BY <1>4
  <1> QED
    BY <1>1, <1>4, <1>8, <1>9

ProperAll(seq) == seq \in Seq(Stmt) /\ \A i \in DOMAIN seq : Proper(seq[i])
ProperSection(sec) == ProperAll(sec.inits) /\ ProperAll(sec.body) /\ ProperAll(sec.fins)

(* A sequence of statements leaves a state. *)
LEMMA RunAllType ==
    ASSUME NEW st \in State, NEW seq, ProperAll(seq), NEW p \in Points, NEW r \in Rs
    PROVE  RunAll(st, seq, p, r) \in State
  <1>1. PICK f \in [0..Len(seq) -> State] : RunAll(st, seq, p, r) = f[Len(seq)]
    BY RunAllIs DEF ProperAll
  <1>2. Len(seq) \in 0..Len(seq)
    BY LenProperties DEF ProperAll
  <1> QED
    BY <1>1, <1>2

(* An iteration leaves the memory of its statements and the locals of its  *)
(* scope.                                                                  *)
LEMMA RunBlockIs ==
    ASSUME NEW st \in State, NEW seq, ProperAll(seq), NEW scope, NEW p \in Points, NEW r \in Rs
    PROVE  /\ RunBlock(st, seq, scope, p, r) \in State
           /\ RunBlock(st, seq, scope, p, r).mem = RunAll(st, seq, p, r).mem
           /\ RunBlock(st, seq, scope, p, r).env = RestrictTo(RunAll(st, seq, p, r).env, scope)
  <1>1. PICK end \in State : end = RunAll(st, seq, p, r)
    BY RunAllType
  <1>2. RestrictTo(end.env, scope) \in Env /\ end.mem \in Mem
    BY <1>1, RestrictType DEF State
  <1> QED
    BY <1>1, <1>2 DEF RunBlock, State

(* Turns and points are counted from zero. *)
LEMMA Sizes ==
    /\ ReductionSize \in Nat /\ PointwiseSize \in Nat
    /\ \A k \in 1..ReductionSize : k - 1 \in Rs
    /\ \A k \in 1..PointwiseSize : k - 1 \in Points
  BY SizesAssumption DEF Rs, Points

(* The iterations of a loop. *)
Turned(f, entered, seq, p) ==
    /\ f \in [0..ReductionSize -> State] /\ f[0] = entered
    /\ \A k \in 1..ReductionSize : f[k] = RunBlock(f[k - 1], seq, DOMAIN entered.env, p, k - 1)
    /\ RunLoop(entered, seq, p) = f[ReductionSize]

(* Running a loop is a sequence of states, one per turn. *)
LEMMA RunLoopIs ==
    ASSUME NEW entered \in State, NEW seq, ProperAll(seq), NEW p \in Points
    PROVE  \E f : Turned(f, entered, seq, p)
  <1>1. PICK n \in Nat : n = ReductionSize
    BY Sizes
  <1> DEFINE F == [k \in 1..n |-> [x \in State |-> RunBlock(x, seq, DOMAIN entered.env, p, k - 1)]]
             it == CHOOSE f : f = [k \in 0..n |-> IF k = 0 THEN entered ELSE RunBlock(f[k - 1], seq, DOMAIN entered.env, p, k - 1)]
  <1>2. F \in [1..n -> [State -> State]] /\ entered \in State
    <2>1. \A k \in 1..n, x \in State : RunBlock(x, seq, DOMAIN entered.env, p, k - 1) \in State
      BY <1>1, Sizes, RunBlockIs
    <2>2. entered \in State
      OBVIOUS
    <2> QED
      BY <2>1, <2>2
  <1>3. PICK f : Solves(f, F, entered, n, State)
    <2>1. PICK from : from = entered
      OBVIOUS
    <2> HIDE DEF F, it
    <2> QED
      BY <1>2, <2>1, RecursionExists
  <1>4. /\ f \in [0..n -> State]
        /\ f = [k \in 0..n |-> IF k = 0 THEN entered ELSE RunBlock(f[k - 1], seq, DOMAIN entered.env, p, k - 1)]
    <2> HIDE DEF it
    <2>1. /\ f \in [0..n -> State] /\ f[0] = entered
          /\ \A k \in 1..n : f[k] = F[k][f[k - 1]]
      <3> HIDE DEF F
      <3> QED
        BY <1>3 DEF Solves
    <2>2. \A k \in 1..n : f[k - 1] \in State
      BY <2>1
    <2>3. \A k \in 1..n : f[k] = RunBlock(f[k - 1], seq, DOMAIN entered.env, p, k - 1)
      BY <2>1, <2>2
    <2>4. \A k \in 0..n : f[k] = IF k = 0 THEN entered ELSE RunBlock(f[k - 1], seq, DOMAIN entered.env, p, k - 1)
      BY <2>1, <2>3
    <2> HIDE DEF F
    <2> QED
      BY <2>1, <2>4
  <1>5. it = [k \in 0..n |-> IF k = 0 THEN entered ELSE RunBlock(it[k - 1], seq, DOMAIN entered.env, p, k - 1)]
    BY <1>4
  <1>6. RunLoop(entered, seq, p) = it[n]
    BY <1>1 DEF RunLoop, Repeat
  <1>7. \A k \in 0..n : it[k] = f[k]
    <2> HIDE DEF it
    <2>1. it[0] = f[0]
      BY <1>4, <1>5
    <2>2. \A k \in 1..n : it[k - 1] = f[k - 1] => it[k] = f[k]
      BY <1>4, <1>5
    <2> QED
      BY <2>1, <2>2, RecursionUnique
  <1>8. RunLoop(entered, seq, p) = f[n]
    BY <1>6, <1>7
  <1>9. f[0] = entered /\ \A k \in 1..n : f[k] = RunBlock(f[k - 1], seq, DOMAIN entered.env, p, k - 1)
    BY <1>4
  <1> QED
    BY <1>1, <1>4, <1>8, <1>9 DEF Turned

(* A section leaves a state. *)
LEMMA RunSectionType ==
    ASSUME NEW st \in State, NEW sec, ProperSection(sec), NEW p \in Points
    PROVE  RunSection(st, sec, p) \in State
  <1>1. 0 \in Rs /\ ReductionSize \in 0..ReductionSize
    BY Zero, Sizes
  <1>2. RunAll(st, sec.body, p, 0) \in State
    BY <1>1, RunAllType DEF ProperSection
  <1>3. PICK entered \in State : entered = RunAll(st, sec.inits, p, 0)
    BY <1>1, RunAllType DEF ProperSection
  <1>4. PICK f : Turned(f, entered, sec.body, p)
    BY RunLoopIs DEF ProperSection
  <1>5. RunLoop(entered, sec.body, p) \in State
    BY <1>1, <1>4 DEF Turned
  <1>6. RunAll(RunLoop(entered, sec.body, p), sec.fins, p, 0) \in State
    BY <1>1, <1>5, RunAllType DEF ProperSection
  <1> QED
    BY <1>2, <1>3, <1>6 DEF RunSection

(* The sections of a region, at one point. *)
Sectioned(f, mem, secs, p) ==
    /\ f \in [0..Len(secs) -> State] /\ f[0] = [mem |-> mem, env |-> <<>>]
    /\ \A k \in 1..Len(secs) : f[k] = RunSection(f[k - 1], secs[k], p)
    /\ RunSections(mem, secs, p) = f[Len(secs)].mem

(* Running sections is a sequence of states, one per section. *)
LEMMA RunSectionsIs ==
    ASSUME NEW mem \in Mem, NEW secs \in Seq(Section),
           \A n \in DOMAIN secs : ProperSection(secs[n]), NEW p \in Points
    PROVE  \E f : Sectioned(f, mem, secs, p)
  <1>1. PICK n \in Nat : n = Len(secs)
    BY LenProperties
  <1> DEFINE F == [k \in 1..n |-> [x \in State |-> RunSection(x, secs[k], p)]]
             it == CHOOSE f : f = [k \in 0..n |-> IF k = 0 THEN [mem |-> mem, env |-> <<>>] ELSE RunSection(f[k - 1], secs[k], p)]
  <1>2. F \in [1..n -> [State -> State]] /\ [mem |-> mem, env |-> <<>>] \in State
    <2>1. \A k \in 1..n, x \in State : RunSection(x, secs[k], p) \in State
      BY <1>1, RunSectionType
    <2>2. [mem |-> mem, env |-> <<>>] \in State
      BY EnvIs DEF State
    <2> QED
      BY <2>1, <2>2
  <1>3. PICK f : Solves(f, F, [mem |-> mem, env |-> <<>>], n, State)
    <2>1. PICK from : from = [mem |-> mem, env |-> <<>>]
      OBVIOUS
    <2> HIDE DEF F, it
    <2> QED
      BY <1>2, <2>1, RecursionExists
  <1>4. /\ f \in [0..n -> State]
        /\ f = [k \in 0..n |-> IF k = 0 THEN [mem |-> mem, env |-> <<>>] ELSE RunSection(f[k - 1], secs[k], p)]
    <2> HIDE DEF it
    <2>1. /\ f \in [0..n -> State] /\ f[0] = [mem |-> mem, env |-> <<>>]
          /\ \A k \in 1..n : f[k] = F[k][f[k - 1]]
      <3> HIDE DEF F
      <3> QED
        BY <1>3 DEF Solves
    <2>2. \A k \in 1..n : f[k - 1] \in State
      BY <2>1
    <2>3. \A k \in 1..n : f[k] = RunSection(f[k - 1], secs[k], p)
      BY <2>1, <2>2
    <2>4. \A k \in 0..n : f[k] = IF k = 0 THEN [mem |-> mem, env |-> <<>>] ELSE RunSection(f[k - 1], secs[k], p)
      BY <2>1, <2>3
    <2> HIDE DEF F
    <2> QED
      BY <2>1, <2>4
  <1>5. it = [k \in 0..n |-> IF k = 0 THEN [mem |-> mem, env |-> <<>>] ELSE RunSection(it[k - 1], secs[k], p)]
    BY <1>4
  <1>6. RunSections(mem, secs, p) = it[n].mem
    BY <1>1 DEF RunSections, Repeat
  <1>7. \A k \in 0..n : it[k] = f[k]
    <2> HIDE DEF it
    <2>1. it[0] = f[0]
      BY <1>4, <1>5
    <2>2. \A k \in 1..n : it[k - 1] = f[k - 1] => it[k] = f[k]
      BY <1>4, <1>5
    <2> QED
      BY <2>1, <2>2, RecursionUnique, ZenonT(60)
  <1>8. RunSections(mem, secs, p) = f[n].mem
    BY <1>6, <1>7
  <1>9. f[0] = [mem |-> mem, env |-> <<>>] /\ \A k \in 1..n : f[k] = RunSection(f[k - 1], secs[k], p)
    BY <1>4
  <1> QED
    BY <1>1, <1>4, <1>8, <1>9 DEF Sectioned

(* Sections leave a memory. *)
LEMMA RunSectionsType ==
    ASSUME NEW mem \in Mem, NEW secs \in Seq(Section),
           \A n \in DOMAIN secs : ProperSection(secs[n]), NEW p \in Points
    PROVE  RunSections(mem, secs, p) \in Mem
  <1>1. PICK f : Sectioned(f, mem, secs, p)
    BY RunSectionsIs
  <1>2. f[Len(secs)] \in State
    BY <1>1, LenProperties DEF Sectioned
  <1> QED
    BY <1>1, <1>2 DEF State, Sectioned

(* The points of a region. *)
LEMMA RunRegionIs ==
    ASSUME outer \in Seq(Section), \A n \in DOMAIN outer : ProperSection(outer[n])
    PROVE  \E f \in [0..PointwiseSize -> Mem] :
              /\ f[0] = InitialMemory
              /\ \A k \in 1..PointwiseSize : f[k] = RunSections(f[k - 1], outer, k - 1)
              /\ RunRegion = f[PointwiseSize]
  <1>1. PICK n \in Nat : n = PointwiseSize
    BY Sizes
  <1> DEFINE F == [k \in 1..n |-> [x \in Mem |-> RunSections(x, outer, k - 1)]]
             it == CHOOSE f : f = [k \in 0..n |-> IF k = 0 THEN InitialMemory ELSE RunSections(f[k - 1], outer, k - 1)]
  <1>2. F \in [1..n -> [Mem -> Mem]] /\ InitialMemory \in Mem
    <2>1. \A k \in 1..n, x \in Mem : RunSections(x, outer, k - 1) \in Mem
      BY <1>1, Sizes, RunSectionsType
    <2>2. InitialMemory \in Mem
      BY ValuesAssumption DEF Mem
    <2> QED
      BY <2>1, <2>2
  <1>3. PICK f : Solves(f, F, InitialMemory, n, Mem)
    <2>1. PICK from : from = InitialMemory
      OBVIOUS
    <2> HIDE DEF F, it
    <2> QED
      BY <1>2, <2>1, RecursionExists
  <1>4. /\ f \in [0..n -> Mem]
        /\ f = [k \in 0..n |-> IF k = 0 THEN InitialMemory ELSE RunSections(f[k - 1], outer, k - 1)]
    <2> HIDE DEF it
    <2>1. /\ f \in [0..n -> Mem] /\ f[0] = InitialMemory
          /\ \A k \in 1..n : f[k] = F[k][f[k - 1]]
      <3> HIDE DEF F
      <3> QED
        BY <1>3 DEF Solves
    <2>2. \A k \in 1..n : f[k - 1] \in Mem
      BY <2>1
    <2>3. \A k \in 1..n : f[k] = RunSections(f[k - 1], outer, k - 1)
      BY <2>1, <2>2
    <2>4. \A k \in 0..n : f[k] = IF k = 0 THEN InitialMemory ELSE RunSections(f[k - 1], outer, k - 1)
      BY <2>1, <2>3
    <2> HIDE DEF F
    <2> QED
      BY <2>1, <2>4
  <1>5. it = [k \in 0..n |-> IF k = 0 THEN InitialMemory ELSE RunSections(it[k - 1], outer, k - 1)]
    BY <1>4
  <1>6. RunRegion = it[n]
    BY <1>1 DEF RunRegion, Repeat
  <1>7. \A k \in 0..n : it[k] = f[k]
    <2> HIDE DEF it
    <2>1. it[0] = f[0]
      BY <1>4, <1>5
    <2>2. \A k \in 1..n : it[k - 1] = f[k - 1] => it[k] = f[k]
      BY <1>4, <1>5
    <2> QED
      BY <2>1, <2>2, RecursionUnique, SMTT(60)
  <1>8. RunRegion = f[n]
    BY <1>6, <1>7
  <1>9. f[0] = InitialMemory /\ \A k \in 1..n : f[k] = RunSections(f[k - 1], outer, k - 1)
    BY <1>4
  <1> QED
    BY <1>1, <1>4, <1>8, <1>9

-----------------------------------------------------------------------------
(* Accounts.  At one point p, M has the final memory, and d what each      *)
(* local holds in each iteration once it is assigned.                      *)

Last1 == ReductionSize - 1
Turns(loop) == IF loop THEN Rs ELSE {0}
Cells == Buf \X Rs
Row == [Cells -> Value]
History == [Var -> [Rs -> Value]]

Writes(s) == s.op \in {"store", "atomic"}
Cell(s, r) == <<s.buf, Place(s.idx, r)>>
Initially(p, a) == InitialMemory[<<a[1], p, a[2]>>]

Initialized(ins) == Declares(ins, "init") \cup Declares(ins, "uninit")
Assigned(seq, i, v) == \E j \in DOMAIN seq : j < i /\ seq[j].dst = v

(* What v is worth to the statement seq[i] of a loop body in iteration r:  *)
(* what this iteration assigned, or the last one, or an earlier section.   *)
Worth(d, ins, seq, i, v, r) ==
    IF Assigned(seq, i, v) THEN d[v][r]
    ELSE IF v \notin Initialized(ins) THEN d[v][Last1]
    ELSE IF r # 0 THEN d[v][r - 1]
    ELSE IF v[1] = "acc" THEN Unit ELSE Undef

Worths(d, ins, seq, i, r) ==
    [a \in DOMAIN seq[i].args |-> Worth(d, ins, seq, i, seq[i].args[a], r)]

Stored(M, p, s, r) == IF s.op = "atomic" THEN Initially(p, Cell(s, r)) ELSE M[Cell(s, r)]

Told(M, d, p, ins, seq, i, r) ==
    Outcome(seq[i], Worths(d, ins, seq, i, r), Worth(d, ins, seq, i, seq[i].dst, r),
            Stored(M, p, seq[i], r), r)

(* seq[i] does what the account says. *)
Right(M, d, p, ins, seq, i, r) ==
    Told(M, d, p, ins, seq, i, r) =
        IF Writes(seq[i]) THEN M[Cell(seq[i], r)] ELSE d[seq[i].dst][r]

-----------------------------------------------------------------------------
(* One statement follows the account. *)

AssignedBy(seq, i) == {seq[j].dst : j \in {h \in DOMAIN seq : h < i /\ ~Writes(seq[h])}}

EnvAt(env, base, d, ins, seq, i, r) ==
    /\ DOMAIN env = base \cup Initialized(ins) \cup AssignedBy(seq, i)
    /\ \A v \in DOMAIN env : env[v] = Worth(d, ins, seq, i, v, r)

(* mem is old, but for the addresses in done at p, which have their final  *)
(* values.                                                                 *)
MemAt(mem, old, p, M, done) ==
    \A b \in Buf, q \in Points, t \in Rs :
        mem[<<b, q, t>>] = IF q = p /\ <<b, t>> \in done THEN M[<<b, t>>] ELSE old[<<b, q, t>>]

(* Row p of old is as it was before the region, outside of done.           *)
Fresh(old, p, done) == \A a \in Cells : a \notin done => old[<<a[1], p, a[2]>>] = Initially(p, a)

(* An operation depends on the old value of its local only in an update,   *)
(* and on its address only in a load or an atomic write.                   *)
LEMMA OutcomeSame ==
    ASSUME NEW s, s.op \in Op, NEW xs, NEW own, NEW own2, NEW stored, NEW stored2, NEW r,
           s.op = "update" => own = own2,
           s.op \in {"load", "atomic"} => stored = stored2
    PROVE  Outcome(s, xs, own, stored, r) = Outcome(s, xs, own2, stored2, r)
  <1>1. CASE s.op = "update"
    BY <1>1 DEF Outcome
  <1>2. CASE s.op \in {"load", "atomic"}
    BY <1>2 DEF Outcome
  <1>3. CASE s.op \notin {"update", "load", "atomic"}
    BY <1>3 DEF Outcome, Op
  <1> QED
    BY <1>1, <1>2, <1>3

(* What the statement computes is what the account tells of it. *)
LEMMA ResultTold ==
    ASSUME NEW st \in State, NEW seq, ProperAll(seq), NEW i \in DOMAIN seq,
           NEW p \in Points, NEW r \in Rs, NEW M, NEW d, NEW ins, NEW base, NEW old, NEW done,
           EnvAt(st.env, base, d, ins, seq, i, r), MemAt(st.mem, old, p, M, done),
           ArgsOf(seq[i]) \subseteq DOMAIN st.env,
           seq[i].op = "update" => seq[i].dst \in DOMAIN st.env,
           Fresh(old, p, done),
           seq[i].op = "load" =>
              Cell(seq[i], r) \in done \/ M[Cell(seq[i], r)] = Initially(p, Cell(seq[i], r)),
           seq[i].op = "atomic" => Cell(seq[i], r) \notin done
    PROVE  Result(st, seq[i], p, r) = Told(M, d, p, ins, seq, i, r)
  <1>1. PICK s : s = seq[i]
    OBVIOUS
  <1>2. Proper(s) /\ s.op \in Op /\ s.args \in Seq(Var)
    BY <1>1 DEF ProperAll, Proper, Stmt
  <1>3. Values(st.env, s.args) = Worths(d, ins, seq, i, r)
    <2>1. \A a \in DOMAIN s.args : s.args[a] \in DOMAIN st.env
      BY <1>1 DEF ArgsOf
    <2>2. \A a \in DOMAIN s.args :
              ValueOf(st.env, s.args[a]) = Worth(d, ins, seq, i, s.args[a], r)
      BY <2>1 DEF ValueOf, EnvAt
    <2> QED
      BY <1>1, <2>2 DEF Values, Worths
  <1>4. s.op = "update" => ValueOf(st.env, s.dst) = Worth(d, ins, seq, i, s.dst, r)
    BY <1>1 DEF ValueOf, EnvAt
  <1>5. s.op \in {"load", "atomic"} => st.mem[At(s, p, r)] = Stored(M, p, s, r)
    <2>1. SUFFICES ASSUME s.op \in {"load", "atomic"}
                   PROVE  st.mem[At(s, p, r)] = Stored(M, p, s, r)
      OBVIOUS
    <2>2. PICK b \in Buf, t \in Rs : b = s.buf /\ t = Place(s.idx, r)
      BY <1>2, <2>1, PlaceIn DEF Proper
    <2>3. /\ At(s, p, r) = <<b, p, t>> /\ Cell(s, r) = <<b, t>> /\ <<b, t>> \in Cells
          /\ <<b, t>>[1] = b /\ <<b, t>>[2] = t
      BY <2>2 DEF At, Address, Cell, Cells
    <2>4. st.mem[<<b, p, t>>] = IF <<b, t>> \in done THEN M[<<b, t>>] ELSE old[<<b, p, t>>]
      BY DEF MemAt
    <2>5. <<b, t>> \notin done => old[<<b, p, t>>] = Initially(p, <<b, t>>)
      BY <2>3 DEF Fresh
    <2>6. CASE s.op = "load"
      BY <1>1, <2>3, <2>4, <2>5, <2>6 DEF Stored
    <2>7. CASE s.op = "atomic"
      BY <1>1, <2>3, <2>4, <2>5, <2>7 DEF Stored
    <2> QED
      BY <2>1, <2>6, <2>7
  <1>6. PICK xs, own, own2, stored, stored2 :
          /\ xs = Worths(d, ins, seq, i, r)
          /\ own = ValueOf(st.env, s.dst) /\ own2 = Worth(d, ins, seq, i, s.dst, r)
          /\ stored = st.mem[At(s, p, r)] /\ stored2 = Stored(M, p, s, r)
    OBVIOUS
  <1>7. Outcome(s, xs, own, stored, r) = Outcome(s, xs, own2, stored2, r)
    BY <1>2, <1>4, <1>5, <1>6, OutcomeSame
  <1> QED
    BY <1>1, <1>3, <1>6, <1>7 DEF Result, Told

(* A statement that assigns a local. *)
LEMMA EnvFollows ==
    ASSUME NEW env \in Env, NEW seq, ProperAll(seq), NEW i \in DOMAIN seq,
           NEW r \in Rs, NEW d, NEW ins, NEW base,
           EnvAt(env, base, d, ins, seq, i, r),
           ~Writes(seq[i]), NEW x \in Value, d[seq[i].dst][r] = x
    PROVE  EnvAt(Bind(env, seq[i].dst, x), base, d, ins, seq, i + 1, r)
  <1>1. PICK v \in Var : v = seq[i].dst
    BY DEF ProperAll, Proper, Writes
  <1>2. PICK n \in Nat : DOMAIN seq = 1..n
    BY LenProperties DEF ProperAll
  <1>3. PICK new \in Env :
          /\ new = Bind(env, v, x)
          /\ DOMAIN new = DOMAIN env \cup {v}
          /\ new[v] = x
          /\ \A w \in DOMAIN env : w # v => new[w] = env[w]
    BY BindType, ZenonT(60)
  <1>4. AssignedBy(seq, i + 1) = AssignedBy(seq, i) \cup {v}
    BY <1>1, <1>2 DEF AssignedBy
  <1>5. \A w : Assigned(seq, i + 1, w) <=> Assigned(seq, i, w) \/ w = v
    BY <1>1, <1>2 DEF Assigned
  <1>6. \A w : w # v => Worth(d, ins, seq, i + 1, w, r) = Worth(d, ins, seq, i, w, r)
    BY <1>5 DEF Worth
  <1>7. Worth(d, ins, seq, i + 1, v, r) = x
    BY <1>1, <1>5 DEF Worth
  <1>8. DOMAIN new = base \cup Initialized(ins) \cup AssignedBy(seq, i + 1)
    BY <1>3, <1>4 DEF EnvAt
  <1>9. \A w \in DOMAIN new : new[w] = Worth(d, ins, seq, i + 1, w, r)
    BY <1>3, <1>6, <1>7 DEF EnvAt
  <1> QED
    BY <1>1, <1>3, <1>8, <1>9 DEF EnvAt

(* A statement that writes to memory assigns nothing. *)
LEMMA EnvRests ==
    ASSUME NEW env, NEW seq, ProperAll(seq), NEW i \in DOMAIN seq,
           NEW r \in Rs, NEW d, NEW ins, NEW base,
           EnvAt(env, base, d, ins, seq, i, r), DOMAIN env \subseteq Var,
           Writes(seq[i]), seq[i].dst = None
    PROVE  EnvAt(env, base, d, ins, seq, i + 1, r)
  <1>1. PICK n \in Nat : DOMAIN seq = 1..n
    BY LenProperties DEF ProperAll
  <1>2. AssignedBy(seq, i + 1) = AssignedBy(seq, i)
    BY <1>1 DEF AssignedBy
  <1>3. \A w \in DOMAIN env : Assigned(seq, i + 1, w) <=> Assigned(seq, i, w)
    BY <1>1, NamesAssumption DEF Assigned
  <1>4. \A w \in DOMAIN env : Worth(d, ins, seq, i + 1, w, r) = Worth(d, ins, seq, i, w, r)
    BY <1>3 DEF Worth
  <1> QED
    BY <1>2, <1>4 DEF EnvAt

(* Writing the final value at an address makes it one that is done. *)
LEMMA MemFollows ==
    ASSUME NEW mem \in Mem, NEW old, NEW p \in Points, NEW M, NEW done,
           MemAt(mem, old, p, M, done),
           NEW b \in Buf, NEW t \in Rs, NEW x, M[<<b, t>>] = x
    PROVE  MemAt([mem EXCEPT ![<<b, p, t>>] = x], old, p, M, done \cup {<<b, t>>})
  BY DEF MemAt, Mem

-----------------------------------------------------------------------------
(* A sequence of statements follows the account.                           *)

CellsBefore(seq, i, r) ==
    {Cell(seq[j], r) : j \in {h \in DOMAIN seq : h < i /\ Writes(seq[h])}}

(* seq[i] has what it needs when the cells of done are final before seq.   *)
Supplied(M, p, ins, base, seq, i, r, done) ==
    /\ ArgsOf(seq[i]) \subseteq base \cup Initialized(ins) \cup AssignedBy(seq, i)
    /\ seq[i].op = "update" => seq[i].dst \in Initialized(ins)
    /\ Writes(seq[i]) => seq[i].dst = None
    /\ seq[i].op = "load" =>
          \/ Cell(seq[i], r) \in done \cup CellsBefore(seq, i, r)
          \/ M[Cell(seq[i], r)] = Initially(p, Cell(seq[i], r))
    /\ seq[i].op = "atomic" => Cell(seq[i], r) \notin done \cup CellsBefore(seq, i, r)

(* The state before seq[i]. *)
StateAt(st, base, old, p, M, d, ins, seq, i, r, done) ==
    /\ EnvAt(st.env, base, d, ins, seq, i, r)
    /\ MemAt(st.mem, old, p, M, done \cup CellsBefore(seq, i, r))

(* One statement follows the account. *)
LEMMA StatementFollows ==
    ASSUME NEW st \in State, NEW seq, ProperAll(seq), NEW i \in DOMAIN seq,
           NEW p \in Points, NEW r \in Rs, NEW M, NEW d, NEW ins, NEW base, NEW old, NEW done,
           StateAt(st, base, old, p, M, d, ins, seq, i, r, done),
           Fresh(old, p, done), Supplied(M, p, ins, base, seq, i, r, done),
           Right(M, d, p, ins, seq, i, r)
    PROVE  StateAt(Run(st, seq[i], p, r), base, old, p, M, d, ins, seq, i + 1, r, done)
  <1>1. PICK s : s = seq[i] /\ Proper(s) /\ s.op \in Op
    BY DEF ProperAll, Proper, Stmt
  <1>2. PICK now : now = done \cup CellsBefore(seq, i, r)
    OBVIOUS
  <1>3. EnvAt(st.env, base, d, ins, seq, i, r) /\ MemAt(st.mem, old, p, M, now)
    BY <1>2 DEF StateAt
  <1>4. Result(st, s, p, r) = Told(M, d, p, ins, seq, i, r)
    <2>1. ArgsOf(seq[i]) \subseteq DOMAIN st.env /\ (seq[i].op = "update" => seq[i].dst \in DOMAIN st.env)
      BY <1>3 DEF EnvAt, Supplied
    <2>2. Fresh(old, p, now)
      BY <1>2 DEF Fresh
    <2>3. seq[i].op = "load" =>
              Cell(seq[i], r) \in now \/ M[Cell(seq[i], r)] = Initially(p, Cell(seq[i], r))
      BY <1>2 DEF Supplied
    <2>4. seq[i].op = "atomic" => Cell(seq[i], r) \notin now
      BY <1>2 DEF Supplied
    <2>5. Result(st, seq[i], p, r) = Told(M, d, p, ins, seq, i, r)
      BY <1>3, <2>1, <2>2, <2>3, <2>4, ResultTold
    <2> QED
      BY <1>1, <2>5
  <1>5. PICK x : x = Result(st, s, p, r)
    OBVIOUS
  <1>6. PICK new : new = Run(st, s, p, r)
    OBVIOUS
  <1>7. /\ x \in Value
        /\ Writes(s) => new.env = st.env /\ new.mem = [st.mem EXCEPT ![At(s, p, r)] = x]
        /\ ~Writes(s) => new.env = Bind(st.env, s.dst, x) /\ new.mem = st.mem
    BY <1>1, <1>5, <1>6, RunIs DEF Writes
  <1>8. st.env \in Env /\ st.mem \in Mem /\ DOMAIN st.env \subseteq Var
    BY EnvIs DEF State
  <1>9. PICK n \in Nat : DOMAIN seq = 1..n
    BY LenProperties DEF ProperAll
  <1>10. CASE Writes(s)
    <2>1. s.dst = None /\ x = M[Cell(s, r)]
      BY <1>1, <1>4, <1>5, <1>10 DEF Supplied, Right
    <2>2. EnvAt(new.env, base, d, ins, seq, i + 1, r)
      BY <1>1, <1>3, <1>7, <1>8, <1>10, <2>1, EnvRests
    <2>3. PICK b \in Buf, t \in Rs : b = s.buf /\ t = Place(s.idx, r)
      BY <1>1, <1>10, PlaceIn DEF Proper, Writes
    <2>4. Cell(s, r) = <<b, t>> /\ At(s, p, r) = <<b, p, t>>
      BY <2>3 DEF Cell, At, Address
    <2>5. MemAt(new.mem, old, p, M, now \cup {<<b, t>>})
      <3>1. M[<<b, t>>] = x /\ new.mem = [st.mem EXCEPT ![<<b, p, t>>] = x]
        BY <1>7, <1>10, <2>1, <2>4
      <3>2. PICK mem \in Mem : mem = st.mem
        BY <1>8
      <3>3. MemAt([mem EXCEPT ![<<b, p, t>>] = x], old, p, M, now \cup {<<b, t>>})
        BY <1>3, <3>1, <3>2, MemFollows
      <3> QED
        BY <3>1, <3>2, <3>3
    <2>6. CellsBefore(seq, i + 1, r) = CellsBefore(seq, i, r) \cup {<<b, t>>}
      BY <1>1, <1>9, <1>10, <2>4 DEF CellsBefore
    <2>7. now \cup {<<b, t>>} = done \cup CellsBefore(seq, i + 1, r)
      BY <1>2, <2>6
    <2> QED
      BY <1>1, <1>6, <2>2, <2>5, <2>7 DEF StateAt
  <1>11. CASE ~Writes(s)
    <2>1. d[s.dst][r] = x
      BY <1>1, <1>4, <1>5, <1>11 DEF Right
    <2>2. EnvAt(new.env, base, d, ins, seq, i + 1, r)
      BY <1>1, <1>3, <1>7, <1>8, <1>11, <2>1, EnvFollows
    <2>3. CellsBefore(seq, i + 1, r) = CellsBefore(seq, i, r)
      BY <1>1, <1>9, <1>11 DEF CellsBefore
    <2> QED
      BY <1>1, <1>2, <1>3, <1>6, <1>7, <1>11, <2>2, <2>3 DEF StateAt
  <1> QED
    BY <1>10, <1>11

(* All of them do. *)
LEMMA SequenceFollows ==
    ASSUME NEW st \in State, NEW seq, ProperAll(seq),
           NEW p \in Points, NEW r \in Rs, NEW M, NEW d, NEW ins, NEW base, NEW old, NEW done,
           EnvAt(st.env, base, d, ins, seq, 1, r), MemAt(st.mem, old, p, M, done),
           Fresh(old, p, done),
           \A i \in DOMAIN seq : /\ Supplied(M, p, ins, base, seq, i, r, done)
                                 /\ Right(M, d, p, ins, seq, i, r)
    PROVE  StateAt(RunAll(st, seq, p, r), base, old, p, M, d, ins, seq, Len(seq) + 1, r, done)
  <1>1. PICK n \in Nat : n = Len(seq) /\ DOMAIN seq = 1..n
    BY LenProperties DEF ProperAll
  <1>2. PICK f \in [0..n -> State] :
              /\ f[0] = st
              /\ \A i \in 1..n : f[i] = Run(f[i - 1], seq[i], p, r)
              /\ RunAll(st, seq, p, r) = f[n]
    BY <1>1, RunAllIs DEF ProperAll
  <1> DEFINE T == {k \in 0..n : StateAt(f[k], base, old, p, M, d, ins, seq, k + 1, r, done)}
  <1>3. 0 \in T
    <2>1. CellsBefore(seq, 1, r) = {}
      BY <1>1 DEF CellsBefore
    <2>2. done \cup CellsBefore(seq, 1, r) = done /\ 0 + 1 = 1 /\ 0 \in 0..n
      BY <2>1
    <2>3. StateAt(f[0], base, old, p, M, d, ins, seq, 0 + 1, r, done)
      BY <1>2, <2>2 DEF StateAt
    <2> QED
      BY <2>2, <2>3
  <1>4. \A k \in 1..n : k - 1 \in T => k \in T
    <2>1. SUFFICES ASSUME NEW k \in 1..n, k - 1 \in T PROVE k \in T
      OBVIOUS
    <2>2. StateAt(f[k - 1], base, old, p, M, d, ins, seq, k, r, done) /\ f[k - 1] \in State
      BY <1>2, <2>1
    <2>3. StateAt(Run(f[k - 1], seq[k], p, r), base, old, p, M, d, ins, seq, k + 1, r, done)
      BY <1>1, <2>2, StatementFollows
    <2> QED
      BY <1>2, <2>3
  <1>5. \A k \in 0..n : k \in T
    <2> HIDE DEF T
    <2> QED
      BY <1>3, <1>4, UpTo
  <1> QED
    BY <1>1, <1>2, <1>5

-----------------------------------------------------------------------------
(* A section follows the account.                                          *)

Sits(s, loop) == s.idx \in IF loop THEN FullIdx ELSE RowIdx

(* What a section leaves in scope, and what its predecessors left.         *)
Kept(sec) == IF sec.loop THEN Initialized(sec.inits) ELSE AssignedBy(sec.body, Len(sec.body) + 1)
Base(secs, n) == {v \in Var : \E m \in DOMAIN secs : m < n /\ v \in Kept(secs[m])}
WrittenBefore(secs, n) == {b \in Buf : \E m \in DOMAIN secs : m < n /\ SectionWrites(secs[m], b)}

InitShape(s) ==
    /\ s.args = <<>>
    /\ \/ s.op = "init" /\ s.dst[1] = "acc"
       \/ s.op = "uninit" /\ s.dst[1] = "scan"

FinShape(s, ins, base) ==
    /\ s.op = "store" /\ s.dst = None /\ s.idx \in RowIdx
    /\ ArgsOf(s) \subseteq base \cup Initialized(ins)

(* A statement of a section's body, after the first n - 1 sections.        *)
BodyShape(secs, n, ins, seq, i, loop) ==
    /\ seq[i].op \notin {"init", "uninit"}
    /\ Writes(seq[i]) => seq[i].dst = None /\ Sits(seq[i], loop)
    /\ ArgsOf(seq[i]) \subseteq Base(secs, n) \cup Initialized(ins) \cup AssignedBy(seq, i)
    /\ seq[i].op = "update" => seq[i].dst \in Initialized(ins)
    /\ seq[i].op = "load" =>
          \/ seq[i].buf \in Inputs \cup WrittenBefore(secs, n)
          \/ Sits(seq[i], loop) /\ \E j \in WritesOf(seq, seq[i].buf) : j < i
    /\ seq[i].op = "atomic" =>
          /\ seq[i].buf \notin WrittenBefore(secs, n)
          /\ \A j \in WritesOf(seq, seq[i].buf) : j >= i

BodyShaped(secs, n, ins, seq, loop) == \A i \in DOMAIN seq : BodyShape(secs, n, ins, seq, i, loop)

Shaped(secs, n) ==
    LET sec == secs[n] IN
    /\ ProperSection(sec) /\ sec.loop \in BOOLEAN
    /\ ~sec.loop => sec.inits = <<>> /\ sec.fins = <<>>
    /\ \A i \in DOMAIN sec.inits : InitShape(sec.inits[i])
    /\ \A i \in DOMAIN sec.fins : FinShape(sec.fins[i], sec.inits, Base(secs, n))
    /\ BodyShaped(secs, n, sec.inits, sec.body, sec.loop)
    /\ Initialized(sec.inits) \subseteq AssignedBy(sec.body, Len(sec.body) + 1)
    /\ Base(secs, n) \cap (Initialized(sec.inits) \cup AssignedBy(sec.body, Len(sec.body) + 1)) = {}

(* The account is right about the section, at point p.                     *)
Untouched(M, p, b) == \A t \in Rs : t # 0 => M[<<b, t>>] = Initially(p, <<b, t>>)

LoopRight(M, d, p, ins, seq) == \A i \in DOMAIN seq, r \in Rs : Right(M, d, p, ins, seq, i, r)

StraightRight(M, d, p, seq) ==
    \A i \in DOMAIN seq :
       /\ Right(M, d, p, <<>>, seq, i, 0)
       /\ IF Writes(seq[i]) THEN Untouched(M, p, seq[i].buf)
          ELSE d[seq[i].dst][0] = d[seq[i].dst][Last1]

SectionRight(M, d, p, sec) ==
    /\ IF sec.loop THEN LoopRight(M, d, p, sec.inits, sec.body) ELSE StraightRight(M, d, p, sec.body)
    /\ \A i \in DOMAIN sec.fins :
          /\ M[<<sec.fins[i].buf, 0>>] = d[sec.fins[i].args[1]][Last1]
          /\ Untouched(M, p, sec.fins[i].buf)

InputsKept(M, p) == \A a \in Cells : a[1] \in Inputs => M[a] = Initially(p, a)

CellsOf(B) == {a \in Cells : a[1] \in B}

(* Between sections. *)
Between(st, base, old, p, M, d, done) ==
    /\ DOMAIN st.env = base /\ \A v \in base : st.env[v] = d[v][Last1]
    /\ MemAt(st.mem, old, p, M, done)

(* Cells that keep their initial value may count as final. *)
LEMMA MemMore ==
    ASSUME NEW mem, NEW old, NEW p, NEW M, NEW done, NEW more,
           MemAt(mem, old, p, M, done), Fresh(old, p, done),
           \A a \in Cells : a \in done => a \in more,
           \A a \in Cells : a \in more /\ a \notin done => M[a] = Initially(p, a)
    PROVE  MemAt(mem, old, p, M, more)
  <1>1. SUFFICES ASSUME NEW b \in Buf, NEW q \in Points, NEW t \in Rs
                 PROVE  mem[<<b, q, t>>] =
                          IF q = p /\ <<b, t>> \in more THEN M[<<b, t>>] ELSE old[<<b, q, t>>]
    BY DEF MemAt
  <1>2. mem[<<b, q, t>>] = IF q = p /\ <<b, t>> \in done THEN M[<<b, t>>] ELSE old[<<b, q, t>>]
    BY DEF MemAt
  <1>3. <<b, t>> \in Cells /\ <<b, t>>[1] = b /\ <<b, t>>[2] = t
    BY DEF Cells
  <1>4. <<b, t>> \notin done => old[<<b, p, t>>] = Initially(p, <<b, t>>)
    BY <1>3 DEF Fresh
  <1> QED
    BY <1>2, <1>3, <1>4

(* The initializers of a loop. *)
LEMMA InitsFollow ==
    ASSUME NEW st \in State, NEW ins, ProperAll(ins), NEW p \in Points,
           NEW M, NEW d, NEW base, NEW old, NEW done,
           \A i \in DOMAIN ins : InitShape(ins[i]),
           base \cap Initialized(ins) = {}, base \subseteq Var,
           Between(st, base, old, p, M, d, done), Fresh(old, p, done)
    PROVE  /\ DOMAIN RunAll(st, ins, p, 0).env = base \cup Initialized(ins)
           /\ \A v \in base : RunAll(st, ins, p, 0).env[v] = d[v][Last1]
           /\ \A v \in Initialized(ins) :
                 RunAll(st, ins, p, 0).env[v] = IF v[1] = "acc" THEN Unit ELSE Undef
           /\ MemAt(RunAll(st, ins, p, 0).mem, old, p, M, done)
  <1> DEFINE d0 == [v \in Var |-> [r \in Rs |->
                       IF v \notin Initialized(ins) THEN d[v][Last1]
                       ELSE IF v[1] = "acc" THEN Unit ELSE Undef]]
  <1>1. PICK n \in Nat : n = Len(ins) /\ DOMAIN ins = 1..n
    BY LenProperties DEF ProperAll
  <1>2. Initialized(ins) = AssignedBy(ins, n + 1) /\ \A v : v \in Initialized(ins) <=> Assigned(ins, n + 1, v)
    BY <1>1 DEF InitShape, Initialized, Declares, AssignedBy, Assigned, Writes
  <1>3. /\ \A v \in base : d0[v][Last1] = d[v][Last1]
        /\ \A v \in Initialized(ins) : v \in Var /\ d0[v][0] = IF v[1] = "acc" THEN Unit ELSE Undef
    <2>1. Initialized(ins) \subseteq Var
      BY DEF Initialized, Declares, ProperAll, Proper
    <2> QED
      BY <2>1, Zero DEF Last1
  <1> HIDE DEF d0
  <1>4. EnvAt(st.env, base, d0, <<>>, ins, 1, 0)
    <2>1. Initialized(<<>>) = {} /\ AssignedBy(ins, 1) = {} /\ \A v : ~Assigned(ins, 1, v)
      BY <1>1 DEF Initialized, Declares, AssignedBy, Assigned
    <2> QED
      BY <1>3, <2>1 DEF EnvAt, Between, Worth
  <1>5. \A i \in DOMAIN ins : /\ Supplied(M, p, <<>>, base, ins, i, 0, done)
                              /\ Right(M, d0, p, <<>>, ins, i, 0)
    <2>1. TAKE i \in DOMAIN ins
    <2>2. InitShape(ins[i]) /\ ~Writes(ins[i]) /\ ArgsOf(ins[i]) = {}
      BY DEF InitShape, Writes, ArgsOf
    <2>3. Supplied(M, p, <<>>, base, ins, i, 0, done)
      BY <2>2 DEF Supplied, InitShape, Writes
    <2>4. ins[i].dst \in Initialized(ins)
      BY DEF InitShape, Initialized, Declares
    <2>5. Right(M, d0, p, <<>>, ins, i, 0)
      <3>1. CASE ins[i].op = "init"
        BY <1>3, <2>2, <2>4, <3>1 DEF Right, Told, Outcome, InitShape
      <3>2. CASE ins[i].op = "uninit"
        BY <1>3, <2>2, <2>4, <3>2 DEF Right, Told, Outcome, InitShape
      <3> QED
        BY <2>2, <3>1, <3>2 DEF InitShape
    <2> QED
      BY <2>3, <2>5
  <1>6. StateAt(RunAll(st, ins, p, 0), base, old, p, M, d0, <<>>, ins, n + 1, 0, done)
    <2>1. 0 \in Rs /\ MemAt(st.mem, old, p, M, done)
      BY Zero DEF Between
    <2> QED
      BY <1>1, <1>4, <1>5, <2>1, SequenceFollows
  <1>7. Initialized(<<>>) = {} /\ CellsBefore(ins, n + 1, 0) = {}
    BY DEF Initialized, Declares, CellsBefore, InitShape, Writes
  <1>8. PICK new : new = RunAll(st, ins, p, 0)
    OBVIOUS
  <1>9. DOMAIN new.env = base \cup Initialized(ins)
    BY <1>2, <1>6, <1>7, <1>8 DEF StateAt, EnvAt
  <1>10. \A v \in DOMAIN new.env : new.env[v] = Worth(d0, <<>>, ins, n + 1, v, 0)
    BY <1>6, <1>8 DEF StateAt, EnvAt
  <1>11. \A v \in Initialized(ins) : Worth(d0, <<>>, ins, n + 1, v, 0) = d0[v][0]
    BY <1>2 DEF Worth
  <1>12. \A v \in base : Worth(d0, <<>>, ins, n + 1, v, 0) = d0[v][Last1]
    BY <1>2, <1>7 DEF Worth
  <1>13. MemAt(new.mem, old, p, M, done)
    BY <1>6, <1>7, <1>8 DEF StateAt
  <1> QED
    BY <1>3, <1>8, <1>9, <1>10, <1>11, <1>12, <1>13

(* The finalizers of a loop. *)
LEMMA FinsFollow ==
    ASSUME NEW st \in State, NEW fins0, ProperAll(fins0), NEW p \in Points, NEW M, NEW d,
           NEW base, NEW old, NEW done,
           Between(st, base, old, p, M, d, done), Fresh(old, p, done),
           \A i \in DOMAIN fins0 :
              /\ fins0[i].op = "store" /\ fins0[i].dst = None /\ fins0[i].idx \in RowIdx
              /\ ArgsOf(fins0[i]) \subseteq base
              /\ M[<<fins0[i].buf, 0>>] = d[fins0[i].args[1]][Last1]
    PROVE  Between(RunAll(st, fins0, p, 0), base, old, p, M, d,
                   done \cup {<<fins0[i].buf, 0>> : i \in DOMAIN fins0})
  <1>1. PICK n \in Nat : n = Len(fins0) /\ DOMAIN fins0 = 1..n
    BY LenProperties DEF ProperAll
  <1>2. /\ Initialized(<<>>) = {} /\ \A i : AssignedBy(fins0, i) = {}
        /\ \A i, v : v \in Var => ~Assigned(fins0, i, v)
    <2>1. Initialized(<<>>) = {}
      BY DEF Initialized, Declares
    <2>2. \A i : AssignedBy(fins0, i) = {}
      BY DEF AssignedBy, Writes
    <2>3. \A i, v : v \in Var => ~Assigned(fins0, i, v)
      BY NamesAssumption DEF Assigned
    <2> QED
      BY <2>1, <2>2, <2>3
  <1>3. base \subseteq Var
    BY EnvIs DEF Between, State
  <1>4. EnvAt(st.env, base, d, <<>>, fins0, 1, 0)
    BY <1>2, <1>3 DEF Between, EnvAt, Worth
  <1>5. \A i \in DOMAIN fins0 : /\ Supplied(M, p, <<>>, base, fins0, i, 0, done)
                                /\ Right(M, d, p, <<>>, fins0, i, 0)
    <2>1. TAKE i \in DOMAIN fins0
    <2>2. Supplied(M, p, <<>>, base, fins0, i, 0, done)
      BY DEF Supplied, Writes
    <2>3. Cell(fins0[i], 0) = <<fins0[i].buf, 0>>
      BY NamesAssumption DEF Cell, Place
    <2>4. 1 \in DOMAIN fins0[i].args /\ fins0[i].args[1] \in Var
      <3>1. fins0[i].args \in Seq(Var) /\ Len(fins0[i].args) = 1
        BY DEF ProperAll, Proper, Stmt
      <3>2. PICK xs \in Seq(Var) : xs = fins0[i].args
        BY <3>1
      <3> QED
        BY <3>1, <3>2
    <2>5. Worth(d, <<>>, fins0, i, fins0[i].args[1], 0) = d[fins0[i].args[1]][Last1]
      BY <1>2, <2>4 DEF Worth
    <2>6. Right(M, d, p, <<>>, fins0, i, 0)
      BY <2>3, <2>4, <2>5 DEF Right, Told, Outcome, Worths, Writes
    <2> QED
      BY <2>2, <2>6
  <1>6. StateAt(RunAll(st, fins0, p, 0), base, old, p, M, d, <<>>, fins0, n + 1, 0, done)
    <2>1. 0 \in Rs /\ MemAt(st.mem, old, p, M, done)
      BY Zero DEF Between
    <2> QED
      BY <1>1, <1>4, <1>5, <2>1, SequenceFollows
  <1>7. PICK new : new = RunAll(st, fins0, p, 0)
    OBVIOUS
  <1>8. DOMAIN new.env = base /\ \A v \in base : new.env[v] = Worth(d, <<>>, fins0, n + 1, v, 0)
    BY <1>2, <1>6, <1>7 DEF StateAt, EnvAt
  <1>9. \A v \in base : Worth(d, <<>>, fins0, n + 1, v, 0) = d[v][Last1]
    BY <1>2, <1>3 DEF Worth
  <1>10. CellsBefore(fins0, n + 1, 0) = {<<fins0[i].buf, 0>> : i \in DOMAIN fins0}
    BY <1>1, NamesAssumption DEF CellsBefore, Cell, Place, Writes
  <1> QED
    BY <1>6, <1>7, <1>8, <1>9, <1>10 DEF StateAt, Between

(* Turns are natural numbers. *)
LEMMA Turns0 == \A r \in Rs : ~(r < r) /\ r \in Nat
  BY SizesAssumption DEF Rs

(* What a loop body has written before turn r. *)
LoopDone(done, seq, r) == done \cup {a \in Cells : a[2] < r /\ WritesOf(seq, a[1]) # {}}

LoopNames(ins, seq, base) ==
    /\ Initialized(ins) \subseteq AssignedBy(seq, Len(seq) + 1) /\ Initialized(ins) \subseteq Var
    /\ base \cap AssignedBy(seq, Len(seq) + 1) = {}

LoopAt(st, base, old, p, M, d, ins, seq, r, done) ==
    /\ EnvAt(st.env, base, d, ins, seq, 1, r)
    /\ MemAt(st.mem, old, p, M, LoopDone(done, seq, r))

(* Each statement of a body, in each turn, is supplied. *)
LEMMA LoopSupplied ==
    ASSUME NEW secs, NEW n, NEW ins, NEW seq, ProperAll(seq), NEW i \in DOMAIN seq,
           \A j \in DOMAIN seq : BodyShape(secs, n, ins, seq, j, TRUE),
           NEW p \in Points, NEW r \in Rs, NEW M, InputsKept(M, p)
    PROVE  Supplied(M, p, ins, Base(secs, n), seq, i, r,
                    LoopDone(CellsOf(WrittenBefore(secs, n)), seq, r))
  <1>1. PICK s : s = seq[i] /\ Proper(s)
    BY DEF ProperAll
  <1>2. PICK now : now = CellsOf(WrittenBefore(secs, n))
    OBVIOUS
  <1>3. s.op \in {"load", "atomic"} => s.buf \in Buf /\ Cell(s, r) \in Cells /\ Cell(s, r)[1] = s.buf
    BY <1>1, PlaceIn DEF Proper, Cell, Cells
  <1>4. ASSUME s.op = "load"
        PROVE  \/ Cell(s, r) \in LoopDone(now, seq, r) \cup CellsBefore(seq, i, r)
               \/ M[Cell(s, r)] = Initially(p, Cell(s, r))
    <2>1. CASE s.buf \in Inputs
      BY <1>3, <1>4, <2>1 DEF InputsKept
    <2>2. CASE s.buf \in WrittenBefore(secs, n)
      BY <1>2, <1>3, <1>4, <2>2 DEF CellsOf, LoopDone
    <2>3. CASE Sits(s, TRUE) /\ \E j \in WritesOf(seq, s.buf) : j < i
      <3>1. PICK j \in DOMAIN seq : j < i /\ Writes(seq[j]) /\ seq[j].buf = s.buf
        BY <2>3 DEF WritesOf, Writes
      <3>2. Cell(s, r) = <<s.buf, r>>
        BY <2>3 DEF Cell, Place, Sits
      <3>3. Cell(seq[j], r) = <<seq[j].buf, r>>
        BY <3>1 DEF Cell, Place, Sits, BodyShape
      <3> QED
        BY <3>1, <3>2, <3>3 DEF CellsBefore
    <2> QED
      BY <1>1, <1>4, <2>1, <2>2, <2>3 DEF BodyShape
  <1>5. ASSUME s.op = "atomic"
        PROVE  Cell(s, r) \notin LoopDone(now, seq, r) \cup CellsBefore(seq, i, r)
    <2>1. /\ s.buf \notin WrittenBefore(secs, n)
          /\ \A j \in WritesOf(seq, s.buf) : j >= i
          /\ Cell(s, r) = <<s.buf, r>>
      BY <1>1, <1>5 DEF BodyShape, Sits, Cell, Place, Writes
    <2>2. Cell(s, r) \notin now
      BY <1>2, <1>3, <1>5, <2>1 DEF CellsOf
    <2>3. Cell(s, r) \notin LoopDone(now, seq, r)
      BY <2>1, <2>2, Turns0 DEF LoopDone
    <2>4. ASSUME NEW j \in DOMAIN seq, j < i, Writes(seq[j]), Cell(seq[j], r) = Cell(s, r) PROVE FALSE
      <3>1. seq[j].buf = s.buf
        BY <2>4 DEF Cell
      <3>2. j \in WritesOf(seq, s.buf)
        BY <2>4, <3>1 DEF WritesOf, Writes
      <3>3. PICK len \in Nat : DOMAIN seq = 1..len
        BY LenProperties DEF ProperAll
      <3> QED
        BY <2>1, <2>4, <3>2, <3>3
    <2> QED
      BY <2>3, <2>4 DEF CellsBefore
  <1> QED
    BY <1>1, <1>2, <1>4, <1>5 DEF Supplied, BodyShape

(* One turn of a loop follows the account. *)
LEMMA TurnFollows ==
    ASSUME NEW st \in State, NEW secs, NEW n, NEW ins, NEW seq, ProperAll(seq),
           \A i \in DOMAIN seq : BodyShape(secs, n, ins, seq, i, TRUE),
           NEW p \in Points, NEW r \in Rs, NEW M, NEW d, InputsKept(M, p), NEW old,
           NEW done, done = CellsOf(WrittenBefore(secs, n)), Fresh(old, p, done),
           NEW base, base = Base(secs, n),
           Initialized(ins) \subseteq AssignedBy(seq, Len(seq) + 1), Initialized(ins) \subseteq Var,
           base \cap AssignedBy(seq, Len(seq) + 1) = {},
           \A i \in DOMAIN seq : Right(M, d, p, ins, seq, i, r),
           DOMAIN st.env = base \cup Initialized(ins),
           LoopAt(st, base, old, p, M, d, ins, seq, r, done)
    PROVE  LET next == RunBlock(st, seq, base \cup Initialized(ins), p, r)
           IN  /\ DOMAIN next.env = base \cup Initialized(ins)
               /\ LoopAt(next, base, old, p, M, d, ins, seq, r + 1, done)
  <1>1. PICK len \in Nat : len = Len(seq) /\ DOMAIN seq = 1..len
    BY LenProperties DEF ProperAll
  <1>2. PICK now : now = LoopDone(done, seq, r)
    OBVIOUS
  <1>3. Fresh(old, p, now)
    BY <1>2 DEF Fresh, LoopDone
  <1>4. \A i \in DOMAIN seq : Supplied(M, p, ins, base, seq, i, r, now)
    BY <1>2, LoopSupplied
  <1>5. PICK end \in State : end = RunAll(st, seq, p, r)
    BY RunAllType
  <1>6. StateAt(end, base, old, p, M, d, ins, seq, len + 1, r, now)
    <2>1. EnvAt(st.env, base, d, ins, seq, 1, r) /\ MemAt(st.mem, old, p, M, now)
      BY <1>2 DEF LoopAt
    <2> QED
      BY <1>1, <1>3, <1>4, <1>5, <2>1, SequenceFollows
  <1>7. PICK next : next = RunBlock(st, seq, base \cup Initialized(ins), p, r)
    OBVIOUS
  <1>8. next.mem = end.mem /\ next.env = RestrictTo(end.env, base \cup Initialized(ins))
    BY <1>5, <1>7, RunBlockIs
  <1>9. /\ DOMAIN next.env = DOMAIN end.env \cap (base \cup Initialized(ins))
        /\ \A v \in DOMAIN end.env \cap (base \cup Initialized(ins)) : next.env[v] = end.env[v]
    <2>1. PICK env \in Env : env = end.env
      BY DEF State
    <2>2. PICK scope : scope = base \cup Initialized(ins)
      OBVIOUS
    <2>3. PICK small : small = RestrictTo(env, scope)
      OBVIOUS
    <2>4. /\ DOMAIN small = DOMAIN env \cap scope
          /\ \A v \in DOMAIN env \cap scope : small[v] = env[v]
      BY <2>3, RestrictType
    <2>5. next.env = small
      BY <1>8, <2>1, <2>2, <2>3
    <2> QED
      BY <2>1, <2>2, <2>4, <2>5
  <1>10. /\ DOMAIN end.env = base \cup Initialized(ins) \cup AssignedBy(seq, len + 1)
         /\ \A v \in DOMAIN end.env : end.env[v] = Worth(d, ins, seq, len + 1, v, r)
    BY <1>6 DEF StateAt, EnvAt
  <1>11. DOMAIN next.env = base \cup Initialized(ins)
    BY <1>9, <1>10
  <1>12. AssignedBy(seq, 1) = {} /\ \A v : ~Assigned(seq, 1, v)
    BY <1>1 DEF AssignedBy, Assigned
  <1>13. \A v : v \in AssignedBy(seq, len + 1) => Assigned(seq, len + 1, v)
    BY DEF AssignedBy, Assigned
  <1>14. \A v : v \in Var /\ Assigned(seq, len + 1, v) => v \in AssignedBy(seq, len + 1)
    BY NamesAssumption DEF AssignedBy, Assigned, BodyShape
  <1>15. \A v \in base \cup Initialized(ins) :
            Worth(d, ins, seq, len + 1, v, r) = Worth(d, ins, seq, 1, v, r + 1)
    <2>1. r + 1 # 0 /\ (r + 1) - 1 = r
      BY Turns0
    <2>2. ASSUME NEW v \in Initialized(ins)
          PROVE  Worth(d, ins, seq, len + 1, v, r) = Worth(d, ins, seq, 1, v, r + 1)
      <3>1. Assigned(seq, len + 1, v)
        BY <1>1, <1>13
      <3>2. Worth(d, ins, seq, len + 1, v, r) = d[v][r]
        BY <3>1 DEF Worth
      <3>3. Worth(d, ins, seq, 1, v, r + 1) = d[v][(r + 1) - 1]
        BY <1>12, <2>1 DEF Worth
      <3> QED
        BY <2>1, <3>2, <3>3
    <2>3. ASSUME NEW v \in base, v \notin Initialized(ins)
          PROVE  Worth(d, ins, seq, len + 1, v, r) = Worth(d, ins, seq, 1, v, r + 1)
      <3>1. v \in Var
        BY DEF Base
      <3>2. ~Assigned(seq, len + 1, v)
        BY <1>1, <1>14, <3>1
      <3> QED
        BY <1>12, <2>3, <3>2 DEF Worth
    <2> QED
      BY <2>2, <2>3
  <1>16. EnvAt(next.env, base, d, ins, seq, 1, r + 1)
    BY <1>9, <1>10, <1>11, <1>12, <1>15 DEF EnvAt
  <1>17. MemAt(next.mem, old, p, M, LoopDone(done, seq, r + 1))
    <2>1. MemAt(next.mem, old, p, M, now \cup CellsBefore(seq, len + 1, r))
      BY <1>6, <1>8 DEF StateAt
    <2>2. \A a \in Cells : a \in now \cup CellsBefore(seq, len + 1, r) <=> a \in LoopDone(done, seq, r + 1)
      <3>1. \A j \in DOMAIN seq : Writes(seq[j]) => Cell(seq[j], r) = <<seq[j].buf, r>>
        BY DEF BodyShape, Sits, Cell, Place
      <3>2. \A a \in Cells : a = <<a[1], a[2]>> /\ a[2] \in Nat
        BY Turns0 DEF Cells
      <3>3. \A a \in Cells : a \in CellsBefore(seq, len + 1, r) <=> a[2] = r /\ WritesOf(seq, a[1]) # {}
        <4>1. TAKE a \in Cells
        <4>2. ASSUME a \in CellsBefore(seq, len + 1, r) PROVE a[2] = r /\ WritesOf(seq, a[1]) # {}
          <5>1. PICK j \in DOMAIN seq : Writes(seq[j]) /\ a = Cell(seq[j], r)
            BY <4>2 DEF CellsBefore
          <5>2. a[1] = seq[j].buf /\ a[2] = r
            BY <3>1, <5>1
          <5>3. j \in WritesOf(seq, a[1])
            BY <5>1, <5>2 DEF WritesOf, Writes
          <5> QED
            BY <5>2, <5>3
        <4>3. ASSUME a[2] = r, WritesOf(seq, a[1]) # {} PROVE a \in CellsBefore(seq, len + 1, r)
          <5>1. PICK j \in DOMAIN seq : Writes(seq[j]) /\ seq[j].buf = a[1]
            BY <4>3 DEF WritesOf, Writes
          <5>2. a = Cell(seq[j], r) /\ j < len + 1
            BY <1>1, <3>1, <3>2, <4>3, <5>1
          <5> QED
            BY <5>1, <5>2 DEF CellsBefore
        <4> QED
          BY <4>2, <4>3
      <3>4. \A a \in Cells : a[2] < r + 1 <=> a[2] < r \/ a[2] = r
        BY <3>2, Turns0
      <3> QED
        BY <1>2, <3>3, <3>4 DEF LoopDone
    <2>3. Fresh(old, p, now \cup CellsBefore(seq, len + 1, r))
      BY <1>3 DEF Fresh
    <2> QED
      BY <2>1, <2>2, <2>3, MemMore
  <1> QED
    BY <1>7, <1>11, <1>16, <1>17 DEF LoopAt

(* The turns of a loop follow the account. *)
LoopReady(entered, secs, n, ins, seq, p, M, d, old, done, base) ==
    /\ ProperAll(seq) /\ BodyShaped(secs, n, ins, seq, TRUE)
    /\ InputsKept(M, p)
    /\ done = CellsOf(WrittenBefore(secs, n)) /\ Fresh(old, p, done)
    /\ base = Base(secs, n) /\ LoopNames(ins, seq, base)
    /\ LoopRight(M, d, p, ins, seq)
    /\ DOMAIN entered.env = base \cup Initialized(ins)
    /\ LoopAt(entered, base, old, p, M, d, ins, seq, 0, done)

(* All turns do. *)
LEMMA LoopFollows ==
    ASSUME NEW entered \in State, NEW secs, NEW n, NEW ins, NEW seq, NEW p \in Points, NEW M, NEW d,
           NEW old, NEW done, NEW base,
           LoopReady(entered, secs, n, ins, seq, p, M, d, old, done, base)
    PROVE  /\ RunLoop(entered, seq, p) \in State
           /\ DOMAIN RunLoop(entered, seq, p).env = base \cup Initialized(ins)
           /\ LoopAt(RunLoop(entered, seq, p), base, old, p, M, d, ins, seq, ReductionSize, done)
  <1>0. /\ ProperAll(seq) /\ BodyShaped(secs, n, ins, seq, TRUE)
        /\ InputsKept(M, p)
        /\ done = CellsOf(WrittenBefore(secs, n)) /\ Fresh(old, p, done)
        /\ base = Base(secs, n) /\ LoopNames(ins, seq, base)
        /\ LoopRight(M, d, p, ins, seq)
        /\ DOMAIN entered.env = base \cup Initialized(ins)
        /\ LoopAt(entered, base, old, p, M, d, ins, seq, 0, done)
    BY DEF LoopReady
  <1>1. PICK len \in Nat : len = ReductionSize /\ \A k \in 1..len : k - 1 \in Rs
    BY Sizes
  <1>2. PICK f \in [0..len -> State] :
          /\ f[0] = entered
          /\ \A k \in 1..len : f[k] = RunBlock(f[k - 1], seq, DOMAIN entered.env, p, k - 1)
          /\ RunLoop(entered, seq, p) = f[len]
    <2>1. PICK f : Turned(f, entered, seq, p)
      BY <1>0, RunLoopIs
    <2> QED
      BY <1>1, <2>1 DEF Turned
  <1> DEFINE Here(k) == /\ DOMAIN f[k].env = base \cup Initialized(ins)
                        /\ LoopAt(f[k], base, old, p, M, d, ins, seq, k, done)
             T == {k \in 0..len : Here(k)}
  <1>3. 0 \in T
    BY <1>0, <1>2
  <1>4. \A k \in 1..len : k - 1 \in T => k \in T
    <2>1. SUFFICES ASSUME NEW k \in 1..len, k - 1 \in T PROVE k \in T
      OBVIOUS
    <2>2. PICK r \in Rs, st \in State : r = k - 1 /\ st = f[k - 1]
      BY <1>1, <1>2
    <2>3. DOMAIN st.env = base \cup Initialized(ins) /\ LoopAt(st, base, old, p, M, d, ins, seq, r, done)
      BY <2>1, <2>2
    <2>4. /\ \A i \in DOMAIN seq : Right(M, d, p, ins, seq, i, r)
          /\ \A i \in DOMAIN seq : BodyShape(secs, n, ins, seq, i, TRUE)
      BY <1>0 DEF LoopRight, BodyShaped
    <2>5. PICK next : next = RunBlock(st, seq, base \cup Initialized(ins), p, r)
      OBVIOUS
    <2>0. /\ Initialized(ins) \subseteq AssignedBy(seq, Len(seq) + 1) /\ Initialized(ins) \subseteq Var
          /\ base \cap AssignedBy(seq, Len(seq) + 1) = {}
      BY <1>0 DEF LoopNames
    <2>6. DOMAIN next.env = base \cup Initialized(ins) /\ LoopAt(next, base, old, p, M, d, ins, seq, r + 1, done)
      BY <1>0, <2>0, <2>3, <2>4, <2>5, TurnFollows
    <2>7. f[k] = next /\ r + 1 = k
      <3>1. f[k] = RunBlock(f[k - 1], seq, DOMAIN entered.env, p, k - 1)
        BY <1>2
      <3>2. f[k] = RunBlock(st, seq, DOMAIN entered.env, p, r)
        BY <2>2, <3>1
      <3>3. DOMAIN entered.env = base \cup Initialized(ins)
        BY <1>0
      <3>4. f[k] = next
        BY <2>5, <3>2, <3>3
      <3>5. r + 1 = k
        BY <2>2
      <3> QED
        BY <3>4, <3>5
    <2> QED
      BY <2>6, <2>7
  <1>5. \A k \in 0..len : k \in T
    <2> HIDE DEF T
    <2> QED
      BY <1>3, <1>4, UpTo
  <1>6. len \in T /\ f[len] \in State
    BY <1>2, <1>5
  <1> QED
    BY <1>1, <1>2, <1>6

(* A straight-line section. *)
LEMMA StraightFollows ==
    ASSUME NEW st \in State, NEW secs, NEW n, NEW seq, ProperAll(seq),
           BodyShaped(secs, n, <<>>, seq, FALSE),
           NEW p \in Points, NEW M, NEW d, InputsKept(M, p), NEW old,
           NEW done, done = CellsOf(WrittenBefore(secs, n)), Fresh(old, p, done),
           NEW base, base = Base(secs, n),
           StraightRight(M, d, p, seq),
           Between(st, base, old, p, M, d, done),
           NEW wide, wide = base \cup AssignedBy(seq, Len(seq) + 1),
           NEW wider, wider = done \cup {a \in Cells : WritesOf(seq, a[1]) # {}}
    PROVE  Between(RunAll(st, seq, p, 0), wide, old, p, M, d, wider)
  <1>0. /\ \A i \in DOMAIN seq : BodyShape(secs, n, <<>>, seq, i, FALSE)
        /\ \A i \in DOMAIN seq :
              /\ Right(M, d, p, <<>>, seq, i, 0)
              /\ IF Writes(seq[i]) THEN Untouched(M, p, seq[i].buf)
                 ELSE d[seq[i].dst][0] = d[seq[i].dst][Last1]
    BY DEF BodyShaped, StraightRight
  <1>1. PICK len \in Nat : len = Len(seq) /\ DOMAIN seq = 1..len
    BY LenProperties DEF ProperAll
  <1>2. 0 \in Rs /\ Initialized(<<>>) = {}
    BY Zero DEF Initialized, Declares
  <1>3. \A i \in DOMAIN seq : Supplied(M, p, <<>>, base, seq, i, 0, done)
    <2>1. TAKE i \in DOMAIN seq
    <2>2. PICK s : s = seq[i] /\ Proper(s)
      BY DEF ProperAll
    <2>3. s.op \in {"load", "atomic"} => s.buf \in Buf /\ Cell(s, 0) \in Cells /\ Cell(s, 0)[1] = s.buf
      BY <1>2, <2>2, PlaceIn DEF Proper, Cell, Cells
    <2>4. ASSUME s.op = "load"
          PROVE  \/ Cell(s, 0) \in done \cup CellsBefore(seq, i, 0)
                 \/ M[Cell(s, 0)] = Initially(p, Cell(s, 0))
      <3>1. CASE s.buf \in Inputs
        BY <2>3, <2>4, <3>1 DEF InputsKept
      <3>2. CASE s.buf \in WrittenBefore(secs, n)
        BY <2>3, <2>4, <3>2 DEF CellsOf
      <3>3. CASE \E j \in WritesOf(seq, s.buf) : j < i
        <4>1. PICK j \in DOMAIN seq : j < i /\ Writes(seq[j]) /\ seq[j].buf = s.buf
          BY <3>3 DEF WritesOf, Writes
        <4>2. Cell(s, 0) = <<s.buf, 0>> /\ Cell(seq[j], 0) = <<seq[j].buf, 0>>
          BY DEF Cell, Place
        <4> QED
          BY <4>1, <4>2 DEF CellsBefore
      <3> QED
        BY <1>0, <2>2, <2>4, <3>1, <3>2, <3>3 DEF BodyShape
    <2>5. ASSUME s.op = "atomic"
          PROVE  Cell(s, 0) \notin done \cup CellsBefore(seq, i, 0)
      <3>1. /\ s.buf \notin WrittenBefore(secs, n)
            /\ \A j \in WritesOf(seq, s.buf) : j >= i
        BY <1>0, <2>2, <2>5 DEF BodyShape
      <3>2. Cell(s, 0) \notin done
        BY <2>3, <2>5, <3>1 DEF CellsOf
      <3>3. ASSUME NEW j \in DOMAIN seq, j < i, Writes(seq[j]), Cell(seq[j], 0) = Cell(s, 0) PROVE FALSE
        <4>1. seq[j].buf = s.buf
          BY <3>3 DEF Cell
        <4>2. j \in WritesOf(seq, s.buf)
          BY <3>3, <4>1 DEF WritesOf, Writes
        <4> QED
          BY <1>1, <3>1, <3>3, <4>2
      <3> QED
        BY <3>2, <3>3 DEF CellsBefore
    <2> QED
      BY <1>0, <2>2, <2>4, <2>5 DEF Supplied, BodyShape
  <1>4. base \subseteq Var
    BY DEF Base
  <1>5. EnvAt(st.env, base, d, <<>>, seq, 1, 0)
    <2>1. AssignedBy(seq, 1) = {} /\ \A v : ~Assigned(seq, 1, v)
      BY <1>1 DEF AssignedBy, Assigned
    <2> QED
      BY <1>2, <2>1 DEF EnvAt, Between, Worth
  <1>6. PICK new : new = RunAll(st, seq, p, 0)
    OBVIOUS
  <1>7. StateAt(new, base, old, p, M, d, <<>>, seq, len + 1, 0, done)
    <2>1. MemAt(st.mem, old, p, M, done)
      BY DEF Between
    <2> QED
      BY <1>0, <1>1, <1>2, <1>3, <1>5, <1>6, <2>1, SequenceFollows
  <1>8. /\ DOMAIN new.env = base \cup AssignedBy(seq, len + 1)
        /\ \A v \in DOMAIN new.env : new.env[v] = Worth(d, <<>>, seq, len + 1, v, 0)
    BY <1>2, <1>7 DEF StateAt, EnvAt
  <1>9. \A v : v \in Var /\ Assigned(seq, len + 1, v) => d[v][0] = d[v][Last1]
    BY <1>0, NamesAssumption DEF Assigned, BodyShape
  <1>10. AssignedBy(seq, len + 1) \subseteq Var
    BY DEF AssignedBy, ProperAll, Proper, Writes
  <1>11. \A v \in DOMAIN new.env : new.env[v] = d[v][Last1]
    BY <1>2, <1>4, <1>8, <1>9, <1>10 DEF Worth
  <1>12. MemAt(new.mem, old, p, M, done \cup {a \in Cells : WritesOf(seq, a[1]) # {}})
    <2>1. MemAt(new.mem, old, p, M, done \cup CellsBefore(seq, len + 1, 0))
      BY <1>7 DEF StateAt
    <2>2. Fresh(old, p, done \cup CellsBefore(seq, len + 1, 0))
      BY DEF Fresh
    <2>3. \A j \in DOMAIN seq : Writes(seq[j]) => Cell(seq[j], 0) = <<seq[j].buf, 0>>
      BY DEF Cell, Place
    <2>4. \A a \in Cells : a \in CellsBefore(seq, len + 1, 0) => WritesOf(seq, a[1]) # {}
      <3>1. TAKE a \in Cells
      <3>2. HAVE a \in CellsBefore(seq, len + 1, 0)
      <3>3. PICK j \in DOMAIN seq : Writes(seq[j]) /\ a = Cell(seq[j], 0)
        BY <3>2 DEF CellsBefore
      <3>4. j \in WritesOf(seq, a[1])
        BY <2>3, <3>3 DEF WritesOf, Writes
      <3> QED
        BY <3>4
    <2>5. \A a \in Cells : WritesOf(seq, a[1]) # {} /\ a \notin CellsBefore(seq, len + 1, 0)
                              => M[a] = Initially(p, a)
      <3>1. TAKE a \in Cells
      <3>2. HAVE WritesOf(seq, a[1]) # {} /\ a \notin CellsBefore(seq, len + 1, 0)
      <3>3. PICK j \in DOMAIN seq : Writes(seq[j]) /\ seq[j].buf = a[1]
        BY <3>2 DEF WritesOf, Writes
      <3>4. a = <<a[1], a[2]>> /\ a[2] \in Rs
        BY DEF Cells
      <3>5. a # <<a[1], 0>>
        <4>1. j < len + 1
          BY <1>1
        <4> QED
          BY <2>3, <3>2, <3>3, <4>1 DEF CellsBefore
      <3>6. Untouched(M, p, a[1])
        BY <1>0, <3>3
      <3> QED
        BY <3>4, <3>5, <3>6 DEF Untouched
    <2>6. PICK now, more : now = done \cup CellsBefore(seq, len + 1, 0) /\ more = done \cup {a \in Cells : WritesOf(seq, a[1]) # {}}
      OBVIOUS
    <2>7. (\A a \in Cells : a \in now => a \in more) /\ (\A a \in Cells : a \in more /\ a \notin now => M[a] = Initially(p, a))
      BY <2>4, <2>5, <2>6
    <2> QED
      BY <2>1, <2>2, <2>6, <2>7, MemMore
  <1> QED
    BY <1>1, <1>6, <1>8, <1>11, <1>12 DEF Between

(* A section follows the account: what it leaves in scope is what the      *)
(* account says at the end, and what it writes is final.                   *)
LEMMA SectionFollows ==
    ASSUME NEW st \in State, NEW secs, NEW n \in DOMAIN secs, DOMAIN secs \subseteq Nat, Shaped(secs, n),
           NEW p \in Points, NEW M, NEW d, InputsKept(M, p), SectionRight(M, d, p, secs[n]), NEW old,
           Fresh(old, p, CellsOf(WrittenBefore(secs, n))),
           Between(st, Base(secs, n), old, p, M, d, CellsOf(WrittenBefore(secs, n)))
    PROVE  Between(RunSection(st, secs[n], p), Base(secs, n) \cup Kept(secs[n]), old, p, M, d,
                   CellsOf({b \in Buf : b \in WrittenBefore(secs, n) \/ SectionWrites(secs[n], b)}))
  <1>1. PICK sec : sec = secs[n]
    OBVIOUS
  <1>2. PICK ins, seq, fs : ins = sec.inits /\ seq = sec.body /\ fs = sec.fins
    OBVIOUS
  <1>3. PICK base, done : base = Base(secs, n) /\ done = CellsOf(WrittenBefore(secs, n))
    OBVIOUS
  <1>4. PICK more : more = CellsOf({b \in Buf : b \in WrittenBefore(secs, n) \/ SectionWrites(sec, b)})
    OBVIOUS
  <1>5. /\ ProperAll(ins) /\ ProperAll(seq) /\ ProperAll(fs) /\ sec.loop \in BOOLEAN
        /\ ~sec.loop => ins = <<>> /\ fs = <<>>
        /\ \A i \in DOMAIN ins : InitShape(ins[i])
        /\ \A i \in DOMAIN fs : FinShape(fs[i], ins, base)
        /\ BodyShaped(secs, n, ins, seq, sec.loop)
        /\ Initialized(ins) \subseteq AssignedBy(seq, Len(seq) + 1)
        /\ base \cap (Initialized(ins) \cup AssignedBy(seq, Len(seq) + 1)) = {}
    BY <1>1, <1>2, <1>3 DEF Shaped, ProperSection
  <1>6. /\ sec.loop => LoopRight(M, d, p, ins, seq)
        /\ ~sec.loop => StraightRight(M, d, p, seq)
        /\ \A i \in DOMAIN fs : M[<<fs[i].buf, 0>>] = d[fs[i].args[1]][Last1] /\ Untouched(M, p, fs[i].buf)
    BY <1>1, <1>2 DEF SectionRight
  <1>7. \A b : SectionWrites(sec, b) <=> WritesOf(seq, b) # {} \/ WritesOf(fs, b) # {}
    BY <1>2 DEF SectionWrites
  <1>8. \A a \in Cells : a \in more <=> a \in done \/ WritesOf(seq, a[1]) # {} \/ WritesOf(fs, a[1]) # {}
    <2>1. \A a \in Cells : a[1] \in Buf
      BY DEF Cells
    <2> QED
      BY <1>3, <1>4, <1>7, <2>1 DEF CellsOf
  <1>9. PICK new : new = RunSection(st, sec, p)
    OBVIOUS
  <1>10. Between(st, base, old, p, M, d, done) /\ Fresh(old, p, done)
    BY <1>3
  <1>11. CASE ~sec.loop
    <2>1. ins = <<>> /\ fs = <<>> /\ new = RunAll(st, seq, p, 0) /\ Kept(sec) = AssignedBy(seq, Len(seq) + 1)
      BY <1>2, <1>5, <1>9, <1>11 DEF RunSection, Kept
    <2>2. BodyShaped(secs, n, <<>>, seq, FALSE)
      BY <1>5, <1>11, <2>1
    <2>3. StraightRight(M, d, p, seq)
      BY <1>6, <1>11
    <2>4. PICK wide, wider : /\ wide = base \cup AssignedBy(seq, Len(seq) + 1)
                             /\ wider = done \cup {a \in Cells : WritesOf(seq, a[1]) # {}}
      OBVIOUS
    <2>5. Between(new, wide, old, p, M, d, wider)
      BY <1>3, <1>5, <1>10, <2>1, <2>2, <2>3, <2>4, StraightFollows
    <2>6. \A a \in Cells : a \in wider <=> a \in more
      BY <1>8, <2>1, <2>4 DEF WritesOf
    <2>7. Fresh(old, p, wider)
      BY <1>10, <2>4 DEF Fresh
    <2>8. MemAt(new.mem, old, p, M, more)
      BY <2>5, <2>6, <2>7, MemMore DEF Between
    <2> QED
      BY <1>1, <1>3, <1>4, <1>9, <2>1, <2>4, <2>5, <2>8 DEF Between
  <1>12. CASE sec.loop
    <2>0. Initialized(ins) \subseteq Var /\ base \subseteq Var
      BY <1>3, <1>5 DEF Base, AssignedBy, ProperAll, Proper, Writes
    <2>1. PICK entered \in State : entered = RunAll(st, ins, p, 0)
      BY <1>5, Zero, RunAllType
    <2>2. /\ DOMAIN entered.env = base \cup Initialized(ins)
          /\ \A v \in base : entered.env[v] = d[v][Last1]
          /\ \A v \in Initialized(ins) : entered.env[v] = IF v[1] = "acc" THEN Unit ELSE Undef
          /\ MemAt(entered.mem, old, p, M, done)
      <3>1. base \cap Initialized(ins) = {}
        BY <1>5
      <3> QED
        BY <1>5, <1>10, <2>0, <2>1, <3>1, InitsFollow
    <2>3. LoopAt(entered, base, old, p, M, d, ins, seq, 0, done)
      <3>1. AssignedBy(seq, 1) = {} /\ \A v : ~Assigned(seq, 1, v)
        <4>1. PICK len \in Nat : DOMAIN seq = 1..len
          BY <1>5, LenProperties DEF ProperAll
        <4> QED
          BY <4>1 DEF AssignedBy, Assigned
      <3>2. EnvAt(entered.env, base, d, ins, seq, 1, 0)
        BY <1>5, <2>2, <3>1 DEF EnvAt, Worth
      <3>3. LoopDone(done, seq, 0) = done
        <4>1. \A a \in Cells : ~(a[2] < 0)
          BY Turns0 DEF Cells
        <4> QED
          BY <4>1 DEF LoopDone
      <3> QED
        BY <2>2, <3>2, <3>3 DEF LoopAt
    <2>4. PICK left, wide : left = RunLoop(entered, seq, p) /\ wide = base \cup Initialized(ins)
      OBVIOUS
    <2>5. /\ left \in State /\ DOMAIN left.env = wide
          /\ LoopAt(left, base, old, p, M, d, ins, seq, ReductionSize, done)
      <3>1. BodyShaped(secs, n, ins, seq, TRUE)
        BY <1>5, <1>12
      <3>2. LoopRight(M, d, p, ins, seq)
        BY <1>6, <1>12
      <3>3. LoopNames(ins, seq, base)
        BY <1>5, <2>0 DEF LoopNames
      <3>4. LoopReady(entered, secs, n, ins, seq, p, M, d, old, done, base)
        BY <1>3, <1>5, <1>10, <2>2, <2>3, <3>1, <3>2, <3>3 DEF LoopReady
      <3> QED
        BY <2>4, <3>4, LoopFollows
    <2>6. wide = base \cup Initialized(ins)
      BY <2>4
    <2>7. PICK now : now = LoopDone(done, seq, ReductionSize)
      OBVIOUS
    <2>8. Between(left, wide, old, p, M, d, now)
      <3>1. ReductionSize # 0 /\ ReductionSize - 1 = Last1
        BY SizesAssumption DEF Last1
      <3>2. \A v : ~Assigned(seq, 1, v)
        <4>1. PICK len \in Nat : DOMAIN seq = 1..len
          BY <1>5, LenProperties DEF ProperAll
        <4> QED
          BY <4>1 DEF Assigned
      <3>3. \A v \in wide : Worth(d, ins, seq, 1, v, ReductionSize) = d[v][Last1]
        BY <3>1, <3>2 DEF Worth
      <3> QED
        BY <2>5, <2>6, <2>7, <3>3 DEF Between, LoopAt, EnvAt
    <2>9. Fresh(old, p, now)
      BY <1>10, <2>7 DEF Fresh, LoopDone
    <2>10. new = RunAll(left, fs, p, 0) /\ Kept(sec) = Initialized(ins)
      BY <1>2, <1>9, <1>12, <2>1, <2>4 DEF RunSection, Kept
    <2>11. PICK after : after = now \cup {<<fs[i].buf, 0>> : i \in DOMAIN fs}
      OBVIOUS
    <2>12. Between(new, wide, old, p, M, d, after)
      <3>1. \A i \in DOMAIN fs :
              /\ fs[i].op = "store" /\ fs[i].dst = None /\ fs[i].idx \in RowIdx
              /\ ArgsOf(fs[i]) \subseteq wide
              /\ M[<<fs[i].buf, 0>>] = d[fs[i].args[1]][Last1]
        BY <1>5, <1>6, <2>6 DEF FinShape
      <3> QED
        BY <1>5, <2>5, <2>8, <2>9, <2>10, <2>11, <3>1, FinsFollow
    <2>13. \A a \in Cells : a = <<a[1], a[2]>> /\ a[2] \in Rs /\ a[2] < ReductionSize
      BY SizesAssumption DEF Cells, Rs
    <2>14. \A a \in Cells : a \in now <=> a \in done \/ WritesOf(seq, a[1]) # {}
      BY <2>7, <2>13 DEF LoopDone
    <2>15. \A a \in Cells : a \in after => a \in more
      <3>1. \A i \in DOMAIN fs : i \in WritesOf(fs, fs[i].buf)
        BY <1>5 DEF WritesOf, FinShape
      <3> QED
        BY <1>8, <2>11, <2>14, <3>1
    <2>16. \A a \in Cells : a \in more /\ a \notin after => M[a] = Initially(p, a)
      <3>1. TAKE a \in Cells
      <3>2. HAVE a \in more /\ a \notin after
      <3>3. PICK i \in DOMAIN fs : fs[i].buf = a[1]
        BY <1>8, <2>11, <2>14, <3>2 DEF WritesOf
      <3>4. a[2] # 0 /\ Untouched(M, p, a[1])
        BY <1>6, <2>11, <2>13, <3>2, <3>3
      <3> QED
        BY <2>13, <3>4 DEF Untouched
    <2>17. Fresh(old, p, after)
      BY <2>9, <2>11 DEF Fresh
    <2>18. MemAt(new.mem, old, p, M, more)
      BY <2>12, <2>15, <2>16, <2>17, MemMore DEF Between
    <2> QED
      BY <1>1, <1>3, <1>4, <1>9, <2>6, <2>10, <2>12, <2>18 DEF Between
  <1> QED
    BY <1>5, <1>11, <1>12

-----------------------------------------------------------------------------
(* The region follows the account.                                         *)

RegionAccount(M, d, p, secs) ==
    /\ InputsKept(M, p)
    /\ \A n \in DOMAIN secs : SectionRight(M, d, p, secs[n])
    /\ \A b \in Buf : \/ \E n \in DOMAIN secs : SectionWrites(secs[n], b)
                      \/ \A t \in Rs : M[<<b, t>>] = Initially(p, <<b, t>>)

(* At one point. *)
LEMMA SectionsFollow ==
    ASSUME NEW mem \in Mem, NEW secs \in Seq(Section), \A n \in DOMAIN secs : Shaped(secs, n),
           NEW p \in Points, NEW M, NEW d, RegionAccount(M, d, p, secs), Fresh(mem, p, {})
    PROVE  MemAt(RunSections(mem, secs, p), mem, p, M, Cells)
  <1>1. PICK n \in Nat : n = Len(secs) /\ DOMAIN secs = 1..n
    BY LenProperties
  <1>2. \A k \in DOMAIN secs : ProperSection(secs[k])
    BY DEF Shaped
  <1>3. PICK f : Sectioned(f, mem, secs, p)
    BY <1>2, RunSectionsIs
  <1>4. /\ f \in [0..n -> State] /\ f[0] = [mem |-> mem, env |-> <<>>]
        /\ \A k \in 1..n : f[k] = RunSection(f[k - 1], secs[k], p)
        /\ RunSections(mem, secs, p) = f[n].mem
    BY <1>1, <1>3 DEF Sectioned
  <1> DEFINE Here(k) == Between(f[k], Base(secs, k + 1), mem, p, M, d, CellsOf(WrittenBefore(secs, k + 1)))
             T == {k \in 0..n : Here(k)}
  <1>5. 0 \in T
    <2>1. Base(secs, 0 + 1) = {} /\ WrittenBefore(secs, 0 + 1) = {}
      BY <1>1 DEF Base, WrittenBefore
    <2>2. CellsOf(WrittenBefore(secs, 0 + 1)) = {}
      BY <2>1 DEF CellsOf
    <2>3. DOMAIN f[0].env = {} /\ f[0].mem = mem
      BY <1>4, EnvIs
    <2>4. Here(0)
      BY <2>1, <2>2, <2>3 DEF Between, MemAt
    <2> QED
      BY <2>4
  <1>6. \A k \in 1..n : k - 1 \in T => k \in T
    <2>1. SUFFICES ASSUME NEW k \in 1..n, k - 1 \in T PROVE k \in T
      OBVIOUS
    <2>2. PICK st \in State : st = f[k - 1]
      BY <1>4
    <2>3. Between(st, Base(secs, k), mem, p, M, d, CellsOf(WrittenBefore(secs, k)))
      BY <2>1, <2>2
    <2>4. Fresh(mem, p, CellsOf(WrittenBefore(secs, k)))
      BY DEF Fresh
    <2>5. InputsKept(M, p) /\ SectionRight(M, d, p, secs[k]) /\ Shaped(secs, k) /\ k \in DOMAIN secs
      BY <1>1 DEF RegionAccount
    <2>6. PICK new : new = RunSection(st, secs[k], p)
      OBVIOUS
    <2>7. Between(new, Base(secs, k) \cup Kept(secs[k]), mem, p, M, d,
                  CellsOf({b \in Buf : b \in WrittenBefore(secs, k) \/ SectionWrites(secs[k], b)}))
      BY <1>1, <2>3, <2>4, <2>5, <2>6, SectionFollows
    <2>8. Base(secs, k + 1) = Base(secs, k) \cup Kept(secs[k])
      <3>1. Kept(secs[k]) \subseteq Var
        <4>1. PICK sec : sec = secs[k]
          OBVIOUS
        <4>2. ProperAll(sec.body) /\ Initialized(sec.inits) \subseteq AssignedBy(sec.body, Len(sec.body) + 1)
          BY <2>5, <4>1 DEF Shaped, ProperSection
        <4>3. AssignedBy(sec.body, Len(sec.body) + 1) \subseteq Var
          BY <4>2 DEF AssignedBy, ProperAll, Proper, Writes
        <4> QED
          BY <4>1, <4>2, <4>3 DEF Kept
      <3> QED
        BY <1>1, <3>1 DEF Base
    <2>9. WrittenBefore(secs, k + 1) = {b \in Buf : b \in WrittenBefore(secs, k) \/ SectionWrites(secs[k], b)}
      BY <1>1 DEF WrittenBefore
    <2>10. f[k] = new
      BY <1>4, <2>2, <2>6
    <2>11. Here(k)
      BY <2>7, <2>8, <2>9, <2>10
    <2> QED
      BY <2>11
  <1>7. \A k \in 0..n : k \in T
    <2> HIDE DEF T
    <2> QED
      BY <1>5, <1>6, UpTo
  <1>8. MemAt(f[n].mem, mem, p, M, CellsOf(WrittenBefore(secs, n + 1)))
    BY <1>7 DEF Between
  <1>9. MemAt(f[n].mem, mem, p, M, Cells)
    <2>1. PICK done : done = CellsOf(WrittenBefore(secs, n + 1))
      OBVIOUS
    <2>2. Fresh(mem, p, done)
      BY DEF Fresh
    <2>3. \A a \in Cells : a \notin done => M[a] = Initially(p, a)
      <3>1. TAKE a \in Cells
      <3>2. HAVE a \notin done
      <3>3. a[1] \in Buf /\ a[2] \in Rs /\ a = <<a[1], a[2]>>
        BY DEF Cells
      <3>4. \A m \in DOMAIN secs : ~SectionWrites(secs[m], a[1])
        BY <1>1, <2>1, <3>2, <3>3 DEF CellsOf, WrittenBefore
      <3> QED
        BY <3>3, <3>4 DEF RegionAccount
    <2> QED
      BY <1>8, <2>1, <2>2, <2>3, MemMore
  <1> QED
    BY <1>4, <1>9

(* At all points. *)
RowsDone(mem, MM, k) ==
    \A b \in Buf, q \in Points, t \in Rs :
        mem[<<b, q, t>>] = IF q < k THEN MM[q][<<b, t>>] ELSE InitialMemory[<<b, q, t>>]

(* Running the region leaves the rows of its accounts. *)
LEMMA RegionFollows ==
    ASSUME outer \in Seq(Section), \A n \in DOMAIN outer : Shaped(outer, n), NEW MM,
           \A p \in Points : \E d : RegionAccount(MM[p], d, p, outer)
    PROVE  \A b \in Buf, q \in Points, t \in Rs : RunRegion[<<b, q, t>>] = MM[q][<<b, t>>]
  <1>1. PICK n \in Nat : n = PointwiseSize /\ \A k \in 1..n : k - 1 \in Points
    BY Sizes
  <1>2. PICK f \in [0..n -> Mem] :
          /\ f[0] = InitialMemory
          /\ \A k \in 1..n : f[k] = RunSections(f[k - 1], outer, k - 1)
          /\ RunRegion = f[n]
    <2>1. \A k \in DOMAIN outer : ProperSection(outer[k])
      BY DEF Shaped
    <2>2. PICK f \in [0..PointwiseSize -> Mem] :
              /\ f[0] = InitialMemory
              /\ \A k \in 1..PointwiseSize : f[k] = RunSections(f[k - 1], outer, k - 1)
              /\ RunRegion = f[PointwiseSize]
      BY <2>1, RunRegionIs
    <2> QED
      BY <1>1, <2>2
  <1> DEFINE T == {k \in 0..n : RowsDone(f[k], MM, k)}
  <1>3. \A q \in Points : q \in Nat /\ q < n /\ ~(q < 0)
    BY <1>1, SizesAssumption DEF Points
  <1>4. 0 \in T
    <2>1. RowsDone(f[0], MM, 0)
      BY <1>2, <1>3 DEF RowsDone
    <2> QED
      BY <2>1
  <1>5. \A k \in 1..n : k - 1 \in T => k \in T
    <2>1. SUFFICES ASSUME NEW k \in 1..n, k - 1 \in T PROVE k \in T
      OBVIOUS
    <2>2. PICK p \in Points, mem \in Mem : p = k - 1 /\ mem = f[k - 1]
      BY <1>1, <1>2
    <2>3. RowsDone(mem, MM, p)
      BY <2>1, <2>2
    <2>4. PICK M, d : M = MM[p] /\ RegionAccount(M, d, p, outer)
      OBVIOUS
    <2>5. Fresh(mem, p, {})
      <3>1. SUFFICES ASSUME NEW a \in Cells PROVE mem[<<a[1], p, a[2]>>] = Initially(p, a)
        BY DEF Fresh
      <3>2. a[1] \in Buf /\ a[2] \in Rs /\ ~(p < p)
        BY <1>3 DEF Cells
      <3> QED
        BY <2>3, <3>2 DEF Initially, RowsDone
    <2>6. PICK secs, new : secs \in Seq(Section) /\ secs = outer /\ new = RunSections(mem, secs, p)
      OBVIOUS
    <2>7. MemAt(new, mem, p, M, Cells)
      BY <2>4, <2>5, <2>6, SectionsFollow
    <2>8. f[k] = new
      BY <1>2, <2>2, <2>6
    <2>9. \A q \in Points : q < k <=> q = p \/ q < p
      BY <1>3, <2>2
    <2>10. RowsDone(new, MM, k)
      <3>1. SUFFICES ASSUME NEW b \in Buf, NEW q \in Points, NEW t \in Rs
                     PROVE  new[<<b, q, t>>] = IF q < k THEN MM[q][<<b, t>>] ELSE InitialMemory[<<b, q, t>>]
        BY DEF RowsDone
      <3>2. <<b, t>> \in Cells
        BY DEF Cells
      <3>3. new[<<b, q, t>>] = IF q = p THEN M[<<b, t>>] ELSE mem[<<b, q, t>>]
        BY <2>7, <3>2 DEF MemAt
      <3>4. mem[<<b, q, t>>] = IF q < p THEN MM[q][<<b, t>>] ELSE InitialMemory[<<b, q, t>>]
        BY <2>3 DEF RowsDone
      <3> QED
        BY <2>4, <2>9, <3>3, <3>4
    <2> QED
      BY <2>8, <2>10
  <1>6. \A k \in 0..n : k \in T
    <2> HIDE DEF T
    <2> QED
      BY <1>4, <1>5, UpTo
  <1>7. RowsDone(f[n], MM, n)
    BY <1>6
  <1>8. SUFFICES ASSUME NEW b \in Buf, NEW q \in Points, NEW t \in Rs
                 PROVE  f[n][<<b, q, t>>] = MM[q][<<b, t>>]
    BY <1>2
  <1> QED
    BY <1>3, <1>7 DEF RowsDone

-----------------------------------------------------------------------------
(* The reference.  Its memory holds the final value at the addresses       *)
(* written so far, and the initial one elsewhere.                          *)

Addr == Buf \X Points \X Rs
Filled(Fin, D) == [a \in Addr |-> IF a \in D THEN Fin[a] ELSE InitialMemory[a]]
RowOf(Fin, p) == [c \in Cells |-> Fin[<<c[1], p, c[2]>>]]

WritesCall(call, r) ==
    \/ call.op \in {"store", "atomic"}
    \/ (call.op = "store_reduction" /\ r = Last1)

Wrote(calls, j, p, r) ==
    {At(calls[i], p, r) : i \in {h \in DOMAIN calls : h < j /\ WritesCall(calls[h], r)}}

(* What acc and states hold before call j of iteration r, when A and S are *)
(* what each iteration leaves in them.                                     *)
Made(calls, j, op) == \E i \in DOMAIN calls : i < j /\ calls[i].op = op
Previous(A, from, r) == IF r = 0 THEN from ELSE A[r - 1]
AccAt(A, calls, j, r) == IF Made(calls, j, "reduction") THEN A[r] ELSE Previous(A, Unit, r)
StatesAt(S, calls, j, r) == IF Made(calls, j, "scan") THEN S[r] ELSE Previous(S, <<>>, r)

(* Call j does what the account says: W has the values before each call.   *)
Appended(M, S, W, c, j, r) ==
    CASE c.op = "load" -> Append(W[j][r], M[Cell(c, r)])
      [] c.op = "compute" -> Append(W[j][r], MixAll(Chosen(W[j][r], c.is)))
      [] c.op = "scan" -> W[j][r] \o S[r]
      [] OTHER -> W[j][r]

CallRight(M, p, W, A, S, calls, j, r) ==
    LET c  == calls[j]
        xs == Chosen(W[j][r], c.is)
    IN  /\ W[j + 1][r] = Appended(M, S, W, c, j, r)
        /\ c.op = "store" => M[Cell(c, r)] = xs[1]
        /\ c.op = "atomic" => M[Cell(c, r)] = Add(Initially(p, Cell(c, r)), xs[1])
        /\ c.op = "reduction" => A[r] = Mix(Previous(A, Unit, r), xs[1])
        /\ c.op = "store_reduction" /\ r = Last1 => M[Cell(c, r)] = A[r]
        /\ c.op = "scan" => S[r] = Combined(Previous(S, <<>>, r), xs, r)

CallSupplied(Fin, D, calls, j, p, r) ==
    LET c == calls[j] IN
    /\ c.op \in {"load", "compute", "store", "atomic", "reduction", "store_reduction", "scan"}
    /\ c.op \in {"load", "store", "atomic", "store_reduction"} => c.buf \in Buf
    /\ c.op = "load" =>
          \/ At(c, p, r) \in D \cup Wrote(calls, j, p, r)
          \/ Fin[At(c, p, r)] = InitialMemory[At(c, p, r)]
    /\ c.op = "atomic" => At(c, p, r) \notin D \cup Wrote(calls, j, p, r)
    /\ c.op = "reduction" => ~Made(calls, j, "reduction")
    /\ c.op = "store_reduction" => Made(calls, j, "reduction")
    /\ c.op = "scan" => ~Made(calls, j, "scan")

(* The state before call j. *)
CallsAt(Fin, D, W, A, S, calls, j, p, r) ==
    [mem |-> Filled(Fin, D \cup Wrote(calls, j, p, r)), vals |-> W[j][r],
     acc |-> AccAt(A, calls, j, r), states |-> StatesAt(S, calls, j, r)]

(* An address holds its final value once it is filled, and filling one     *)
(* more address writes its final value.                                    *)
LEMMA FilledIs ==
    ASSUME NEW Fin, NEW D, NEW a \in Addr
    PROVE  Filled(Fin, D)[a] = IF a \in D THEN Fin[a] ELSE InitialMemory[a]
  BY DEF Filled

(* Filling one more address writes its final value. *)
LEMMA FilledAt ==
    ASSUME NEW Fin, NEW D, NEW a \in Addr
    PROVE  [Filled(Fin, D) EXCEPT ![a] = Fin[a]] = Filled(Fin, D \cup {a})
  BY DEF Filled

(* A call that writes an address fills it. *)
LEMMA CallWrites ==
    ASSUME NEW calls, DOMAIN calls \subseteq Nat, NEW j \in DOMAIN calls, NEW p, NEW r
    PROVE  /\ WritesCall(calls[j], r) =>
                Wrote(calls, j + 1, p, r) = Wrote(calls, j, p, r) \cup {At(calls[j], p, r)}
           /\ ~WritesCall(calls[j], r) => Wrote(calls, j + 1, p, r) = Wrote(calls, j, p, r)
           /\ \A op : Made(calls, j + 1, op) <=> Made(calls, j, op) \/ calls[j].op = op
  <1>1. \A i \in DOMAIN calls : i < j + 1 <=> i < j \/ i = j
    OBVIOUS
  <1>2. ~(j < j)
    OBVIOUS
  <1>3. WritesCall(calls[j], r) =>
                Wrote(calls, j + 1, p, r) = Wrote(calls, j, p, r) \cup {At(calls[j], p, r)}
    BY <1>1 DEF Wrote
  <1>4. ~WritesCall(calls[j], r) => Wrote(calls, j + 1, p, r) = Wrote(calls, j, p, r)
    BY <1>1 DEF Wrote
  <1>5. \A op : Made(calls, j + 1, op) <=> Made(calls, j, op) \/ calls[j].op = op
    BY <1>1 DEF Made
  <1> QED
    BY <1>3, <1>4, <1>5

(* What each call does to the state of a LoopBody. *)
LEMMA StepIs ==
    ASSUME NEW m, NEW vs, NEW x, NEW ss, NEW call, NEW p, NEW r,
           NEW st, st = [mem |-> m, vals |-> vs, acc |-> x, states |-> ss],
           NEW xs, xs = Chosen(vs, call.is), NEW at, at = At(call, p, r)
    PROVE  /\ call.op = "load" => Step(st, call, p, r) =
                [mem |-> m, vals |-> Append(vs, m[at]), acc |-> x, states |-> ss]
           /\ call.op = "compute" => Step(st, call, p, r) =
                [mem |-> m, vals |-> Append(vs, MixAll(xs)), acc |-> x, states |-> ss]
           /\ call.op = "store" => Step(st, call, p, r) =
                [mem |-> [m EXCEPT ![at] = xs[1]], vals |-> vs, acc |-> x, states |-> ss]
           /\ call.op = "atomic" => Step(st, call, p, r) =
                [mem |-> [m EXCEPT ![at] = Add(m[at], xs[1])], vals |-> vs, acc |-> x, states |-> ss]
           /\ call.op = "reduction" => Step(st, call, p, r) =
                [mem |-> m, vals |-> vs, acc |-> Mix(x, xs[1]), states |-> ss]
           /\ call.op = "store_reduction" => Step(st, call, p, r) =
                [mem |-> IF r = Last1 THEN [m EXCEPT ![at] = x] ELSE m, vals |-> vs, acc |-> x, states |-> ss]
           /\ call.op = "scan" => Step(st, call, p, r) =
                [mem |-> m, vals |-> vs \o Combined(ss, xs, r), acc |-> x, states |-> Combined(ss, xs, r)]
  <1>1. st.mem = m /\ st.vals = vs /\ st.acc = x /\ st.states = ss
    OBVIOUS
  <1>2. at = Address(call.buf, call.idx, p, r)
    BY DEF At
  <1>3. CASE call.op = "load"
    BY <1>1, <1>2, <1>3 DEF Step
  <1>4. CASE call.op = "compute"
    BY <1>1, <1>2, <1>4 DEF Step
  <1>5. CASE call.op = "store"
    BY <1>1, <1>2, <1>5 DEF Step
  <1>6. CASE call.op = "atomic"
    BY <1>1, <1>2, <1>6 DEF Step
  <1>7. CASE call.op = "reduction"
    BY <1>1, <1>2, <1>7 DEF Step
  <1>8. CASE call.op = "store_reduction"
    BY <1>1, <1>2, <1>8 DEF Step, Last1
  <1>9. CASE call.op = "scan"
    BY <1>1, <1>2, <1>9 DEF Step
  <1> QED
    BY <1>3, <1>4, <1>5, <1>6, <1>7, <1>8, <1>9

(* One call follows the account. *)
LEMMA CallFollows ==
    ASSUME NEW Fin, NEW D, NEW W, NEW A, NEW S, NEW calls, DOMAIN calls \subseteq Nat,
           NEW j \in DOMAIN calls, NEW p \in Points, NEW r \in Rs,
           CallSupplied(Fin, D, calls, j, p, r), CallRight(RowOf(Fin, p), p, W, A, S, calls, j, r)
    PROVE  Step(CallsAt(Fin, D, W, A, S, calls, j, p, r), calls[j], p, r) =
              CallsAt(Fin, D, W, A, S, calls, j + 1, p, r)
  <1>1. PICK c, at, xs : c = calls[j] /\ at = At(c, p, r) /\ xs = Chosen(W[j][r], c.is)
    OBVIOUS
  <1>2. PICK now : now = D \cup Wrote(calls, j, p, r)
    OBVIOUS
  <1>3. PICK m, vs, x, ss : /\ m = Filled(Fin, now) /\ vs = W[j][r]
                            /\ x = AccAt(A, calls, j, r) /\ ss = StatesAt(S, calls, j, r)
    OBVIOUS
  <1>4. PICK st : st = [mem |-> m, vals |-> vs, acc |-> x, states |-> ss]
    OBVIOUS
  <1>5. CallsAt(Fin, D, W, A, S, calls, j, p, r) = st
    BY <1>2, <1>3, <1>4 DEF CallsAt
  <1>6. c.op \in {"load", "compute", "store", "atomic", "reduction", "store_reduction", "scan"}
    BY <1>1 DEF CallSupplied
  <1>7. c.op \in {"load", "store", "atomic", "store_reduction"} =>
            /\ at \in Addr
            /\ RowOf(Fin, p)[Cell(c, r)] = Fin[at]
            /\ Initially(p, Cell(c, r)) = InitialMemory[at]
    <2>1. SUFFICES ASSUME c.op \in {"load", "store", "atomic", "store_reduction"}
                   PROVE  /\ at \in Addr
                          /\ RowOf(Fin, p)[Cell(c, r)] = Fin[at]
                          /\ Initially(p, Cell(c, r)) = InitialMemory[at]
      OBVIOUS
    <2>2. PICK b \in Buf, t \in Rs : b = c.buf /\ t = Place(c.idx, r)
      BY <1>1, <2>1, PlaceIn DEF CallSupplied
    <2>3. at = <<b, p, t>> /\ Cell(c, r) = <<b, t>> /\ <<b, t>> \in Cells
      BY <1>1, <2>2 DEF At, Address, Cell, Cells
    <2> QED
      BY <2>2, <2>3 DEF Addr, RowOf, Initially
  <1>8. /\ WritesCall(c, r) => Wrote(calls, j + 1, p, r) = Wrote(calls, j, p, r) \cup {at}
        /\ ~WritesCall(c, r) => Wrote(calls, j + 1, p, r) = Wrote(calls, j, p, r)
        /\ \A op : Made(calls, j + 1, op) <=> Made(calls, j, op) \/ c.op = op
    BY <1>1, CallWrites
  <1>9. PICK next : next = D \cup Wrote(calls, j + 1, p, r)
    OBVIOUS
  <1>10. (WritesCall(c, r) => next = now \cup {at}) /\ (~WritesCall(c, r) => next = now)
    BY <1>2, <1>8, <1>9
  <1>11. (c.op # "reduction" => AccAt(A, calls, j + 1, r) = x) /\ (c.op # "scan" => StatesAt(S, calls, j + 1, r) = ss)
    BY <1>3, <1>8 DEF AccAt, StatesAt
  <1>12. W[j + 1][r] = Appended(RowOf(Fin, p), S, W, c, j, r)
    BY <1>1 DEF CallRight
  <1>13. CallsAt(Fin, D, W, A, S, calls, j + 1, p, r) =
            [mem |-> Filled(Fin, next), vals |-> W[j + 1][r],
             acc |-> AccAt(A, calls, j + 1, r), states |-> StatesAt(S, calls, j + 1, r)]
    BY <1>9 DEF CallsAt
  <1>14. CASE c.op = "load"
    <2>1. next = now
      BY <1>10, <1>14 DEF WritesCall
    <2>2. m[at] = Fin[at]
      <3>1. at \in now \/ Fin[at] = InitialMemory[at]
        BY <1>1, <1>2, <1>14 DEF CallSupplied
      <3>2. at \in Addr
        BY <1>7, <1>14
      <3>3. Filled(Fin, now)[at] = IF at \in now THEN Fin[at] ELSE InitialMemory[at]
        BY <3>2, FilledIs
      <3> QED
        BY <1>3, <3>1, <3>3
    <2>3. W[j + 1][r] = Append(vs, Fin[at])
      BY <1>3, <1>7, <1>12, <1>14 DEF Appended
    <2>4. Step(st, c, p, r) = [mem |-> m, vals |-> Append(vs, m[at]), acc |-> x, states |-> ss]
      <3>1. at = Address(c.buf, c.idx, p, r)
        BY <1>1 DEF At
      <3>2. st.mem = m /\ st.vals = vs /\ st.acc = x /\ st.states = ss
        BY <1>4
      <3> QED
        BY <1>4, <1>14, <3>1, <3>2 DEF Step
    <2>5. Filled(Fin, next) = m /\ W[j + 1][r] = Append(vs, m[at])
      BY <1>3, <2>1, <2>2, <2>3
    <2>6. AccAt(A, calls, j + 1, r) = x /\ StatesAt(S, calls, j + 1, r) = ss
      BY <1>11, <1>14
    <2>7. CallsAt(Fin, D, W, A, S, calls, j + 1, p, r) =
             [mem |-> m, vals |-> Append(vs, m[at]), acc |-> x, states |-> ss]
      BY <1>13, <2>5, <2>6, Zenon
    <2> QED
      BY <1>1, <1>5, <2>4, <2>7
  <1>15. CASE c.op = "compute"
    <2>1. next = now
      BY <1>10, <1>15 DEF WritesCall
    <2>3. W[j + 1][r] = Append(vs, MixAll(xs))
      BY <1>1, <1>3, <1>12, <1>15 DEF Appended
    <2>4. Step(st, c, p, r) = [mem |-> m, vals |-> Append(vs, MixAll(xs)), acc |-> x, states |-> ss]
      BY <1>1, <1>3, <1>4, <1>15, StepIs, SMTT(60)
    <2> QED
      BY <1>1, <1>3, <1>5, <1>11, <1>13, <1>15, <2>1, <2>3, <2>4
  <1>16. CASE c.op \in {"store", "atomic"}
    <2>1. next = now \cup {at} /\ at \in Addr
      BY <1>7, <1>10, <1>16 DEF WritesCall
    <2>2. W[j + 1][r] = vs
      BY <1>3, <1>12, <1>16 DEF Appended
    <2>3. [m EXCEPT ![at] = Fin[at]] = Filled(Fin, next)
      BY <1>3, <2>1, FilledAt
    <2>4. Step(st, c, p, r) = [mem |-> [m EXCEPT ![at] = Fin[at]], vals |-> vs, acc |-> x, states |-> ss]
      <3>1. CASE c.op = "store"
        <4>1. Fin[at] = xs[1]
          BY <1>1, <1>7, <3>1 DEF CallRight
        <4>2. Step(st, c, p, r) = [mem |-> [m EXCEPT ![at] = xs[1]], vals |-> vs, acc |-> x, states |-> ss]
          BY <1>1, <1>3, <1>4, <3>1, StepIs, SMTT(60)
        <4> QED
          BY <4>1, <4>2
      <3>2. CASE c.op = "atomic"
        <4>1. Fin[at] = Add(InitialMemory[at], xs[1])
          BY <1>1, <1>7, <3>2 DEF CallRight
        <4>2. m[at] = InitialMemory[at]
          <5>1. at \notin now
            BY <1>1, <1>2, <3>2 DEF CallSupplied
          <5>2. at \in Addr
            BY <2>1
          <5>3. Filled(Fin, now)[at] = IF at \in now THEN Fin[at] ELSE InitialMemory[at]
            BY <5>2, FilledIs
          <5> QED
            BY <1>3, <5>1, <5>3
        <4>3. Step(st, c, p, r) = [mem |-> [m EXCEPT ![at] = Add(m[at], xs[1])], vals |-> vs, acc |-> x, states |-> ss]
          BY <1>1, <1>3, <1>4, <3>2, StepIs, SMTT(60)
        <4> QED
          BY <4>1, <4>2, <4>3
      <3> QED
        BY <1>16, <3>1, <3>2
    <2> QED
      BY <1>1, <1>5, <1>11, <1>13, <1>16, <2>2, <2>3, <2>4
  <1>17. CASE c.op = "reduction"
    <2>1. next = now
      BY <1>10, <1>17 DEF WritesCall
    <2>2. W[j + 1][r] = vs
      BY <1>3, <1>12, <1>17 DEF Appended
    <2>3. x = Previous(A, Unit, r)
      BY <1>1, <1>3, <1>17 DEF CallSupplied, AccAt
    <2>4. A[r] = Mix(x, xs[1])
      BY <1>1, <1>17, <2>3 DEF CallRight
    <2>5. AccAt(A, calls, j + 1, r) = A[r]
      BY <1>8, <1>17 DEF AccAt
    <2>6. Step(st, c, p, r) = [mem |-> m, vals |-> vs, acc |-> Mix(x, xs[1]), states |-> ss]
      BY <1>1, <1>3, <1>4, <1>17, StepIs, SMTT(60)
    <2> QED
      BY <1>1, <1>3, <1>5, <1>11, <1>13, <1>17, <2>1, <2>2, <2>4, <2>5, <2>6
  <1>18. CASE c.op = "store_reduction"
    <2>1. W[j + 1][r] = vs
      BY <1>3, <1>12, <1>18 DEF Appended
    <2>2. x = A[r]
      BY <1>1, <1>3, <1>18 DEF CallSupplied, AccAt
    <2>3. Step(st, c, p, r) = [mem |-> IF r = Last1 THEN [m EXCEPT ![at] = x] ELSE m, vals |-> vs, acc |-> x, states |-> ss]
      BY <1>1, <1>3, <1>4, <1>18, StepIs, SMTT(60)
    <2>4. CASE r = Last1
      <3>1. next = now \cup {at} /\ at \in Addr /\ Fin[at] = x
        BY <1>1, <1>7, <1>10, <1>18, <2>2, <2>4 DEF WritesCall, CallRight
      <3>2. [m EXCEPT ![at] = x] = Filled(Fin, next)
        BY <1>3, <3>1, FilledAt
      <3> QED
        BY <1>1, <1>5, <1>11, <1>13, <1>18, <2>1, <2>3, <2>4, <3>2
    <2>5. CASE r # Last1
      <3>1. next = now
        BY <1>10, <1>18, <2>5 DEF WritesCall
      <3> QED
        BY <1>1, <1>3, <1>5, <1>11, <1>13, <1>18, <2>1, <2>3, <2>5, <3>1
    <2> QED
      BY <2>4, <2>5
  <1>19. CASE c.op = "scan"
    <2>1. next = now
      BY <1>10, <1>19 DEF WritesCall
    <2>2. ss = Previous(S, <<>>, r)
      BY <1>1, <1>3, <1>19 DEF CallSupplied, StatesAt
    <2>3. S[r] = Combined(ss, xs, r)
      BY <1>1, <1>19, <2>2 DEF CallRight
    <2>4. W[j + 1][r] = vs \o S[r]
      BY <1>3, <1>12, <1>19 DEF Appended
    <2>5. StatesAt(S, calls, j + 1, r) = S[r]
      BY <1>8, <1>19 DEF StatesAt
    <2>6. Step(st, c, p, r) = [mem |-> m, vals |-> vs \o Combined(ss, xs, r), acc |-> x, states |-> Combined(ss, xs, r)]
      <3>1. st.mem = m /\ st.vals = vs /\ st.acc = x /\ st.states = ss /\ xs = Chosen(vs, c.is)
        BY <1>1, <1>3, <1>4
      <3>2. Step(st, c, p, r) = [st EXCEPT !.states = Combined(st.states, xs, r), !.vals = @ \o Combined(st.states, xs, r)]
        BY <1>19, <3>1 DEF Step
      <3>3. PICK y : y = Combined(ss, xs, r)
        OBVIOUS
      <3>4. PICK z : z = vs \o y
        OBVIOUS
      <3>5. Step(st, c, p, r) = [st EXCEPT !.states = y, !.vals = z]
        BY <3>1, <3>2, <3>3, <3>4
      <3> QED
        BY <1>4, <3>3, <3>4, <3>5
    <2> QED
      BY <1>1, <1>3, <1>5, <1>11, <1>13, <1>19, <2>1, <2>3, <2>4, <2>5, <2>6
  <1> QED
    BY <1>6, <1>14, <1>15, <1>16, <1>17, <1>18, <1>19

(* The calls of one turn follow the account. *)
CallsRight(Fin, D, W, A, S, calls, p, r) ==
    /\ W[1][r] = <<>>
    /\ \A j \in DOMAIN calls : /\ CallSupplied(Fin, D, calls, j, p, r)
                               /\ CallRight(RowOf(Fin, p), p, W, A, S, calls, j, r)

(* The state before a turn. *)
TurnFrom(st, vs, Fin, D, A, S, r) ==
    st = [mem |-> Filled(Fin, D), vals |-> vs,
          acc |-> Previous(A, Unit, r), states |-> Previous(S, <<>>, r)]

(* All calls of a turn do. *)
LEMMA CallsFollow ==
    ASSUME NEW Fin, NEW D, NEW W, NEW A, NEW S, NEW calls, NEW n \in Nat,
           DOMAIN calls = 1..n, Len(calls) = n, NEW p \in Points, NEW r \in Rs,
           CallsRight(Fin, D, W, A, S, calls, p, r),
           NEW st, NEW vs, TurnFrom(st, vs, Fin, D, A, S, r)
    PROVE  RunCalls(st, calls, p, r) = CallsAt(Fin, D, W, A, S, calls, n + 1, p, r)
  <1>1. PICK from : from = [st EXCEPT !.vals = <<>>]
    OBVIOUS
  <1> DEFINE it == CHOOSE f : f = [k \in 0..n |-> IF k = 0 THEN from ELSE Step(f[k - 1], calls[k], p, r)]
             g == [k \in 0..n |-> CallsAt(Fin, D, W, A, S, calls, k + 1, p, r)]
  <1>2. g[0] = from
    <2>1. ~Made(calls, 1, "reduction") /\ ~Made(calls, 1, "scan") /\ Wrote(calls, 1, p, r) = {}
      BY DEF Made, Wrote
    <2>2. AccAt(A, calls, 1, r) = Previous(A, Unit, r) /\ StatesAt(S, calls, 1, r) = Previous(S, <<>>, r)
      BY <2>1 DEF AccAt, StatesAt
    <2>3. D \cup Wrote(calls, 1, p, r) = D
      BY <2>1
    <2>4. CallsAt(Fin, D, W, A, S, calls, 1, p, r) =
            [mem |-> Filled(Fin, D), vals |-> <<>>, acc |-> Previous(A, Unit, r), states |-> Previous(S, <<>>, r)]
      BY <2>2, <2>3 DEF CallsAt, CallsRight
    <2>5. from = [mem |-> Filled(Fin, D), vals |-> <<>>, acc |-> Previous(A, Unit, r), states |-> Previous(S, <<>>, r)]
      BY <1>1 DEF TurnFrom
    <2>6. g[0] = CallsAt(Fin, D, W, A, S, calls, 0 + 1, p, r)
      OBVIOUS
    <2> QED
      BY <2>4, <2>5, <2>6
  <1>3. \A k \in 1..n : g[k] = Step(g[k - 1], calls[k], p, r)
    <2>1. TAKE k \in 1..n
    <2>2. g[k] = CallsAt(Fin, D, W, A, S, calls, k + 1, p, r)
      OBVIOUS
    <2>3. k - 1 \in 0..n /\ k - 1 + 1 = k
      OBVIOUS
    <2>4. g[k - 1] = CallsAt(Fin, D, W, A, S, calls, k, p, r)
      BY <2>3
    <2>5. CallSupplied(Fin, D, calls, k, p, r) /\ CallRight(RowOf(Fin, p), p, W, A, S, calls, k, r)
      BY DEF CallsRight
    <2>6. k \in DOMAIN calls /\ DOMAIN calls \subseteq Nat
      OBVIOUS
    <2> HIDE DEF g
    <2> QED
      BY <2>2, <2>4, <2>5, <2>6, CallFollows
  <1>4. g = [k \in 0..n |-> IF k = 0 THEN from ELSE Step(g[k - 1], calls[k], p, r)]
    <2>1. PICK h : h = g
      OBVIOUS
    <2>2. h = [k \in 0..n |-> h[k]]
      BY <2>1
    <2>3. \A k \in 0..n : h[k] = IF k = 0 THEN from ELSE Step(h[k - 1], calls[k], p, r)
      <3> HIDE DEF g
      <3> QED
        BY <1>2, <1>3, <2>1
    <2>4. h = [k \in 0..n |-> IF k = 0 THEN from ELSE Step(h[k - 1], calls[k], p, r)]
      BY <2>2, <2>3
    <2> HIDE DEF g
    <2> QED
      BY <2>1, <2>4
  <1>5. PICK h : h = g
    OBVIOUS
  <1>6. h = [k \in 0..n |-> IF k = 0 THEN from ELSE Step(h[k - 1], calls[k], p, r)]
    <2> HIDE DEF g
    <2> QED
      BY <1>4, <1>5
  <1>7. it = [k \in 0..n |-> IF k = 0 THEN from ELSE Step(it[k - 1], calls[k], p, r)]
    <2> HIDE DEF g
    <2> QED
      BY <1>6
  <1>8. RunCalls(st, calls, p, r) = it[n]
    BY <1>1 DEF RunCalls, Repeat
  <1>9. \A k \in 0..n : it[k] = h[k]
    <2> HIDE DEF it, g
    <2>1. it[0] = h[0]
      BY <1>6, <1>7
    <2>2. \A k \in 1..n : it[k - 1] = h[k - 1] => it[k] = h[k]
      BY <1>6, <1>7
    <2> QED
      BY <2>1, <2>2, RecursionUnique
  <1>10. h[n] = CallsAt(Fin, D, W, A, S, calls, n + 1, p, r)
    BY <1>5
  <1> HIDE DEF it, g
  <1> QED
    BY <1>8, <1>9, <1>10

-----------------------------------------------------------------------------
(* A LoopBody follows the account. *)

CallOp == {"load", "compute", "store", "atomic", "reduction", "store_reduction", "scan"}
WriteOp == {"store", "atomic", "store_reduction"}
CallSet == [op: CallOp, buf: Buf \cup {None}, idx: Idx \cup {None}, is: Seq(Nat)]

(* A call of a LoopBody that may load the outputs of E. *)
CallShape(body, E, j) ==
    LET c == body.calls[j] IN
    /\ c.op = "load" => c.buf \in Inputs \cup E
    /\ c.op \in WriteOp =>
          /\ c.buf = body.out /\ j = Len(body.calls)
          /\ c.idx \in IF body.inLoop /\ c.op # "store_reduction" THEN FullIdx ELSE RowIdx
    /\ c.op = "store_reduction" => body.inLoop /\ Made(body.calls, j, "reduction")
    /\ c.op \in {"reduction", "scan"} => ~Made(body.calls, j, c.op)

BodyCalls(body, E) ==
    /\ body.inLoop \in BOOLEAN /\ body.out \in Outputs
    /\ body.calls \in Seq(CallSet)
    /\ \A j \in DOMAIN body.calls : CallShape(body, E, j)

Written(body) == \E j \in DOMAIN body.calls : body.calls[j].op \in WriteOp

BodyRight(M, p, body, W, A, S) ==
    LET calls == body.calls IN
    /\ \A r \in Turns(body.inLoop) :
          W[1][r] = <<>> /\ \A j \in DOMAIN calls : CallRight(M, p, W, A, S, calls, j, r)
    /\ ~Made(calls, Len(calls) + 1, "reduction") => \A r \in Rs : A[r] = Unit
    /\ ~Made(calls, Len(calls) + 1, "scan") => \A r \in Rs : S[r] = <<>>
    /\ \A j \in DOMAIN calls :
          calls[j].op \in WriteOp /\ calls[j].idx \in RowIdx => Untouched(M, p, calls[j].buf)

(* What is filled before point p of a body, and before turn r of it. *)
PointDone(E, out, p) == {a \in Addr : a[1] \in E \/ (a[1] = out /\ a[2] < p)}
TurnDone(D, calls, p, r) ==
    D \cup {a \in Addr : \E q \in Rs : q < r /\ a \in Wrote(calls, Len(calls) + 1, p, q)}

(* An address may count as filled when its final value is the initial one. *)
LEMMA FilledSame ==
    ASSUME NEW Fin, NEW D, NEW D2, \A a \in Addr : a \in D => a \in D2,
           \A a \in Addr : a \in D2 /\ a \notin D => Fin[a] = InitialMemory[a]
    PROVE  Filled(Fin, D) = Filled(Fin, D2)
  BY DEF Filled

(* What a body writes is at its output. *)
LEMMA WroteIs ==
    ASSUME NEW body, NEW E, BodyCalls(body, E), NEW p \in Points, NEW q \in Rs,
           NEW n, n = Len(body.calls), NEW j, NEW a, a \in Wrote(body.calls, j, p, q)
    PROVE  /\ n \in DOMAIN body.calls /\ n < j /\ WritesCall(body.calls[n], q)
           /\ a = <<body.out, p, Place(body.calls[n].idx, q)>> /\ a \in Addr
           /\ body.calls[n].op \in WriteOp
  <1>1. \A h \in DOMAIN body.calls : WritesCall(body.calls[h], q) =>
            /\ h = n /\ body.calls[h].op \in WriteOp
            /\ At(body.calls[h], p, q) = <<body.out, p, Place(body.calls[h].idx, q)>>
    BY DEF BodyCalls, CallShape, WritesCall, WriteOp, At, Address
  <1>2. body.out \in Buf /\ \A k : Place(k, q) \in Rs
    BY PlaceIn DEF BodyCalls, Buf
  <1>3. PICK h \in DOMAIN body.calls : h < j /\ WritesCall(body.calls[h], q) /\ a = At(body.calls[h], p, q)
    BY DEF Wrote
  <1> QED
    BY <1>1, <1>2, <1>3 DEF Addr

(* It is in the row of the point. *)
LEMMA WroteAt ==
    ASSUME NEW body, NEW E, BodyCalls(body, E), NEW p \in Points, NEW q \in Rs,
           NEW j, NEW a, a \in Wrote(body.calls, j, p, q)
    PROVE  a[1] = body.out /\ a[2] = p
  <1>1. \A h \in DOMAIN body.calls : WritesCall(body.calls[h], q) =>
            At(body.calls[h], p, q) = <<body.out, p, Place(body.calls[h].idx, q)>>
    BY DEF BodyCalls, CallShape, WritesCall, WriteOp, At, Address
  <1>2. PICK h \in DOMAIN body.calls : WritesCall(body.calls[h], q) /\ a = At(body.calls[h], p, q)
    BY DEF Wrote
  <1> QED
    BY <1>1, <1>2

(* The last call of a body writes. *)
LEMMA WroteLast ==
    ASSUME NEW body, NEW E, BodyCalls(body, E), NEW p \in Points, NEW q \in Rs,
           NEW n, n = Len(body.calls), n \in DOMAIN body.calls, WritesCall(body.calls[n], q)
    PROVE  <<body.out, p, Place(body.calls[n].idx, q)>> \in Wrote(body.calls, n + 1, p, q)
  <1>1. At(body.calls[n], p, q) = <<body.out, p, Place(body.calls[n].idx, q)>>
    BY DEF BodyCalls, CallShape, WritesCall, WriteOp, At, Address
  <1>2. n < n + 1
    BY DEF BodyCalls
  <1> QED
    BY <1>1, <1>2 DEF Wrote

(* Each call is supplied in each turn. *)
LEMMA BodySupplied ==
    ASSUME NEW Fin, NEW body, NEW E, BodyCalls(body, E), E \subseteq Outputs, body.out \notin E,
           NEW p \in Points, InputsKept(RowOf(Fin, p), p),
           NEW r \in Turns(body.inLoop), NEW j \in DOMAIN body.calls
    PROVE  CallSupplied(Fin, TurnDone(PointDone(E, body.out, p), body.calls, p, r), body.calls, j, p, r)
  <1>1. PICK D, now, c : /\ D = PointDone(E, body.out, p) /\ now = TurnDone(D, body.calls, p, r)
                         /\ c = body.calls[j]
    OBVIOUS
  <1>2. c \in CallSet /\ CallShape(body, E, j) /\ r \in Rs
    BY <1>1, Zero DEF BodyCalls, Turns
  <1>3. c.op \in CallOp /\ (c.op \in {"load", "store", "atomic", "store_reduction"} => c.buf \in Buf)
    BY <1>1, <1>2 DEF CallSet, CallShape, Buf, WriteOp, BodyCalls
  <1>4. c.op = "load" => At(c, p, r) \in now \/ Fin[At(c, p, r)] = InitialMemory[At(c, p, r)]
    <2>1. SUFFICES ASSUME c.op = "load"
                   PROVE  At(c, p, r) \in now \/ Fin[At(c, p, r)] = InitialMemory[At(c, p, r)]
      OBVIOUS
    <2>2. PICK b \in Buf, t \in Rs : b = c.buf /\ t = Place(c.idx, r)
      BY <1>2, <1>3, <2>1, PlaceIn
    <2>3. At(c, p, r) = <<b, p, t>> /\ <<b, p, t>> \in Addr /\ <<b, t>> \in Cells
      BY <2>2 DEF At, Address, Addr, Cells
    <2>4. CASE b \in E
      BY <1>1, <2>3, <2>4 DEF PointDone, TurnDone
    <2>5. CASE b \in Inputs
      <3>1. RowOf(Fin, p)[<<b, t>>] = Fin[<<b, p, t>>] /\ Initially(p, <<b, t>>) = InitialMemory[<<b, p, t>>]
        BY <2>3 DEF RowOf, Initially
      <3>2. RowOf(Fin, p)[<<b, t>>] = Initially(p, <<b, t>>)
        BY <2>3, <2>5 DEF InputsKept
      <3> QED
        BY <2>3, <3>1, <3>2
    <2> QED
      BY <1>1, <1>2, <2>1, <2>2, <2>4, <2>5 DEF CallShape
  <1>5. c.op = "atomic" => At(c, p, r) \notin now \cup Wrote(body.calls, j, p, r)
    <2>1. SUFFICES ASSUME c.op = "atomic" PROVE At(c, p, r) \notin now \cup Wrote(body.calls, j, p, r)
      OBVIOUS
    <2>2. j = Len(body.calls) /\ c.buf = body.out /\ c.idx \in IF body.inLoop THEN FullIdx ELSE RowIdx
      BY <1>1, <1>2, <2>1 DEF CallShape, WriteOp
    <2>3. At(c, p, r) = <<body.out, p, Place(c.idx, r)>> /\ ~(p < p)
      BY <2>2, Sizes DEF At, Address, Points
    <2>4. At(c, p, r) \notin D
      BY <1>1, <2>3 DEF PointDone
    <2>5. ~(j < j)
      BY <2>2 DEF BodyCalls
    <2>6. At(c, p, r) \notin Wrote(body.calls, j, p, r)
      BY <1>2, <2>2, <2>5, WroteIs
    <2>7. \A q \in Rs : q < r => At(c, p, r) \notin Wrote(body.calls, j + 1, p, q)
      <3>1. SUFFICES ASSUME NEW q \in Rs, q < r, At(c, p, r) \in Wrote(body.calls, j + 1, p, q)
                     PROVE  FALSE
        OBVIOUS
      <3>2. At(c, p, r) = <<body.out, p, Place(c.idx, q)>>
        <4>1. PICK a, after : a = At(c, p, r) /\ after = j + 1
          OBVIOUS
        <4>2. a \in Wrote(body.calls, after, p, q) /\ j = Len(body.calls)
          BY <2>2, <3>1, <4>1
        <4>3. a = <<body.out, p, Place(body.calls[j].idx, q)>>
          BY <4>2, WroteIs
        <4> QED
          BY <1>1, <4>1, <4>3
      <3>3. body.inLoop
        BY <3>1, Turns0 DEF Turns, Rs, BodyCalls
      <3>4. Place(c.idx, q) = q /\ Place(c.idx, r) = r
        BY <2>2, <3>3 DEF Place
      <3> QED
        BY <1>2, <2>3, <3>1, <3>2, <3>4, Turns0
    <2> QED
      BY <1>1, <2>2, <2>4, <2>6, <2>7 DEF TurnDone
  <1>6. /\ c.op = "reduction" => ~Made(body.calls, j, "reduction")
        /\ c.op = "store_reduction" => Made(body.calls, j, "reduction")
        /\ c.op = "scan" => ~Made(body.calls, j, "scan")
    BY <1>1, <1>2 DEF CallShape
  <1> QED
    BY <1>1, <1>3, <1>4, <1>5, <1>6 DEF CallSupplied, CallOp

(* One more turn. *)
LEMMA TurnMore ==
    ASSUME NEW body, NEW E, BodyCalls(body, E), NEW p \in Points, NEW r \in Rs, NEW D
    PROVE  TurnDone(D, body.calls, p, r + 1) =
              TurnDone(D, body.calls, p, r) \cup Wrote(body.calls, Len(body.calls) + 1, p, r)
  <1>1. \A q \in Rs : q < r + 1 <=> q < r \/ q = r
    BY DEF Rs
  <1>2. \A a \in Wrote(body.calls, Len(body.calls) + 1, p, r) : a \in Addr
    BY WroteIs
  <1> QED
    BY <1>1, <1>2 DEF TurnDone

PointAt(Fin, D, W, A, S, calls, p, k) ==
    [mem |-> Filled(Fin, TurnDone(D, calls, p, k)),
     vals |-> IF k = 0 THEN <<>> ELSE W[Len(calls) + 1][k - 1],
     acc |-> Previous(A, Unit, k), states |-> Previous(S, <<>>, k)]

BodyReady(Fin, body, E, p, W, A, S) ==
    /\ BodyCalls(body, E) /\ E \subseteq Outputs /\ body.out \notin E
    /\ InputsKept(RowOf(Fin, p), p)
    /\ BodyRight(RowOf(Fin, p), p, body, W, A, S)

(* One turn of a body follows the account. *)
LEMMA BodyTurn ==
    ASSUME NEW Fin, NEW body, NEW E, NEW p \in Points, NEW W, NEW A, NEW S,
           BodyReady(Fin, body, E, p, W, A, S), NEW r \in Turns(body.inLoop),
           NEW D, D = PointDone(E, body.out, p)
    PROVE  RunCalls(PointAt(Fin, D, W, A, S, body.calls, p, r), body.calls, p, r) =
              PointAt(Fin, D, W, A, S, body.calls, p, r + 1)
  <1>1. PICK n \in Nat : n = Len(body.calls) /\ DOMAIN body.calls = 1..n
    BY LenProperties DEF BodyReady, BodyCalls
  <1>2. r \in Rs /\ BodyCalls(body, E)
    BY Zero DEF Turns, BodyReady
  <1>3. PICK calls, now : calls = body.calls /\ now = TurnDone(D, calls, p, r)
    OBVIOUS
  <1>4. CallsRight(Fin, now, W, A, S, calls, p, r)
    <2>1. W[1][r] = <<>> /\ \A j \in DOMAIN calls : CallRight(RowOf(Fin, p), p, W, A, S, calls, j, r)
      BY <1>3 DEF BodyReady, BodyRight
    <2>2. \A j \in DOMAIN calls : CallSupplied(Fin, now, calls, j, p, r)
      BY <1>3, BodySupplied DEF BodyReady
    <2> QED
      BY <2>1, <2>2 DEF CallsRight
  <1>5. PICK st, vs : /\ st = PointAt(Fin, D, W, A, S, calls, p, r)
                      /\ vs = IF r = 0 THEN <<>> ELSE W[Len(calls) + 1][r - 1]
    OBVIOUS
  <1>6. TurnFrom(st, vs, Fin, now, A, S, r)
    BY <1>3, <1>5 DEF TurnFrom, PointAt
  <1>7. RunCalls(st, calls, p, r) = CallsAt(Fin, now, W, A, S, calls, n + 1, p, r)
    BY <1>1, <1>2, <1>3, <1>4, <1>6, CallsFollow
  <1>8. AccAt(A, calls, n + 1, r) = A[r]
    <2>1. CASE Made(calls, n + 1, "reduction")
      BY <2>1 DEF AccAt
    <2>2. CASE ~Made(calls, n + 1, "reduction")
      <3>1. \A q \in Rs : A[q] = Unit
        BY <1>1, <1>3, <2>2 DEF BodyReady, BodyRight
      <3>2. r # 0 => r - 1 \in Rs
        BY <1>2, SizesAssumption DEF Rs
      <3> QED
        BY <1>2, <2>2, <3>1, <3>2 DEF AccAt, Previous
    <2> QED
      BY <2>1, <2>2
  <1>9. StatesAt(S, calls, n + 1, r) = S[r]
    <2>1. CASE Made(calls, n + 1, "scan")
      BY <2>1 DEF StatesAt
    <2>2. CASE ~Made(calls, n + 1, "scan")
      <3>1. \A q \in Rs : S[q] = <<>>
        BY <1>1, <1>3, <2>2 DEF BodyReady, BodyRight
      <3>2. r # 0 => r - 1 \in Rs
        BY <1>2, SizesAssumption DEF Rs
      <3> QED
        BY <1>2, <2>2, <3>1, <3>2 DEF StatesAt, Previous
    <2> QED
      BY <2>1, <2>2
  <1>10. r + 1 # 0 /\ (r + 1) - 1 = r
    BY <1>2, Turns0
  <1>11. TurnDone(D, calls, p, r + 1) = now \cup Wrote(calls, n + 1, p, r)
    BY <1>1, <1>2, <1>3, TurnMore
  <1>12. PICK after : after = r + 1
    OBVIOUS
  <1>13. PointAt(Fin, D, W, A, S, calls, p, after) =
            [mem |-> Filled(Fin, now \cup Wrote(calls, n + 1, p, r)), vals |-> W[n + 1][r],
             acc |-> A[r], states |-> S[r]]
    <2>1. after # 0
      BY <1>10, <1>12
    <2>2. after - 1 = r
      BY <1>10, <1>12
    <2>3. Len(calls) = n
      BY <1>1, <1>3
    <2>4. Previous(A, Unit, after) = A[r] /\ Previous(S, <<>>, after) = S[r]
      BY <2>1, <2>2 DEF Previous
    <2> QED
      BY <1>11, <1>12, <2>1, <2>2, <2>3, <2>4 DEF PointAt
  <1> QED
    BY <1>3, <1>5, <1>7, <1>8, <1>9, <1>12, <1>13 DEF CallsAt

(* What a finished body leaves of its output's row is final. *)
LEMMA PointFills ==
    ASSUME NEW Fin, NEW body, NEW E, NEW p \in Points, NEW W, NEW A, NEW S,
           BodyReady(Fin, body, E, p, W, A, S), Written(body),
           NEW N, N = IF body.inLoop THEN ReductionSize ELSE 1
    PROVE  Filled(Fin, TurnDone(PointDone(E, body.out, p), body.calls, p, N)) =
              Filled(Fin, PointDone(E, body.out, p + 1))
  <1>1. PICK out, D, D1, D2 : /\ out = body.out /\ D = PointDone(E, out, p)
                              /\ D1 = TurnDone(D, body.calls, p, N) /\ D2 = PointDone(E, out, p + 1)
    OBVIOUS
  <1>2. BodyCalls(body, E) /\ InputsKept(RowOf(Fin, p), p)
    BY DEF BodyReady
  <1>3. \A q \in Points : q < p + 1 <=> q < p \/ q = p
    BY DEF Points
  <1>4. \A a \in Addr : a \in D1 => a \in D2
    <2>1. SUFFICES ASSUME NEW a \in Addr, a \in D1 PROVE a \in D2
      OBVIOUS
    <2>2. CASE a \in D
      <3>1. a[1] \in E \/ (a[1] = out /\ a[2] < p)
        BY <1>1, <2>2 DEF PointDone
      <3>2. a[2] \in Points
        BY DEF Addr
      <3> QED
        BY <1>1, <1>3, <3>1, <3>2 DEF PointDone
    <2>3. CASE a \notin D
      <3>1. PICK q \in Rs : a \in Wrote(body.calls, Len(body.calls) + 1, p, q)
        BY <1>1, <2>1, <2>3 DEF TurnDone
      <3>2. PICK i : i = Len(body.calls) + 1
        OBVIOUS
      <3>3. a[1] = body.out /\ a[2] = p
        BY <1>2, <3>1, <3>2, WroteAt
      <3>4. p < p + 1
        BY DEF Points
      <3> QED
        BY <1>1, <3>3, <3>4 DEF PointDone
    <2> QED
      BY <2>2, <2>3
  <1>5. \A a \in Addr : a \in D2 /\ a \notin D1 => Fin[a] = InitialMemory[a]
    <2>1. SUFFICES ASSUME NEW a \in Addr, a \in D2, a \notin D1, Fin[a] # InitialMemory[a] PROVE FALSE
      OBVIOUS
    <2>2. a \notin D
      BY <1>1, <2>1 DEF TurnDone
    <2>3. PICK b \in Buf, q \in Points, t \in Rs : a = <<b, q, t>>
      BY DEF Addr
    <2>4. b = out /\ q = p
      BY <1>1, <1>3, <2>1, <2>2, <2>3 DEF PointDone
    <2>5. PICK n \in DOMAIN body.calls : body.calls[n].op \in WriteOp
      BY DEF Written
    <2>6. PICK c : c = body.calls[n]
      OBVIOUS
    <2>7. /\ n = Len(body.calls) /\ c.buf = out
          /\ c.idx \in IF body.inLoop /\ c.op # "store_reduction" THEN FullIdx ELSE RowIdx
          /\ c.op = "store_reduction" => body.inLoop
      BY <1>1, <1>2, <2>5, <2>6 DEF BodyCalls, CallShape
    <2>8. \A u \in Rs : WritesCall(c, u) /\ u < N => <<out, p, Place(c.idx, u)>> \in D1
      <3>1. SUFFICES ASSUME NEW u \in Rs, WritesCall(c, u), u < N
                     PROVE  <<out, p, Place(c.idx, u)>> \in D1
        OBVIOUS
      <3>2. <<out, p, Place(c.idx, u)>> \in Wrote(body.calls, n + 1, p, u)
        BY <1>1, <1>2, <2>6, <2>7, <3>1, WroteLast
      <3>3. PICK t2 \in Rs : t2 = Place(c.idx, u)
        BY PlaceIn
      <3>4. <<out, p, t2>> \in Addr
        BY <1>1, <1>2, <3>3 DEF Addr, BodyCalls, Buf
      <3> QED
        BY <1>1, <2>7, <3>1, <3>2, <3>3, <3>4 DEF TurnDone
    <2>9. \A u \in Rs : u < ReductionSize
      BY SizesAssumption DEF Rs
    <2>10. CASE c.idx \in FullIdx
      <3>1. body.inLoop /\ c.op \in {"store", "atomic"}
        BY <2>5, <2>6, <2>7, <2>10, NamesAssumption DEF WriteOp
      <3>2. WritesCall(c, t) /\ t < N /\ Place(c.idx, t) = t
        BY <2>9, <2>10, <3>1 DEF WritesCall, Place
      <3> QED
        BY <2>1, <2>3, <2>4, <2>8, <3>2
    <2>11. CASE c.idx \notin FullIdx
      <3>1. c.idx \in RowIdx /\ \A u : Place(c.idx, u) = 0
        BY <2>7, <2>11 DEF Place
      <3>2. \E u \in Rs : WritesCall(c, u) /\ u < N
        <4>1. CASE c.op = "store_reduction"
          <5>1. WritesCall(c, Last1) /\ Last1 < N /\ Last1 \in Rs
            BY <2>7, <2>9, <4>1, Zero DEF WritesCall, Last1
          <5> QED
            BY <5>1
        <4>2. CASE c.op # "store_reduction"
          <5>1. WritesCall(c, 0) /\ 0 < N /\ 0 \in Rs
            BY <2>5, <2>6, <4>2, Zero, SizesAssumption DEF WritesCall, WriteOp
          <5> QED
            BY <5>1
        <4> QED
          BY <4>1, <4>2
      <3>3. <<out, p, 0>> \in D1
        BY <2>8, <3>1, <3>2
      <3>4. t # 0
        BY <2>1, <2>3, <2>4, <3>3
      <3>5. Untouched(RowOf(Fin, p), p, out)
        BY <2>5, <2>6, <2>7, <3>1 DEF BodyReady, BodyRight
      <3>6. RowOf(Fin, p)[<<out, t>>] = Initially(p, <<out, t>>)
        BY <3>4, <3>5 DEF Untouched
      <3>7. <<out, t>> \in Cells /\ a = <<out, p, t>>
        BY <2>3, <2>4 DEF Cells
      <3>8. Fin[a] = InitialMemory[a]
        BY <3>6, <3>7 DEF RowOf, Initially
      <3> QED
        BY <2>1, <3>8
    <2> QED
      BY <2>10, <2>11
  <1>6. Filled(Fin, D1) = Filled(Fin, D2)
    BY <1>4, <1>5, FilledSame
  <1> QED
    BY <1>1, <1>6

(* One point. *)
LEMMA PointFollows ==
    ASSUME NEW Fin, NEW body, NEW E, NEW p \in Points, NEW W, NEW A, NEW S,
           BodyReady(Fin, body, E, p, W, A, S), Written(body),
           NEW mem, mem = Filled(Fin, PointDone(E, body.out, p))
    PROVE  RunPoint(mem, body, p) = Filled(Fin, PointDone(E, body.out, p + 1))
  <1>1. PICK N \in Nat : N = IF body.inLoop THEN ReductionSize ELSE 1
    BY Sizes
  <1>2. PICK from, D, calls : /\ from = [mem |-> mem, vals |-> <<>>, acc |-> Unit, states |-> <<>>]
                              /\ D = PointDone(E, body.out, p) /\ calls = body.calls
    OBVIOUS
  <1> DEFINE it == CHOOSE f : f = [k \in 0..N |-> IF k = 0 THEN from ELSE RunCalls(f[k - 1], calls, p, k - 1)]
             g == [k \in 0..N |-> PointAt(Fin, D, W, A, S, calls, p, k)]
  <1>3. PICK h : h = g
    OBVIOUS
  <1>4. \A k \in 0..N : h[k] = PointAt(Fin, D, W, A, S, calls, p, k)
    BY <1>3
  <1>5. h = [k \in 0..N |-> h[k]]
    BY <1>3
  <1>6. h[0] = from
    <2>1. TurnDone(D, calls, p, 0) = D
      <3>1. \A q \in Rs : ~(q < 0)
        BY DEF Rs
      <3> QED
        BY <3>1 DEF TurnDone
    <2>2. Previous(A, Unit, 0) = Unit /\ Previous(S, <<>>, 0) = <<>>
      BY DEF Previous
    <2>3. PointAt(Fin, D, W, A, S, calls, p, 0) = from
      BY <1>2, <2>1, <2>2 DEF PointAt
    <2>4. 0 \in 0..N
      OBVIOUS
    <2> HIDE DEF g
    <2> QED
      BY <1>4, <2>3, <2>4
  <1>7. \A k \in 1..N : h[k] = RunCalls(h[k - 1], calls, p, k - 1)
    <2>1. TAKE k \in 1..N
    <2>2. PICK r \in Turns(body.inLoop) : r = k - 1 /\ r + 1 = k
      BY <1>1, Sizes DEF Turns
    <2>3. r \in 0..N /\ k \in 0..N
      BY <2>2
    <2>4. RunCalls(PointAt(Fin, D, W, A, S, calls, p, r), calls, p, r) = PointAt(Fin, D, W, A, S, calls, p, r + 1)
      BY <1>2, BodyTurn
    <2> HIDE DEF g
    <2> QED
      BY <1>4, <2>2, <2>3, <2>4
  <1>8. h = [k \in 0..N |-> IF k = 0 THEN from ELSE RunCalls(h[k - 1], calls, p, k - 1)]
    <2> HIDE DEF g
    <2>1. \A k \in 0..N : h[k] = IF k = 0 THEN from ELSE RunCalls(h[k - 1], calls, p, k - 1)
      BY <1>6, <1>7
    <2> QED
      BY <1>5, <2>1
  <1>9. it = [k \in 0..N |-> IF k = 0 THEN from ELSE RunCalls(it[k - 1], calls, p, k - 1)]
    <2> HIDE DEF g
    <2> QED
      BY <1>8
  <1>10. RunPoint(mem, body, p) = it[N].mem
    BY <1>1, <1>2 DEF RunPoint, Repeat
  <1>11. \A k \in 0..N : it[k] = h[k]
    <2> HIDE DEF it, g
    <2>1. it[0] = h[0]
      BY <1>8, <1>9
    <2>2. \A k \in 1..N : it[k - 1] = h[k - 1] => it[k] = h[k]
      BY <1>8, <1>9
    <2>3. PICK i2 : i2 = it
      OBVIOUS
    <2> QED
      BY <2>1, <2>2, <2>3, RecursionUnique
  <1>12. it[N].mem = Filled(Fin, TurnDone(D, calls, p, N))
    <2> HIDE DEF it, g
    <2>1. it[N] = PointAt(Fin, D, W, A, S, calls, p, N)
      BY <1>4, <1>11
    <2> QED
      BY <2>1 DEF PointAt
  <1> HIDE DEF it, g
  <1> QED
    BY <1>1, <1>2, <1>10, <1>12, PointFills

(* The addresses of the buffers of B. *)
AddrOf(B) == {a \in Addr : a[1] \in B}

BodyTrue(Fin, body, E) ==
    /\ Written(body)
    /\ \A p \in Points : \E W, A, S : BodyReady(Fin, body, E, p, W, A, S)

(* All points. *)
LEMMA BodyFollows ==
    ASSUME NEW Fin, NEW body, NEW E, BodyTrue(Fin, body, E), NEW mem, mem = Filled(Fin, AddrOf(E))
    PROVE  RunBody(mem, body) = Filled(Fin, AddrOf(E \cup {body.out}))
  <1>1. PICK N \in Nat : N = PointwiseSize
    BY Sizes
  <1>2. PICK out : out = body.out
    OBVIOUS
  <1> DEFINE it == CHOOSE f : f = [k \in 0..N |-> IF k = 0 THEN mem ELSE RunPoint(f[k - 1], body, k - 1)]
             g == [k \in 0..N |-> Filled(Fin, PointDone(E, out, k))]
  <1>3. PICK h : h = g
    OBVIOUS
  <1>4. \A k \in 0..N : h[k] = Filled(Fin, PointDone(E, out, k))
    BY <1>3
  <1>5. h = [k \in 0..N |-> h[k]]
    BY <1>3
  <1>6. h[0] = mem
    <2>1. \A q \in Points : ~(q < 0)
      BY DEF Points
    <2>2. PointDone(E, out, 0) = AddrOf(E)
      BY <2>1 DEF PointDone, AddrOf, Addr
    <2>3. 0 \in 0..N
      OBVIOUS
    <2> HIDE DEF g
    <2> QED
      BY <1>4, <2>2, <2>3
  <1>7. \A k \in 1..N : h[k] = RunPoint(h[k - 1], body, k - 1)
    <2>1. TAKE k \in 1..N
    <2>2. PICK p \in Points : p = k - 1 /\ p + 1 = k
      BY <1>1, Sizes
    <2>3. p \in 0..N /\ k \in 0..N
      BY <2>2
    <2>4. PICK W, A, S : BodyReady(Fin, body, E, p, W, A, S)
      BY DEF BodyTrue
    <2>5. PICK now : now = Filled(Fin, PointDone(E, body.out, p))
      OBVIOUS
    <2>6. RunPoint(now, body, p) = Filled(Fin, PointDone(E, body.out, p + 1))
      BY <2>4, <2>5, PointFollows DEF BodyTrue
    <2> HIDE DEF g
    <2> QED
      BY <1>2, <1>4, <2>2, <2>3, <2>5, <2>6
  <1>8. h = [k \in 0..N |-> IF k = 0 THEN mem ELSE RunPoint(h[k - 1], body, k - 1)]
    <2> HIDE DEF g
    <2>1. \A k \in 0..N : h[k] = IF k = 0 THEN mem ELSE RunPoint(h[k - 1], body, k - 1)
      BY <1>6, <1>7
    <2> QED
      BY <1>5, <2>1
  <1>9. it = [k \in 0..N |-> IF k = 0 THEN mem ELSE RunPoint(it[k - 1], body, k - 1)]
    <2> HIDE DEF g
    <2> QED
      BY <1>8
  <1>10. RunBody(mem, body) = it[N]
    BY <1>1 DEF RunBody, Repeat
  <1>11. \A k \in 0..N : it[k] = h[k]
    <2> HIDE DEF it, g
    <2>1. it[0] = h[0]
      BY <1>8, <1>9
    <2>2. \A k \in 1..N : it[k - 1] = h[k - 1] => it[k] = h[k]
      BY <1>8, <1>9
    <2> QED
      BY <2>1, <2>2, RecursionUnique
  <1>12. PointDone(E, out, N) = AddrOf(E \cup {out})
    <2>1. \A q \in Points : q < N
      BY <1>1 DEF Points
    <2> QED
      BY <2>1 DEF PointDone, AddrOf, Addr
  <1> HIDE DEF it, g
  <1> QED
    BY <1>2, <1>4, <1>10, <1>11, <1>12

(* The bodies, one after another.                                          *)
OutsBefore(bs, n) == {bs[m].out : m \in {h \in DOMAIN bs : h < n}}

BodiesTrue(Fin, bs) ==
    /\ \E n \in Nat : DOMAIN bs = 1..n /\ Len(bs) = n
    /\ \A n \in DOMAIN bs : BodyTrue(Fin, bs[n], OutsBefore(bs, n))

(* Running the bodies fills the addresses of their outputs. *)
LEMMA BodiesFollow ==
    ASSUME NEW Fin, BodiesTrue(Fin, bodies)
    PROVE  RunBodies = Filled(Fin, AddrOf(OutsBefore(bodies, Len(bodies) + 1)))
  <1>1. PICK N \in Nat : DOMAIN bodies = 1..N /\ Len(bodies) = N
    BY DEF BodiesTrue
  <1>2. PICK bs : bs = bodies
    OBVIOUS
  <1> DEFINE it == CHOOSE f : f = [k \in 0..N |-> IF k = 0 THEN InitialMemory ELSE RunBody(f[k - 1], bodies[k])]
             g == [k \in 0..N |-> Filled(Fin, AddrOf(OutsBefore(bodies, k + 1)))]
  <1>3. PICK h : h = g
    OBVIOUS
  <1>4. \A k \in 0..N : h[k] = Filled(Fin, AddrOf(OutsBefore(bodies, k + 1)))
    BY <1>3
  <1>5. h = [k \in 0..N |-> h[k]]
    BY <1>3
  <1>6. h[0] = InitialMemory
    <2>1. OutsBefore(bodies, 1) = {}
      BY <1>1 DEF OutsBefore
    <2>2. Filled(Fin, AddrOf({})) = InitialMemory
      <3>1. InitialMemory = [a \in Addr |-> InitialMemory[a]]
        BY ValuesAssumption DEF Addr
      <3> QED
        BY <3>1 DEF Filled, AddrOf
    <2>3. 0 \in 0..N /\ 0 + 1 = 1
      OBVIOUS
    <2> HIDE DEF g
    <2> QED
      BY <1>4, <2>1, <2>2, <2>3
  <1>7. \A k \in 1..N : h[k] = RunBody(h[k - 1], bodies[k])
    <2>1. TAKE k \in 1..N
    <2>2. PICK m \in 0..N : m = k - 1 /\ m + 1 = k
      OBVIOUS
    <2>3. k \in 0..N /\ k \in DOMAIN bodies
      BY <1>1
    <2>4. PICK body, E, now : body = bodies[k] /\ E = OutsBefore(bodies, k) /\ now = Filled(Fin, AddrOf(E))
      OBVIOUS
    <2>5. BodyTrue(Fin, body, E)
      BY <2>3, <2>4 DEF BodiesTrue
    <2>6. RunBody(now, body) = Filled(Fin, AddrOf(E \cup {body.out}))
      BY <2>4, <2>5, BodyFollows
    <2>7. E \cup {body.out} = OutsBefore(bodies, k + 1)
      <3>1. \A i \in DOMAIN bodies : i < k + 1 <=> i < k \/ i = k
        BY <1>1
      <3> QED
        BY <2>3, <2>4, <3>1 DEF OutsBefore
    <2> HIDE DEF g
    <2> QED
      BY <1>4, <2>2, <2>3, <2>4, <2>6, <2>7
  <1>8. h = [k \in 0..N |-> IF k = 0 THEN InitialMemory ELSE RunBody(h[k - 1], bodies[k])]
    <2> HIDE DEF g
    <2>1. \A k \in 0..N : h[k] = IF k = 0 THEN InitialMemory ELSE RunBody(h[k - 1], bodies[k])
      BY <1>6, <1>7
    <2> QED
      BY <1>5, <2>1
  <1>9. it = [k \in 0..N |-> IF k = 0 THEN InitialMemory ELSE RunBody(it[k - 1], bodies[k])]
    <2> HIDE DEF g
    <2> QED
      BY <1>8
  <1>10. RunBodies = it[N]
    BY <1>1 DEF RunBodies, Repeat
  <1>11. \A k \in 0..N : it[k] = h[k]
    <2> HIDE DEF it, g
    <2>1. it[0] = h[0]
      BY <1>8, <1>9
    <2>2. \A k \in 1..N : it[k - 1] = h[k - 1] => it[k] = h[k]
      BY <1>8, <1>9
    <2> QED
      BY <2>1, <2>2, RecursionUnique
  <1> HIDE DEF it, g
  <1> QED
    BY <1>1, <1>4, <1>10, <1>11

-----------------------------------------------------------------------------
(* The inductive invariant.  First what has been emitted and called, apart *)
(* from values.                                                            *)

Known == BodyNames \cup InitNames
Reached == Inputs \cup {o \in Outputs : written[o] # "no"}

(* The open phase, as the section it will become. *)
Open == [loop |-> active, inits |-> inits, body |-> Flushed, fins |-> fins]

StmtKnown(s, K, B) ==
    /\ s.dst \in K \cup {None} /\ ArgsOf(s) \subseteq K
    /\ s.op \in {"load", "store", "atomic"} => s.buf \in B

SeqKnown(seq, K, B) == \A i \in DOMAIN seq : StmtKnown(seq[i], K, B)

InitsSound(seq) == ProperAll(seq) /\ \A i \in DOMAIN seq : InitShape(seq[i])

BodySound(seq, loop) ==
    /\ ProperAll(seq)
    /\ \A i \in DOMAIN seq :
          /\ seq[i].op \notin {"init", "uninit"}
          /\ Writes(seq[i]) => seq[i].dst = None /\ Sits(seq[i], loop)

FinsSound(seq) ==
    /\ ProperAll(seq)
    /\ \A i \in DOMAIN seq : seq[i].op = "store" /\ seq[i].dst = None /\ seq[i].idx \in RowIdx

LoadPlaced(s, before, loop) == s.op = "load" => s.buf \in Inputs \cup before \/ Sits(s, loop)

(* The statements of a section whose initializers are ins, after others    *)
(* that write the buffers of before.                                       *)
Fits(before, K, B, sec) ==
    /\ sec.loop \in BOOLEAN /\ (~sec.loop => sec.inits = <<>> /\ sec.fins = <<>>)
    /\ InitsSound(sec.inits) /\ BodySound(sec.body, sec.loop) /\ FinsSound(sec.fins)
    /\ Initialized(sec.inits) \subseteq AssignedBy(sec.body, Len(sec.body) + 1)
    /\ SeqKnown(sec.inits, K, B) /\ SeqKnown(sec.body, K, B) /\ SeqKnown(sec.fins, K, B)
    /\ \A i \in DOMAIN sec.body :
          /\ LoadPlaced(sec.body[i], before, sec.loop)
          /\ sec.body[i].op = "atomic" =>
                /\ sec.body[i].buf \notin before
                /\ \A j \in WritesOf(sec.body, sec.body[i].buf) : j >= i

(* Statements that may be added to it. *)
FitsMore(before, K, B, sec, added, t, f) ==
    /\ ~sec.loop => added = <<>> /\ f = <<>>
    /\ InitsSound(added) /\ BodySound(t, sec.loop) /\ FinsSound(f)
    /\ Initialized(added) \subseteq AssignedBy(t, Len(t) + 1)
    /\ SeqKnown(added, K, B) /\ SeqKnown(t, K, B) /\ SeqKnown(f, K, B)
    /\ \A i \in DOMAIN t :
          /\ LoadPlaced(t[i], before, sec.loop)
          /\ t[i].op = "atomic" =>
                /\ t[i].buf \notin before /\ WritesOf(sec.body, t[i].buf) = {}
                /\ \A j \in WritesOf(t, t[i].buf) : j >= i

Grown(sec, added, t, f) ==
    [loop |-> sec.loop, inits |-> sec.inits \o added, body |-> sec.body \o t, fins |-> sec.fins \o f]

SectionsFit == \A n \in DOMAIN outer : Fits(WrittenBefore(outer, n), Known, Reached, outer[n])
PhaseFits == Fits(WrittenBefore(outer, Len(outer) + 1), Known, Reached, Open)

ValuesKnown == \A i \in DOMAIN child.vals : child.vals[i] \in Known

Remembered(v, b) == v # None => v \in Known /\ b \in Outputs /\ written[b] # "no"
TablesKnown == \A key \in Key : Remembered(fwd[key], key[1]) /\ Remembered(fwdRed[key], key[1])

WritesMatch ==
    \A o \in Outputs : WritesOf(block, o) # {} =>
        written[o] \in IF active THEN {"full", "scatter"} ELSE {"row", "scatter"}

ShapeInv ==
    /\ SectionsFit
    /\ status = "building" => PhaseFits
    /\ ValuesKnown
    /\ TablesKnown
    /\ WritesMatch

(* The bodies: all but the open one have made their last call. *)
Finished(n) == n < Len(bodies) \/ child.mode = "idle"
Current == bodies[Len(bodies)]

BodiesInv ==
    /\ bodies \in Seq([inLoop: BOOLEAN, out: Outputs, calls: Seq(CallSet)])
    /\ \A n \in DOMAIN bodies :
          /\ BodyCalls(bodies[n], OutsBefore(bodies, n))
          /\ bodies[n].out \notin OutsBefore(bodies, n)
          /\ Finished(n) => Written(bodies[n]) /\ written[bodies[n].out] # "no"
    /\ child.mode # "idle" =>
          /\ bodies # <<>> /\ ~Written(Current)
          /\ Current.out = child.out /\ Current.inLoop = active
          /\ Made(Current.calls, Len(Current.calls) + 1, "reduction") <=> child.mode = "reduced"
          /\ Made(Current.calls, Len(Current.calls) + 1, "scan") <=> child.mode = "scanned"
    /\ \A o \in Outputs : written[o] # "no" =>
          \E n \in DOMAIN bodies : bodies[n].out = o /\ Finished(n)

-----------------------------------------------------------------------------
(* Sections grow. *)

(* An element of a concatenation is an element of one of its parts. *)
LEMMA ConcatParts ==
    ASSUME NEW s \in Seq(Stmt), NEW t \in Seq(Stmt), NEW i \in DOMAIN (s \o t)
    PROVE  \/ i \in DOMAIN s /\ (s \o t)[i] = s[i]
           \/ \E j \in DOMAIN t : i = j + Len(s) /\ (s \o t)[i] = t[j]
  <1>1. CASE i \in DOMAIN s
    BY <1>1, ConcatElements
  <1>2. CASE i \notin DOMAIN s
    <2>1. PICK j : j = i - Len(s)
      OBVIOUS
    <2>2. j \in DOMAIN t /\ (s \o t)[i] = t[j]
      BY <1>2, <2>1, ConcatElements
    <2>3. i \in Nat /\ Len(s) \in Nat
      BY ConcatElements
    <2>4. i = j + Len(s)
      BY <2>1, <2>3
    <2> QED
      BY <2>2, <2>4
  <1> QED
    BY <1>1, <1>2

(* A concatenation assigns the locals its parts assign. *)
LEMMA AssignedConcat ==
    ASSUME NEW s \in Seq(Stmt), NEW t \in Seq(Stmt), NEW v
    PROVE  v \in AssignedBy(s \o t, Len(s \o t) + 1) <=>
              v \in AssignedBy(s, Len(s) + 1) \/ v \in AssignedBy(t, Len(t) + 1)
  <1>1. \A q \in Seq(Stmt) : v \in AssignedBy(q, Len(q) + 1) <=>
            \E i \in DOMAIN q : ~Writes(q[i]) /\ q[i].dst = v
    <2>1. \A q \in Seq(Stmt) : \A i \in DOMAIN q : i < Len(q) + 1
      OBVIOUS
    <2> QED
      BY <2>1 DEF AssignedBy
  <1>2. s \o t \in Seq(Stmt)
    BY ConcatElements
  <1>3. (\E i \in DOMAIN (s \o t) : ~Writes((s \o t)[i]) /\ (s \o t)[i].dst = v) =>
            \/ \E i \in DOMAIN s : ~Writes(s[i]) /\ s[i].dst = v
            \/ \E i \in DOMAIN t : ~Writes(t[i]) /\ t[i].dst = v
    BY ConcatParts
  <1>4. (\E i \in DOMAIN s : ~Writes(s[i]) /\ s[i].dst = v) =>
            \E i \in DOMAIN (s \o t) : ~Writes((s \o t)[i]) /\ (s \o t)[i].dst = v
    BY ConcatElements
  <1>5. (\E i \in DOMAIN t : ~Writes(t[i]) /\ t[i].dst = v) =>
            \E i \in DOMAIN (s \o t) : ~Writes((s \o t)[i]) /\ (s \o t)[i].dst = v
    <2>1. SUFFICES ASSUME NEW i \in DOMAIN t, ~Writes(t[i]), t[i].dst = v
                   PROVE  \E h \in DOMAIN (s \o t) : ~Writes((s \o t)[h]) /\ (s \o t)[h].dst = v
      OBVIOUS
    <2>2. PICK h : h = i + Len(s)
      OBVIOUS
    <2>3. h \in DOMAIN (s \o t) /\ (s \o t)[h] = t[i]
      BY <2>2, ConcatElements
    <2> QED
      BY <2>1, <2>3
  <1> QED
    BY <1>1, <1>2, <1>3, <1>4, <1>5

(* Initializers are those of the parts. *)
LEMMA InitializedConcat ==
    ASSUME NEW s \in Seq(Stmt), NEW t \in Seq(Stmt)
    PROVE  Initialized(s \o t) = Initialized(s) \cup Initialized(t)
  BY DeclaresConcat DEF Initialized

(* Proper statements stay proper. *)
LEMMA ProperConcat ==
    ASSUME NEW s, NEW t, ProperAll(s), ProperAll(t)
    PROVE  ProperAll(s \o t)
  <1>1. s \in Seq(Stmt) /\ t \in Seq(Stmt)
    BY DEF ProperAll
  <1>2. s \o t \in Seq(Stmt)
    BY <1>1, ConcatElements
  <1>3. \A i \in DOMAIN (s \o t) : Proper((s \o t)[i])
    BY <1>1, ConcatParts DEF ProperAll
  <1> QED
    BY <1>2, <1>3 DEF ProperAll

(* So do initializers that are sound, *)
LEMMA InitsConcat ==
    ASSUME NEW s, NEW t, InitsSound(s), InitsSound(t)
    PROVE  InitsSound(s \o t)
  <1>1. s \in Seq(Stmt) /\ t \in Seq(Stmt)
    BY DEF InitsSound, ProperAll
  <1>2. \A i \in DOMAIN (s \o t) : InitShape((s \o t)[i])
    BY <1>1, ConcatParts DEF InitsSound
  <1> QED
    BY <1>2, ProperConcat DEF InitsSound

(* the statements of a body, *)
LEMMA BodyConcat ==
    ASSUME NEW s, NEW t, NEW loop, BodySound(s, loop), BodySound(t, loop)
    PROVE  BodySound(s \o t, loop)
  <1>1. s \in Seq(Stmt) /\ t \in Seq(Stmt)
    BY DEF BodySound, ProperAll
  <1>2. \A i \in DOMAIN (s \o t) :
          /\ (s \o t)[i].op \notin {"init", "uninit"}
          /\ Writes((s \o t)[i]) => (s \o t)[i].dst = None /\ Sits((s \o t)[i], loop)
    BY <1>1, ConcatParts DEF BodySound
  <1> QED
    BY <1>2, ProperConcat DEF BodySound

(* and finalizers. *)
LEMMA FinsConcat ==
    ASSUME NEW s, NEW t, FinsSound(s), FinsSound(t)
    PROVE  FinsSound(s \o t)
  <1>1. s \in Seq(Stmt) /\ t \in Seq(Stmt)
    BY DEF FinsSound, ProperAll
  <1>2. \A i \in DOMAIN (s \o t) :
           (s \o t)[i].op = "store" /\ (s \o t)[i].dst = None /\ (s \o t)[i].idx \in RowIdx
    BY <1>1, ConcatParts DEF FinsSound
  <1> QED
    BY <1>2, ProperConcat DEF FinsSound

(* Statements that name what is known still do when more is known. *)
LEMMA KnownConcat ==
    ASSUME NEW s \in Seq(Stmt), NEW t \in Seq(Stmt), NEW K, NEW B, NEW K2, NEW B2,
           K \subseteq K2, B \subseteq B2, SeqKnown(s, K, B), SeqKnown(t, K2, B2)
    PROVE  SeqKnown(s \o t, K2, B2)
  <1>1. \A x : StmtKnown(x, K, B) => StmtKnown(x, K2, B2)
    BY DEF StmtKnown
  <1>2. \A i \in DOMAIN (s \o t) : StmtKnown((s \o t)[i], K2, B2)
    BY <1>1, ConcatParts DEF SeqKnown
  <1> QED
    BY <1>2 DEF SeqKnown

(* A section that fits still does when more is known. *)
LEMMA FitsMonotone ==
    ASSUME NEW before, NEW K, NEW B, NEW K2, NEW B2, NEW sec,
           K \subseteq K2, B \subseteq B2, Fits(before, K, B, sec)
    PROVE  Fits(before, K2, B2, sec)
  <1>1. \A seq : SeqKnown(seq, K, B) => SeqKnown(seq, K2, B2)
    BY DEF SeqKnown, StmtKnown
  <1> QED
    BY <1>1 DEF Fits

(* A section that fits still does when it grows by what fits. *)
LEMMA FitsGrows ==
    ASSUME NEW before, NEW K, NEW B, NEW K2, NEW B2, NEW sec, NEW added, NEW t, NEW f,
           K \subseteq K2, B \subseteq B2,
           Fits(before, K, B, sec), FitsMore(before, K2, B2, sec, added, t, f)
    PROVE  Fits(before, K2, B2, Grown(sec, added, t, f))
  <1>1. PICK sec2, ins, seq, fi : /\ sec2 = Grown(sec, added, t, f)
                                  /\ ins = sec.inits /\ seq = sec.body /\ fi = sec.fins
    OBVIOUS
  <1>2. /\ sec2.loop = sec.loop /\ sec2.inits = ins \o added
        /\ sec2.body = seq \o t /\ sec2.fins = fi \o f
    BY <1>1 DEF Grown
  <1>3. /\ ins \in Seq(Stmt) /\ added \in Seq(Stmt) /\ seq \in Seq(Stmt) /\ t \in Seq(Stmt)
        /\ fi \in Seq(Stmt) /\ f \in Seq(Stmt)
    BY <1>1 DEF Fits, FitsMore, InitsSound, BodySound, FinsSound, ProperAll
  <1>4. InitsSound(sec2.inits)
    BY <1>1, <1>2, InitsConcat DEF Fits, FitsMore
  <1>5. BodySound(sec2.body, sec2.loop)
    <2>1. PICK loop : loop = sec.loop
      OBVIOUS
    <2>2. BodySound(seq, loop) /\ BodySound(t, loop)
      BY <1>1, <2>1 DEF Fits, FitsMore
    <2> QED
      BY <1>2, <2>1, <2>2, BodyConcat
  <1>6. FinsSound(sec2.fins)
    BY <1>1, <1>2, FinsConcat DEF Fits, FitsMore
  <1>7. Initialized(sec2.inits) \subseteq AssignedBy(sec2.body, Len(sec2.body) + 1)
    <2>1. Initialized(ins) \subseteq AssignedBy(seq, Len(seq) + 1)
      BY <1>1 DEF Fits
    <2>2. Initialized(added) \subseteq AssignedBy(t, Len(t) + 1)
      BY DEF FitsMore
    <2>3. Initialized(ins \o added) = Initialized(ins) \cup Initialized(added)
      BY <1>3, InitializedConcat
    <2>4. SUFFICES ASSUME NEW v \in Initialized(ins \o added)
                   PROVE  v \in AssignedBy(seq \o t, Len(seq \o t) + 1)
      BY <1>2
    <2> QED
      BY <1>3, <2>1, <2>2, <2>3, AssignedConcat
  <1>8. /\ SeqKnown(sec2.inits, K2, B2) /\ SeqKnown(sec2.body, K2, B2)
        /\ SeqKnown(sec2.fins, K2, B2)
    <2>1. SeqKnown(ins, K, B) /\ SeqKnown(seq, K, B) /\ SeqKnown(fi, K, B)
      BY <1>1 DEF Fits
    <2>2. SeqKnown(added, K2, B2) /\ SeqKnown(t, K2, B2) /\ SeqKnown(f, K2, B2)
      BY DEF FitsMore
    <2> QED
      BY <1>2, <1>3, <2>1, <2>2, KnownConcat
  <1>9. ASSUME NEW i \in DOMAIN sec2.body
        PROVE  /\ LoadPlaced(sec2.body[i], before, sec2.loop)
               /\ sec2.body[i].op = "atomic" =>
                    /\ sec2.body[i].buf \notin before
                    /\ \A j \in WritesOf(sec2.body, sec2.body[i].buf) : j >= i
    <2>1. CASE i \in DOMAIN seq
      <3>1. sec2.body[i] = seq[i]
        BY <1>2, <1>3, <2>1, ConcatElements
      <3>2. LoadPlaced(seq[i], before, sec.loop)
        BY <1>1, <2>1 DEF Fits
      <3>3. ASSUME seq[i].op = "atomic"
            PROVE  /\ seq[i].buf \notin before
                   /\ \A j \in WritesOf(sec2.body, seq[i].buf) : j >= i
        <4>1. seq[i].buf \notin before /\ \A j \in WritesOf(seq, seq[i].buf) : j >= i
          BY <1>1, <2>1, <3>3 DEF Fits
        <4>2. SUFFICES ASSUME NEW j \in WritesOf(seq \o t, seq[i].buf) PROVE j >= i
          BY <1>2, <4>1
        <4>3. CASE j \in DOMAIN seq
          <5>1. j \in WritesOf(seq, seq[i].buf)
            BY <1>3, <4>3, ConcatElements DEF WritesOf
          <5> QED
            BY <4>1, <5>1
        <4>4. CASE j \notin DOMAIN seq
          <5>1. j \in DOMAIN (seq \o t)
            BY DEF WritesOf
          <5> QED
            BY <1>3, <2>1, <4>4, <5>1, ConcatElements
        <4> QED
          BY <4>3, <4>4
      <3> QED
        BY <1>2, <3>1, <3>2, <3>3
    <2>2. CASE i \notin DOMAIN seq
      <3>1. PICK h \in DOMAIN t : i = h + Len(seq) /\ sec2.body[i] = t[h]
        BY <1>2, <1>3, <2>2, ConcatParts
      <3>2. LoadPlaced(t[h], before, sec.loop)
        BY DEF FitsMore
      <3>3. ASSUME t[h].op = "atomic"
            PROVE  /\ t[h].buf \notin before
                   /\ \A j \in WritesOf(sec2.body, t[h].buf) : j >= i
        <4>1. /\ t[h].buf \notin before /\ WritesOf(seq, t[h].buf) = {}
              /\ \A j \in WritesOf(t, t[h].buf) : j >= h
          BY <1>1, <3>3 DEF FitsMore
        <4>2. SUFFICES ASSUME NEW j \in WritesOf(seq \o t, t[h].buf) PROVE j >= i
          BY <1>2, <4>1
        <4>3. CASE j \in DOMAIN seq
          <5>1. j \in WritesOf(seq, t[h].buf)
            BY <1>3, <4>3, ConcatElements DEF WritesOf
          <5> QED
            BY <4>1, <5>1
        <4>4. CASE j \notin DOMAIN seq
          <5>1. PICK g \in DOMAIN t : j = g + Len(seq) /\ (seq \o t)[j] = t[g]
            BY <1>3, <4>4, ConcatParts DEF WritesOf
          <5>2. g \in WritesOf(t, t[h].buf)
            BY <5>1 DEF WritesOf
          <5>3. g >= h /\ Len(seq) \in Nat /\ g \in Nat /\ h \in Nat
            BY <1>3, <4>1, <5>2, ConcatElements
          <5> QED
            BY <3>1, <5>1, <5>3
        <4> QED
          BY <4>3, <4>4
      <3> QED
        BY <1>2, <3>1, <3>2, <3>3
    <2> QED
      BY <2>1, <2>2
  <1>10. sec2.loop \in BOOLEAN /\ (~sec2.loop => sec2.inits = <<>> /\ sec2.fins = <<>>)
    <2>1. ~sec.loop => ins = <<>> /\ added = <<>> /\ fi = <<>> /\ f = <<>>
      BY <1>1 DEF Fits, FitsMore
    <2>2. <<>> \o <<>> = <<>>
      OBVIOUS
    <2> QED
      BY <1>2, <2>1, <2>2 DEF Fits
  <1> QED
    BY <1>1, <1>4, <1>5, <1>6, <1>7, <1>8, <1>9, <1>10 DEF Fits

-----------------------------------------------------------------------------
(* The inductive step for what has been emitted. *)

(* Names stay known, and written buffers written. *)
LEMMA KnownMonotone ==
    ASSUME TypeOK, TypeOK', count.tmp <= count'.tmp, count.acc <= count'.acc, count.scan <= count'.scan
    PROVE  Known \subseteq Known'
  <1>1. \A a, b \in Nat : a <= b => 0..(a - 1) \subseteq 0..(b - 1)
    OBVIOUS
  <1>2. /\ 0..(count.tmp - 1) \subseteq 0..(count'.tmp - 1)
        /\ 0..(count.acc - 1) \subseteq 0..(count'.acc - 1)
        /\ 0..(count.scan - 1) \subseteq 0..(count'.scan - 1)
    BY <1>1 DEF TypeOK
  <1> QED
    BY <1>2 DEF Known, BodyNames, InitNames

(* Buffers that were reached stay reached. *)
LEMMA ReachedMonotone ==
    ASSUME \A o \in Outputs : written[o] # "no" => written'[o] # "no"
    PROVE  Reached \subseteq Reached'
  BY DEF Reached

(* How the open phase grows. *)
LEMMA OpenGrows ==
    ASSUME TypeOK, NEW t \in Seq(Stmt), NEW added \in Seq(Stmt), NEW f \in Seq(Stmt),
           \/ block' = Flushed \o t /\ bindings' = <<>>
           \/ UNCHANGED block /\ bindings' = bindings \o t,
           inits' = inits \o added, fins' = fins \o f, UNCHANGED active
    PROVE  Flushed' = Flushed \o t /\ Open' = Grown(Open, added, t, f)
  <1>1. block \in Seq(Stmt) /\ bindings \in Seq(Stmt) /\ Flushed \in Seq(Stmt)
    BY ConcatElements DEF TypeOK, Flushed
  <1>2. Flushed' = Flushed \o t
    <2>1. CASE block' = Flushed \o t /\ bindings' = <<>>
      <3>1. Flushed \o t \in Seq(Stmt)
        BY <1>1, ConcatElements
      <3>2. PICK q \in Seq(Stmt) : q = Flushed \o t
        BY <3>1
      <3>3. q \o <<>> = q
        OBVIOUS
      <3> QED
        BY <2>1, <3>2, <3>3 DEF Flushed
    <2>2. CASE UNCHANGED block /\ bindings' = bindings \o t
      <3>1. block \o (bindings \o t) = (block \o bindings) \o t
        BY <1>1
      <3> QED
        BY <2>2, <3>1 DEF Flushed
    <2> QED
      BY <2>1, <2>2
  <1> QED
    BY <1>2 DEF Open, Grown

(* Adding no statement adds nothing. *)
LEMMA NothingMore ==
    /\ <<>> \in Seq(Stmt)
    /\ \A s \in Seq(Stmt) : s \o <<>> = s
    /\ \A s \in Seq(Stmt), x \in Stmt : Append(s, x) = s \o <<x>> /\ <<x>> \in Seq(Stmt)
    /\ InitsSound(<<>>) /\ FinsSound(<<>>) /\ \A loop : BodySound(<<>>, loop)
    /\ Initialized(<<>>) = {} /\ \A K, B : SeqKnown(<<>>, K, B)
  BY DEF InitsSound, FinsSound, BodySound, ProperAll, Initialized, Declares, SeqKnown

(* A step that extends the open phase by what fits. *)
LEMMA ShapeExtends ==
    ASSUME ShapeInv, NEW added, NEW t, NEW f, Open' = Grown(Open, added, t, f),
           UNCHANGED outer, Known \subseteq Known', Reached \subseteq Reached',
           status = "building",
           FitsMore(WrittenBefore(outer, Len(outer) + 1), Known', Reached', Open, added, t, f)
    PROVE  SectionsFit' /\ PhaseFits'
  <1>1. PICK K, B, K2, B2 : K = Known /\ B = Reached /\ K2 = Known' /\ B2 = Reached'
    OBVIOUS
  <1>2. K \subseteq K2 /\ B \subseteq B2
    BY <1>1
  <1>3. SectionsFit'
    <2>1. \A n \in DOMAIN outer : Fits(WrittenBefore(outer, n), K, B, outer[n])
      BY <1>1 DEF ShapeInv, SectionsFit
    <2>2. \A n \in DOMAIN outer : Fits(WrittenBefore(outer, n), K2, B2, outer[n])
      BY <1>2, <2>1, FitsMonotone
    <2> QED
      BY <1>1, <2>2 DEF SectionsFit
  <1>4. PhaseFits'
    <2>1. PICK before, sec : before = WrittenBefore(outer, Len(outer) + 1) /\ sec = Open
      OBVIOUS
    <2>2. Fits(before, K, B, sec)
      BY <1>1, <2>1 DEF ShapeInv, PhaseFits
    <2>3. FitsMore(before, K2, B2, sec, added, t, f)
      BY <1>1, <2>1
    <2>4. Fits(before, K2, B2, Grown(sec, added, t, f))
      BY <1>2, <2>2, <2>3, FitsGrows
    <2>5. Open' = Grown(sec, added, t, f) /\ WrittenBefore(outer', Len(outer') + 1) = before
      BY <2>1
    <2> QED
      BY <1>1, <2>4, <2>5 DEF PhaseFits
  <1> QED
    BY <1>3, <1>4

(* A step of a child: the open phase grows by what fits, and the LoopBody  *)
(* and the tables hold known names.                                        *)
LEMMA ShapeMore ==
    ASSUME NamesInv, ShapeInv, TypeOK', child.mode # "idle",
           NEW t \in Seq(Stmt), NEW added \in Seq(Stmt), NEW f \in Seq(Stmt),
           \/ block' = Flushed \o t /\ bindings' = <<>>
           \/ UNCHANGED block /\ bindings' = bindings \o t,
           inits' = inits \o added, fins' = fins \o f, UNCHANGED <<active, outer, status>>,
           Known \subseteq Known', Reached \subseteq Reached',
           FitsMore(WrittenBefore(outer, Len(outer) + 1), Known', Reached', Open, added, t, f),
           ValuesKnown', TablesKnown', WritesMatch'
    PROVE  ShapeInv'
  <1>1. TypeOK /\ status = "building"
    BY DEF NamesInv, IInv, Idle
  <1>2. Open' = Grown(Open, added, t, f)
    BY <1>1, OpenGrows
  <1>3. SectionsFit' /\ PhaseFits'
    BY <1>1, <1>2, ShapeExtends
  <1> QED
    BY <1>3 DEF ShapeInv

(* Nothing is emitted. *)
LEMMA ShapeRests ==
    ASSUME ShapeInv, UNCHANGED <<outer, status, phase, active, fwd, fwdRed, count, written>>,
           ValuesKnown'
    PROVE  ShapeInv'
  <1>1. Known' = Known /\ Reached' = Reached /\ Open' = Open /\ Flushed' = Flushed
    BY DEF Known, Reached, Open, Flushed, phase, BodyNames, InitNames
  <1> QED
    BY <1>1 DEF ShapeInv, SectionsFit, PhaseFits, TablesKnown, Remembered, WritesMatch, phase

(* One more temporary. *)
LEMMA BindKnown ==
    ASSUME TypeOK, TypeOK', count' = [count EXCEPT !.tmp = @ + 1]
    PROVE  Known \subseteq Known' /\ NextTemp \in Known' /\ NextTemp \notin Known /\ NextTemp \in Var
  <1>1. count.tmp \in Nat /\ count'.tmp = count.tmp + 1 /\ count'.acc = count.acc
        /\ count'.scan = count.scan /\ count.acc \in Nat /\ count.scan \in Nat
    BY DEF TypeOK
  <1>2. Known \subseteq Known'
    BY <1>1, KnownMonotone
  <1>3. count.tmp \in 0..(count'.tmp - 1) /\ count.tmp \notin 0..(count.tmp - 1)
    BY <1>1
  <1>4. NextTemp \in Known'
    BY <1>3 DEF Known, BodyNames, NextTemp
  <1>5. NextTemp \notin Known
    <2>1. \A n : <<"tmp", n>> \in Known => n \in 0..(count.tmp - 1)
      BY DEF Known, BodyNames, InitNames
    <2> QED
      BY <1>3, <2>1 DEF NextTemp
  <1> QED
    BY <1>1, <1>2, <1>4, <1>5 DEF NextTemp, Var

(* A new temporary. *)
LEMMA BindShape ==
    ASSUME NamesInv, ShapeInv, TypeOK', child.mode # "idle",
           NEW x \in Stmt, x.op \in {"load", "calc"}, x.dst = NextTemp, Proper(x),
           ArgsOf(x) \subseteq Known, x.op = "load" => x.buf \in Reached,
           LoadPlaced(x, WrittenBefore(outer, Len(outer) + 1), active),
           bindings' = Append(bindings, x), count' = [count EXCEPT !.tmp = @ + 1],
           Returns(NextTemp),
           UNCHANGED <<schedule, builder, block, inits, fins, fwd, fwdRed>>
    PROVE  ShapeInv'
  <1>1. TypeOK
    BY DEF NamesInv, IInv
  <1>2. Known \subseteq Known' /\ NextTemp \in Known'
    BY <1>1, BindKnown
  <1>3. written' = written /\ Reached' = Reached /\ active' = active /\ outer' = outer /\ status' = status
    BY DEF schedule, builder, Reached
  <1>4. <<x>> \in Seq(Stmt) /\ bindings' = bindings \o <<x>> /\ <<>> \in Seq(Stmt)
        /\ inits' = inits \o <<>> /\ fins' = fins \o <<>>
    BY <1>1, NothingMore DEF TypeOK
  <1>5. FitsMore(WrittenBefore(outer, Len(outer) + 1), Known', Reached', Open, <<>>, <<x>>, <<>>)
    <2>1. DOMAIN <<x>> = {1} /\ <<x>>[1] = x /\ DOMAIN <<>> = {}
      OBVIOUS
    <2>2. BodySound(<<x>>, Open.loop)
      BY <1>4, <2>1 DEF BodySound, ProperAll, Writes
    <2>3. PICK K, B, before : K = Known' /\ B = Reached' /\ before = WrittenBefore(outer, Len(outer) + 1)
      OBVIOUS
    <2>4. SeqKnown(<<x>>, K, B)
      <3>1. x.dst \in K /\ ArgsOf(x) \subseteq K /\ (x.op = "load" => x.buf \in B)
        BY <1>2, <1>3, <2>3
      <3> QED
        BY <2>1, <3>1 DEF SeqKnown, StmtKnown
    <2>5. LoadPlaced(x, before, Open.loop) /\ x.op # "atomic"
      BY <2>3 DEF Open
    <2>6. InitsSound(<<>>) /\ FinsSound(<<>>) /\ Initialized(<<>>) = {}
          /\ SeqKnown(<<>>, K, B)
      BY NothingMore
    <2>7. FitsMore(before, K, B, Open, <<>>, <<x>>, <<>>)
      BY <2>1, <2>2, <2>4, <2>5, <2>6 DEF FitsMore
    <2> QED
      BY <2>3, <2>7
  <1>6. ValuesKnown'
    <2>1. child'.vals = Append(child.vals, NextTemp) /\ child.vals \in Seq(Var)
      BY <1>1 DEF Returns, TypeOK, ChildOK
    <2>2. \A i \in DOMAIN child.vals : child.vals[i] \in Known
      BY DEF ShapeInv, ValuesKnown
    <2> QED
      BY <1>2, <2>1, <2>2 DEF ValuesKnown
  <1>7. TablesKnown'
    BY <1>2, <1>3 DEF ShapeInv, TablesKnown, Remembered
  <1>8. WritesMatch'
    BY <1>3 DEF ShapeInv, WritesMatch
  <1>9. Reached \subseteq Reached' /\ UNCHANGED <<active, outer, status>> /\ UNCHANGED block
    BY <1>3
  <1> QED
    BY <1>2, <1>4, <1>5, <1>6, <1>7, <1>8, <1>9, ShapeMore

(* load, when the value is forwarded. *)
LEMMA LoadForwardedShape ==
    ASSUME MemoryInv, ShapeInv, NEW b \in Buf, NEW k \in Idx, LoadForwarded(b, k)
    PROVE  ShapeInv'
  <1>1. child'.vals = Append(child.vals, Forwarded(<<b, k>>)) /\ child.vals \in Seq(Var)
    BY DEF LoadForwarded, Returns, MemoryInv, IInv, TypeOK, ChildOK
  <1>2. Forwarded(<<b, k>>) \in Known
    BY DEF LoadForwarded, Forwarded, ShapeInv, TablesKnown, Remembered, Key
  <1>3. UNCHANGED <<outer, status, phase, active, fwd, fwdRed, count, written>>
    BY DEF LoadForwarded, builder, handler, schedule, phase
  <1>4. Known' = Known
    BY <1>3 DEF Known, BodyNames, InitNames
  <1>5. ValuesKnown'
    <2>1. \A i \in DOMAIN child.vals : child.vals[i] \in Known
      BY DEF ShapeInv, ValuesKnown
    <2> QED
      BY <1>1, <1>2, <1>4, <2>1 DEF ValuesKnown
  <1> QED
    BY <1>3, <1>5, ShapeRests

(* A load stands where its buffer is written. *)
LEMMA LoadStands ==
    ASSUME MemoryInv, ShapeInv, NEW b \in Buf, NEW k \in Idx, Readable(b, k), NEW v
    PROVE  b \in Reached /\ LoadPlaced(LoadOf(v, b, k), WrittenBefore(outer, Len(outer) + 1), active)
  <1>1. active = InLoop
    BY DEF MemoryInv, IInv, PhaseFollowsSchedule
  <1>2. LoadOf(v, b, k).buf = b /\ LoadOf(v, b, k).idx = k
    BY DEF LoadOf
  <1>3. CASE b \in Inputs
    BY <1>2, <1>3 DEF LoadPlaced, Reached
  <1>4. CASE b \in Outputs /\ written[b] = "full" /\ k \in FullIdx /\ InLoop
    BY <1>1, <1>2, <1>4 DEF LoadPlaced, Reached, Sits
  <1>5. CASE b \in Outputs /\ written[b] = "row" /\ k \in RowIdx /\ b \notin notReady
    <2>1. CASE ~active
      BY <1>2, <1>5, <2>1 DEF LoadPlaced, Reached, Sits
    <2>2. CASE active
      <3>1. WritesOf(block, b) = {}
        BY <1>5, <2>2 DEF ShapeInv, WritesMatch
      <3>2. PICK m \in DOMAIN outer : SectionWrites(outer[m], b)
        BY <1>5, <3>1 DEF MemoryInv, StoresPlaced
      <3>3. m < Len(outer) + 1
        BY <3>2 DEF MemoryInv, IInv, TypeOK
      <3>4. b \in WrittenBefore(outer, Len(outer) + 1)
        BY <3>2, <3>3 DEF WrittenBefore
      <3> QED
        BY <1>2, <1>5, <3>4 DEF LoadPlaced, Reached
    <2> QED
      BY <2>1, <2>2, <1>1 DEF InLoop
  <1> QED
    BY <1>3, <1>4, <1>5 DEF Readable

(* load, when the value comes from memory. *)
LEMMA LoadMemoryShape ==
    ASSUME MemoryInv, NamesInv, ShapeInv, TypeOK', NEW b \in Buf, NEW k \in Idx, LoadMemory(b, k)
    PROVE  ShapeInv'
  <1>1. TypeOK /\ Readable(b, k) /\ child.mode # "idle"
    BY DEF LoadMemory, NamesInv, IInv
  <1>2. NextTemp \in Var
    BY <1>1 DEF TypeOK, NextTemp, Var
  <1>3. PICK x : x = LoadOf(NextTemp, b, k)
    OBVIOUS
  <1>4. x \in Stmt /\ x.op = "load" /\ x.dst = NextTemp /\ x.buf = b /\ x.idx = k /\ x.args = <<>>
    BY <1>2, <1>3, StatementTypes DEF LoadOf
  <1>5. Proper(x) /\ ArgsOf(x) = {}
    BY <1>2, <1>4 DEF Proper, ArgsOf
  <1>6. b \in Reached /\ LoadPlaced(x, WrittenBefore(outer, Len(outer) + 1), active)
    BY <1>1, <1>3, LoadStands
  <1>7. /\ bindings' = Append(bindings, x) /\ count' = [count EXCEPT !.tmp = @ + 1]
        /\ Returns(NextTemp)
        /\ UNCHANGED <<schedule, builder, block, inits, fins, fwd, fwdRed>>
    BY <1>3 DEF LoadMemory
  <1>8. ArgsOf(x) \subseteq Known /\ x.buf \in Reached
    BY <1>4, <1>5, <1>6
  <1> QED
    BY <1>1, <1>4, <1>5, <1>6, <1>7, <1>8, BindShape

(* A scalar operation. *)
LEMMA ComputeShape ==
    ASSUME NamesInv, ShapeInv, TypeOK', NEW is \in Positions(MaxArgs), Compute(is)
    PROVE  ShapeInv'
  <1>1. TypeOK /\ child.mode # "idle"
    BY DEF Compute, NamesInv, IInv
  <1>2. NextTemp \in Var
    BY <1>1 DEF TypeOK, NextTemp, Var
  <1>3. PICK x : x = Local("calc", NextTemp, Operands(is))
    OBVIOUS
  <1>4. Operands(is) \in Seq(Var)
    BY <1>1, OperandsType, BoundsAssumption
  <1>5. x \in Stmt /\ x.op = "calc" /\ x.dst = NextTemp /\ x.args = Operands(is)
    BY <1>2, <1>3, <1>4, StatementTypes DEF Local, Op
  <1>6. Proper(x)
    BY <1>2, <1>5 DEF Proper
  <1>7. ArgsOf(x) \subseteq Known
    <2>1. PICK m \in 0..MaxArgs : is \in [1..m -> DOMAIN child.vals]
      BY DEF Positions
    <2>2. \A a \in DOMAIN Operands(is) : Operands(is)[a] = child.vals[is[a]] /\ is[a] \in DOMAIN child.vals
      BY <2>1 DEF Operands
    <2> QED
      BY <1>5, <2>2 DEF ArgsOf, ShapeInv, ValuesKnown
  <1>8. LoadPlaced(x, WrittenBefore(outer, Len(outer) + 1), active)
    BY <1>5 DEF LoadPlaced
  <1>9. /\ bindings' = Append(bindings, x) /\ count' = [count EXCEPT !.tmp = @ + 1]
        /\ Returns(NextTemp)
        /\ UNCHANGED <<schedule, builder, block, inits, fins, fwd, fwdRed>>
    BY <1>3 DEF Compute
  <1>10. x.op # "load"
    BY <1>5
  <1> QED
    BY <1>1, <1>5, <1>6, <1>7, <1>8, <1>9, <1>10, BindShape

(* No statement writes an output before its store. *)
LEMMA OutUntouched ==
    ASSUME ShapeInv, status = "building", NEW o \in Outputs, written[o] = "no"
    PROVE  /\ o \notin Reached
           /\ \A n \in DOMAIN outer : ~SectionWrites(outer[n], o)
           /\ WritesOf(Flushed, o) = {} /\ WritesOf(fins, o) = {}
           /\ \A n : o \notin WrittenBefore(outer, n)
  <1>1. o \notin Reached
    BY NamesAssumption DEF Reached
  <1>2. ASSUME NEW seq, NEW K, SeqKnown(seq, K, Reached)
        PROVE  WritesOf(seq, o) = {}
    BY <1>1, <1>2 DEF SeqKnown, StmtKnown, WritesOf
  <1>3. ASSUME NEW before, NEW K, NEW sec, Fits(before, K, Reached, sec)
        PROVE  WritesOf(sec.body, o) = {} /\ WritesOf(sec.fins, o) = {}
    BY <1>2, <1>3 DEF Fits
  <1>4. \A n \in DOMAIN outer : ~SectionWrites(outer[n], o)
    BY <1>3 DEF ShapeInv, SectionsFit, SectionWrites
  <1>5. WritesOf(Open.body, o) = {} /\ WritesOf(Open.fins, o) = {}
    BY <1>3 DEF ShapeInv, PhaseFits
  <1>6. Open.body = Flushed /\ Open.fins = fins
    BY DEF Open
  <1> QED
    BY <1>1, <1>4, <1>5, <1>6 DEF WrittenBefore

(* What a child writes is an output that nothing has written yet. *)
LEMMA ChildWrites ==
    ASSUME MemoryInv, NamesInv, child.mode # "idle"
    PROVE  /\ TypeOK /\ status = "building" /\ active = InLoop
           /\ child.out \in Outputs /\ written[child.out] = "no"
           /\ child.vals \in Seq(Var) /\ \A i \in DOMAIN child.vals : child.vals[i] \in Var
  <1>1. TypeOK /\ status = "building" /\ active = InLoop
    BY DEF MemoryInv, NamesInv, IInv, Idle, PhaseFollowsSchedule
  <1>2. child.out \in Outputs /\ child.vals \in Seq(Var)
    BY <1>1 DEF TypeOK, ChildOK
  <1>3. written[child.out] = "no"
    BY DEF MemoryInv, UnwrittenUntilStored
  <1> QED
    BY <1>1, <1>2, <1>3

(* The statement that stores a value to memory. *)
LEMMA StoreIs ==
    ASSUME NEW op \in {"store", "atomic"}, NEW o \in Outputs, NEW k \in Idx, NEW v \in Var,
           NEW x, x = StoreTo(op, o, k, v)
    PROVE  /\ StoreStmts(op, o, k, v) = <<x>> /\ x \in Stmt
           /\ x.op = op /\ x.dst = None /\ x.buf = o /\ x.idx = k /\ x.args = <<v>>
           /\ Proper(x) /\ ArgsOf(x) = {v} /\ Writes(x)
  <1>1. StoreStmts(op, o, k, v) = <<x>>
    BY DEF StoreStmts, Materialized
  <1>2. x.op = op /\ x.dst = None /\ x.buf = o /\ x.idx = k /\ x.args = <<v>>
    BY DEF StoreTo
  <1>3. <<x>> \in Seq(Stmt)
    BY <1>1, StatementTypes DEF Buf
  <1>4. x \in Stmt
    BY <1>3
  <1>5. DOMAIN <<v>> = {1} /\ <<v>>[1] = v /\ Len(<<v>>) = 1
    OBVIOUS
  <1>6. ArgsOf(x) = {v}
    BY <1>2, <1>5 DEF ArgsOf
  <1>7. Proper(x)
    BY <1>2, <1>4, <1>5 DEF Proper, Buf
  <1> QED
    BY <1>1, <1>2, <1>4, <1>6, <1>7 DEF Writes

(* store. *)
LEMMA StoreShape ==
    ASSUME MemoryInv, NamesInv, ShapeInv, TypeOK', NEW i \in DOMAIN child.vals, NEW k \in Idx,
           NEW op \in {"store", "atomic"}, Store(i, k, op)
    PROVE  ShapeInv'
  <1> DEFINE o == child.out
             v == child.vals[i]
             x == StoreTo(op, o, k, v)
             before == WrittenBefore(outer, Len(outer) + 1)
  <1>1. child.mode # "idle"
    BY DEF Store
  <1>2. /\ TypeOK /\ status = "building" /\ active = InLoop
        /\ o \in Outputs /\ written[o] = "no" /\ v \in Var
    BY <1>1, ChildWrites
  <1>3. /\ StoreStmts(op, o, k, v) = <<x>> /\ x \in Stmt
        /\ x.op = op /\ x.dst = None /\ x.buf = o /\ x.idx = k
        /\ Proper(x) /\ ArgsOf(x) = {v} /\ Writes(x)
    BY <1>2, StoreIs
  <1>4. o \notin before /\ WritesOf(Flushed, o) = {}
    BY <1>2, OutUntouched
  <1>5. /\ block' = Flushed \o <<x>> /\ bindings' = <<>>
        /\ fwd' = [fwd EXCEPT ![<<o, k>>] = v] /\ fwdRed' = fwdRed /\ child' = Idle
        /\ written' = [written EXCEPT ![o] = IF op = "atomic" THEN "scatter"
                                              ELSE IF InLoop THEN "full" ELSE "row"]
        /\ UNCHANGED <<active, outer, status, inits, fins, count, reads>>
        /\ k \in IF InLoop THEN FullIdx ELSE RowIdx
    BY <1>3 DEF Store, ForwardedBy, builder
  <1>6. v \in Known /\ Known' = Known
    BY <1>5 DEF ShapeInv, ValuesKnown, Known, BodyNames, InitNames
  <1>7. /\ \A q \in Outputs : written[q] # "no" => written'[q] # "no"
        /\ written'[o] # "no" /\ (written'[o] \in IF active THEN {"full", "scatter"} ELSE {"row", "scatter"})
        /\ \A q \in Outputs : q # o => written'[q] = written[q]
    BY <1>2, <1>5 DEF TypeOK
  <1>8. Reached \subseteq Reached' /\ o \in Reached'
    BY <1>2, <1>7, ReachedMonotone DEF Reached
  <1>9. <<x>> \in Seq(Stmt) /\ <<>> \in Seq(Stmt) /\ inits' = inits \o <<>> /\ fins' = fins \o <<>>
    BY <1>2, <1>3, <1>5, NothingMore DEF TypeOK
  <1>10. FitsMore(before, Known', Reached', Open, <<>>, <<x>>, <<>>)
    <2>1. DOMAIN <<x>> = {1} /\ <<x>>[1] = x /\ DOMAIN <<>> = {}
      OBVIOUS
    <2>2. BodySound(<<x>>, Open.loop)
      <3>1. Sits(x, active)
        BY <1>2, <1>3, <1>5 DEF Sits
      <3>2. Open.loop = active /\ x.op \notin {"init", "uninit"}
        BY <1>3 DEF Open
      <3> QED
        BY <1>3, <1>9, <2>1, <3>1, <3>2 DEF BodySound, ProperAll
    <2>3. PICK K, B : K = Known' /\ B = Reached'
      OBVIOUS
    <2>4. SeqKnown(<<x>>, K, B)
      <3>1. x.dst = None /\ ArgsOf(x) \subseteq K /\ x.buf \in B
        BY <1>3, <1>6, <1>8, <2>3
      <3> QED
        BY <2>1, <3>1 DEF SeqKnown, StmtKnown
    <2>5. LoadPlaced(x, before, Open.loop)
      BY <1>3 DEF LoadPlaced
    <2>6. InitsSound(<<>>) /\ FinsSound(<<>>) /\ Initialized(<<>>) = {}
          /\ SeqKnown(<<>>, K, B)
      BY NothingMore
    <2>7. x.buf \notin before /\ WritesOf(Open.body, x.buf) = {}
      BY <1>3, <1>4 DEF Open
    <2>8. \A j \in WritesOf(<<x>>, x.buf) : j >= 1
      BY <2>1 DEF WritesOf
    <2>9. FitsMore(before, K, B, Open, <<>>, <<x>>, <<>>)
      BY <2>1, <2>2, <2>4, <2>5, <2>6, <2>7, <2>8 DEF FitsMore
    <2> QED
      BY <2>3, <2>9
  <1>11. ValuesKnown'
    BY <1>5 DEF ValuesKnown, Idle
  <1>12. TablesKnown'
    <2>1. SUFFICES ASSUME NEW key \in Key
                   PROVE  /\ fwd'[key] # None =>
                                fwd'[key] \in Known /\ key[1] \in Outputs /\ written'[key[1]] # "no"
                          /\ fwdRed[key] # None =>
                                fwdRed[key] \in Known /\ key[1] \in Outputs /\ written'[key[1]] # "no"
      BY <1>5, <1>6 DEF TablesKnown, Remembered
    <2>2. /\ fwd[key] # None => fwd[key] \in Known /\ key[1] \in Outputs /\ written[key[1]] # "no"
          /\ fwdRed[key] # None => fwdRed[key] \in Known /\ key[1] \in Outputs /\ written[key[1]] # "no"
      BY DEF ShapeInv, TablesKnown, Remembered
    <2>3. fwd'[key] = IF key = <<o, k>> THEN v ELSE fwd[key]
      BY <1>2, <1>5 DEF TypeOK
    <2> QED
      BY <1>2, <1>6, <1>7, <2>2, <2>3
  <1>13. WritesMatch'
    <2>1. \A j \in DOMAIN <<x>> : <<x>>[j].op # "load"
      BY <1>3
    <2>2. \A b : WritesOf(block', b) # {} => WritesOf(block, b) # {} \/ WritesOf(<<x>>, b) # {}
      <3> HIDE DEF x
      <3> QED
        BY <1>5, <1>9, <2>1, ExtendMemory
    <2>3. \A b : b # o => WritesOf(<<x>>, b) = {}
      BY <1>3 DEF WritesOf
    <2>4. \A q \in Outputs : WritesOf(block, q) # {} =>
             written[q] \in IF active THEN {"full", "scatter"} ELSE {"row", "scatter"}
      BY DEF ShapeInv, WritesMatch
    <2> QED
      BY <1>5, <1>7, <2>2, <2>3, <2>4 DEF WritesMatch
  <1> HIDE DEF x, before, v, o
  <1>14. UNCHANGED <<active, outer, status>> /\ Known \subseteq Known'
    BY <1>5, <1>6
  <1>15. FitsMore(WrittenBefore(outer, Len(outer) + 1), Known', Reached', Open, <<>>, <<x>>, <<>>)
    BY <1>10 DEF before
  <1> QED
    BY <1>1, <1>5, <1>8, <1>9, <1>11, <1>12, <1>13, <1>14, <1>15, ShapeMore

(* Statements about locals write nothing. *)
LEMMA WritesLocals ==
    ASSUME MemoryInv, ShapeInv, NEW t \in Seq(Stmt), OnlyLocals(t),
           block' = Flushed \o t, bindings' = <<>>, UNCHANGED <<outer, reads, written, active>>
    PROVE  WritesMatch'
  <1>1. \A i \in DOMAIN t : t[i].op # "load"
    BY DEF OnlyLocals
  <1>2. \A b : WritesOf(block', b) # {} => WritesOf(block, b) # {} \/ WritesOf(t, b) # {}
    BY <1>1, ExtendMemory
  <1>3. \A b : WritesOf(t, b) = {}
    BY OnlyLocalsWrites
  <1> QED
    BY <1>2, <1>3 DEF ShapeInv, WritesMatch

(* The statements of a reduction. *)
NewAcc == <<"acc", count.acc>>

(* They are a new accumulator's initializer and its update. *)
LEMMA ReductionIs ==
    ASSUME TypeOK, NEW v \in Var, NEW ini, ini = Local("init", NewAcc, <<>>),
           NEW x, x = Local("update", NewAcc, <<v>>)
    PROVE  /\ NewAcc \in Var /\ NewAcc \notin Known
           /\ ini \in Stmt /\ ini.op = "init" /\ ini.dst = NewAcc /\ ini.args = <<>>
           /\ x \in Stmt /\ x.op = "update" /\ x.dst = NewAcc /\ x.args = <<v>>
           /\ Proper(ini) /\ Proper(x) /\ InitShape(ini) /\ ArgsOf(ini) = {} /\ ArgsOf(x) = {v}
  <1>1. count.acc \in Nat
    BY DEF TypeOK
  <1>2. NewAcc \in Var /\ NewAcc[1] = "acc"
    BY <1>1 DEF Var, NewAcc
  <1>3. NewAcc \notin Known
    <2>1. count.acc \notin 0..(count.acc - 1)
      BY <1>1
    <2>2. \A n : <<"acc", n>> \in Known => n \in 0..(count.acc - 1)
      BY DEF Known, BodyNames, InitNames
    <2> QED
      BY <2>1, <2>2 DEF NewAcc
  <1>4. /\ ini \in Stmt /\ ini.op = "init" /\ ini.dst = NewAcc /\ ini.args = <<>>
        /\ x \in Stmt /\ x.op = "update" /\ x.dst = NewAcc /\ x.args = <<v>>
    <2>1. <<>> \in Seq(Var) /\ <<v>> \in Seq(Var)
      OBVIOUS
    <2> QED
      BY <1>2, <2>1, StatementTypes DEF Op, Local
  <1>5. DOMAIN <<v>> = {1} /\ <<v>>[1] = v /\ Len(<<v>>) = 1 /\ DOMAIN <<>> = {}
    OBVIOUS
  <1>6. ArgsOf(ini) = {} /\ ArgsOf(x) = {v}
    BY <1>4, <1>5 DEF ArgsOf
  <1>7. Proper(ini) /\ Proper(x)
    BY <1>2, <1>4, <1>5 DEF Proper
  <1>8. InitShape(ini)
    BY <1>2, <1>4 DEF InitShape
  <1> QED
    BY <1>2, <1>3, <1>4, <1>6, <1>7, <1>8

(* One more accumulator. *)
LEMMA AccKnown ==
    ASSUME TypeOK, TypeOK', count' = [count EXCEPT !.acc = @ + 1]
    PROVE  Known \subseteq Known' /\ NewAcc \in Known'
  <1>1. count.acc \in Nat /\ count'.acc = count.acc + 1 /\ count'.tmp = count.tmp
        /\ count'.scan = count.scan /\ count.tmp \in Nat /\ count.scan \in Nat
    BY DEF TypeOK
  <1>2. Known \subseteq Known'
    BY <1>1, KnownMonotone
  <1>3. count.acc \in 0..(count'.acc - 1)
    BY <1>1
  <1> QED
    BY <1>2, <1>3 DEF Known, InitNames, NewAcc

(* reduction. *)
LEMMA ReductionShape ==
    ASSUME MemoryInv, NamesInv, ShapeInv, TypeOK', NEW i \in DOMAIN child.vals, Reduction(i)
    PROVE  ShapeInv'
  <1> DEFINE v == child.vals[i]
             ini == Local("init", NewAcc, <<>>)
             x == Local("update", NewAcc, <<v>>)
             before == WrittenBefore(outer, Len(outer) + 1)
  <1>1. child.mode # "idle"
    BY DEF Reduction
  <1>2. TypeOK /\ status = "building" /\ active = InLoop /\ v \in Var /\ child.vals \in Seq(Var)
    BY <1>1, ChildWrites
  <1>3. /\ ini \in Stmt /\ ini.op = "init" /\ ini.dst = NewAcc /\ ini.args = <<>>
        /\ x \in Stmt /\ x.op = "update" /\ x.dst = NewAcc /\ x.args = <<v>>
        /\ Proper(ini) /\ Proper(x) /\ InitShape(ini) /\ ArgsOf(ini) = {} /\ ArgsOf(x) = {v}
    BY <1>2, ReductionIs
  <1>4. /\ inits' = Append(inits, ini) /\ block' = Append(Flushed, x) /\ bindings' = <<>>
        /\ count' = [count EXCEPT !.acc = @ + 1] /\ InLoop
        /\ child' = [child EXCEPT !.vals = <<NewAcc>>, !.mode = "reduced"]
        /\ UNCHANGED <<active, outer, status, fins, fwd, fwdRed, written, reads>>
    BY DEF Reduction, schedule, builder, NewAcc
  <1>5. v \in Known /\ Known \subseteq Known' /\ NewAcc \in Known'
    BY <1>2, <1>4, AccKnown DEF ShapeInv, ValuesKnown
  <1>6. Reached' = Reached
    BY <1>4 DEF Reached
  <1>7. Flushed \in Seq(Stmt)
    BY <1>2, ConcatElements DEF TypeOK, Flushed
  <1> HIDE DEF ini, x, v, before
  <1>8. /\ <<x>> \in Seq(Stmt) /\ <<ini>> \in Seq(Stmt) /\ <<>> \in Seq(Stmt) /\ fins' = fins \o <<>>
        /\ inits' = inits \o <<ini>> /\ block' = Flushed \o <<x>>
    BY <1>2, <1>3, <1>4, <1>7, NothingMore DEF TypeOK
  <1>9. FitsMore(before, Known', Reached', Open, <<ini>>, <<x>>, <<>>)
    <2>1. DOMAIN <<x>> = {1} /\ <<x>>[1] = x /\ Len(<<x>>) = 1 /\ DOMAIN <<ini>> = {1} /\ <<ini>>[1] = ini
      OBVIOUS
    <2>2. BodySound(<<x>>, Open.loop) /\ InitsSound(<<ini>>)
      BY <1>3, <1>8, <2>1 DEF BodySound, InitsSound, ProperAll, Writes
    <2>3. PICK K, B : K = Known' /\ B = Reached'
      OBVIOUS
    <2>4. SeqKnown(<<x>>, K, B) /\ SeqKnown(<<ini>>, K, B)
      <3>1. x.dst \in K /\ ArgsOf(x) \subseteq K /\ ini.dst \in K /\ ArgsOf(ini) \subseteq K
        BY <1>3, <1>5, <2>3
      <3> QED
        BY <1>3, <2>1, <3>1 DEF SeqKnown, StmtKnown
    <2>5. LoadPlaced(x, before, Open.loop) /\ x.op # "atomic"
      BY <1>3 DEF LoadPlaced
    <2>6. FinsSound(<<>>) /\ SeqKnown(<<>>, K, B)
      BY NothingMore
    <2>7. Initialized(<<ini>>) \subseteq AssignedBy(<<x>>, Len(<<x>>) + 1)
      <3>1. Initialized(<<ini>>) \subseteq {NewAcc}
        BY <1>3, <2>1 DEF Initialized, Declares
      <3>2. NewAcc \in AssignedBy(<<x>>, Len(<<x>>) + 1)
        BY <1>3, <2>1 DEF AssignedBy, Writes
      <3> QED
        BY <3>1, <3>2
    <2>8. Open.loop
      BY <1>2, <1>4 DEF Open
    <2>9. FitsMore(before, K, B, Open, <<ini>>, <<x>>, <<>>)
      BY <2>1, <2>2, <2>4, <2>5, <2>6, <2>7, <2>8 DEF FitsMore
    <2> QED
      BY <2>3, <2>9
  <1>10. ValuesKnown'
    <2>1. child'.vals = <<NewAcc>>
      BY <1>2, <1>4 DEF TypeOK, ChildOK
    <2> QED
      BY <1>5, <2>1 DEF ValuesKnown
  <1>11. TablesKnown'
    BY <1>4, <1>5 DEF ShapeInv, TablesKnown, Remembered
  <1>12. WritesMatch'
    <2>1. OnlyLocals(<<x>>)
      BY <1>3 DEF OnlyLocals
    <2>2. UNCHANGED <<outer, reads, written, active>>
      BY <1>4
    <2> QED
      BY <1>4, <1>8, <2>1, <2>2, WritesLocals
  <1>13. UNCHANGED <<active, outer, status>> /\ Reached \subseteq Reached'
    BY <1>4, <1>6
  <1>14. FitsMore(WrittenBefore(outer, Len(outer) + 1), Known', Reached', Open, <<ini>>, <<x>>, <<>>)
    BY <1>9 DEF before
  <1> QED
    BY <1>1, <1>4, <1>5, <1>8, <1>10, <1>11, <1>12, <1>13, <1>14, ShapeMore

(* store_reduction. *)
LEMMA StoreReductionShape ==
    ASSUME MemoryInv, NamesInv, ShapeInv, TypeOK', NEW k \in RowIdx, StoreReduction(k)
    PROVE  ShapeInv'
  <1> DEFINE o == child.out
             v == child.vals[1]
             x == StoreTo("store", o, k, v)
             before == WrittenBefore(outer, Len(outer) + 1)
  <1>1. child.mode = "reduced"
    BY DEF StoreReduction
  <1>2. /\ TypeOK /\ status = "building" /\ o \in Outputs /\ written[o] = "no"
        /\ child.vals \in Seq(Var) /\ 1 \in DOMAIN child.vals /\ v \in Var
    <2>1. /\ TypeOK /\ status = "building" /\ o \in Outputs /\ written[o] = "no"
          /\ child.vals \in Seq(Var)
      BY <1>1, ChildWrites
    <2>2. child.vals # <<>>
      BY <1>1, <2>1 DEF TypeOK, ChildOK
    <2>3. \A s \in Seq(Var) : s # <<>> => 1 \in DOMAIN s /\ s[1] \in Var
      OBVIOUS
    <2> QED
      BY <2>1, <2>2, <2>3
  <1>3. active
    <2>1. v \in Declares(inits, "init")
      BY <1>1 DEF MemoryInv, IInv, ChildHolds
    <2>2. inits # <<>>
      BY <2>1 DEF Declares
    <2> QED
      BY <2>2 DEF MemoryInv, IInv, PhaseFollowsSchedule
  <1>4. /\ StoreStmts("store", o, k, v) = <<x>> /\ x \in Stmt
        /\ x.op = "store" /\ x.dst = None /\ x.buf = o /\ x.idx = k
        /\ Proper(x) /\ ArgsOf(x) = {v} /\ Writes(x)
    BY <1>2, StoreIs DEF Idx
  <1>5. /\ block' = Flushed /\ bindings' = <<>> /\ fins' = fins \o <<x>>
        /\ fwdRed' = [fwdRed EXCEPT ![<<o, k>>] = v] /\ fwd' = fwd /\ child' = Idle
        /\ written' = [written EXCEPT ![o] = "row"]
        /\ UNCHANGED <<active, outer, status, inits, count, reads>>
    BY <1>4 DEF StoreReduction, ReductionForwardedBy, builder
  <1>6. v \in Known /\ Known' = Known
    BY <1>2, <1>5 DEF ShapeInv, ValuesKnown, Known, BodyNames, InitNames
  <1>7. /\ \A q \in Outputs : written[q] # "no" => written'[q] # "no"
        /\ written'[o] # "no" /\ \A q \in Outputs : q # o => written'[q] = written[q]
    BY <1>2, <1>5 DEF TypeOK
  <1>8. Reached \subseteq Reached' /\ o \in Reached'
    BY <1>2, <1>7, ReachedMonotone DEF Reached
  <1>9. Flushed \in Seq(Stmt)
    BY <1>2, ConcatElements DEF TypeOK, Flushed
  <1>10. /\ <<x>> \in Seq(Stmt) /\ <<>> \in Seq(Stmt) /\ inits' = inits \o <<>>
         /\ block' = Flushed \o <<>>
    BY <1>2, <1>4, <1>5, <1>9, NothingMore DEF TypeOK
  <1>11. FitsMore(before, Known', Reached', Open, <<>>, <<>>, <<x>>)
    <2>1. DOMAIN <<x>> = {1} /\ <<x>>[1] = x /\ DOMAIN <<>> = {}
      OBVIOUS
    <2>2. FinsSound(<<x>>)
      BY <1>4, <1>10, <2>1 DEF FinsSound, ProperAll
    <2>3. PICK K, B : K = Known' /\ B = Reached'
      OBVIOUS
    <2>4. SeqKnown(<<x>>, K, B)
      <3>1. x.dst = None /\ ArgsOf(x) \subseteq K /\ x.buf \in B
        BY <1>4, <1>6, <1>8, <2>3
      <3> QED
        BY <2>1, <3>1 DEF SeqKnown, StmtKnown
    <2>5. Open.loop
      BY <1>3 DEF Open
    <2>6. InitsSound(<<>>) /\ BodySound(<<>>, Open.loop) /\ Initialized(<<>>) = {}
          /\ SeqKnown(<<>>, K, B)
      BY NothingMore
    <2>7. FitsMore(before, K, B, Open, <<>>, <<>>, <<x>>)
      BY <2>1, <2>2, <2>4, <2>5, <2>6 DEF FitsMore
    <2> QED
      BY <2>3, <2>7
  <1>12. ValuesKnown'
    BY <1>5 DEF ValuesKnown, Idle
  <1>13. TablesKnown'
    <2>1. SUFFICES ASSUME NEW key \in Key
                   PROVE  /\ fwd[key] # None =>
                                fwd[key] \in Known /\ key[1] \in Outputs /\ written'[key[1]] # "no"
                          /\ fwdRed'[key] # None =>
                                fwdRed'[key] \in Known /\ key[1] \in Outputs /\ written'[key[1]] # "no"
      BY <1>5, <1>6 DEF TablesKnown, Remembered
    <2>2. /\ fwd[key] # None => fwd[key] \in Known /\ key[1] \in Outputs /\ written[key[1]] # "no"
          /\ fwdRed[key] # None => fwdRed[key] \in Known /\ key[1] \in Outputs /\ written[key[1]] # "no"
      BY DEF ShapeInv, TablesKnown, Remembered
    <2>3. fwdRed'[key] = IF key = <<o, k>> THEN v ELSE fwdRed[key]
      BY <1>2, <1>5 DEF TypeOK
    <2> QED
      BY <1>2, <1>6, <1>7, <2>2, <2>3
  <1>14. WritesMatch'
    <2>1. \A b : WritesOf(block', b) # {} => WritesOf(block, b) # {} \/ WritesOf(<<>>, b) # {}
      <3>1. \A j \in DOMAIN <<>> : <<>>[j].op # "load"
        OBVIOUS
      <3> QED
        BY <1>5, <1>10, <3>1, ExtendMemory
    <2>2. \A b : WritesOf(<<>>, b) = {}
      BY DEF WritesOf
    <2>3. WritesOf(block, o) = {}
      BY <1>2 DEF MemoryInv, UnwrittenUntilStored
    <2>4. \A q \in Outputs : WritesOf(block, q) # {} =>
             written[q] \in IF active THEN {"full", "scatter"} ELSE {"row", "scatter"}
      BY DEF ShapeInv, WritesMatch
    <2> QED
      BY <1>5, <1>7, <2>1, <2>2, <2>3, <2>4 DEF WritesMatch
  <1> HIDE DEF x, before, v, o
  <1>15. UNCHANGED <<active, outer, status>> /\ Known \subseteq Known' /\ child.mode # "idle"
    BY <1>1, <1>5, <1>6
  <1>16. FitsMore(WrittenBefore(outer, Len(outer) + 1), Known', Reached', Open, <<>>, <<>>, <<x>>)
    BY <1>11 DEF before
  <1> QED
    BY <1>5, <1>8, <1>10, <1>12, <1>13, <1>14, <1>15, <1>16, ShapeMore

(* The statements of a scan. *)
ScanName(j) == <<"scan", count.scan + j - 1>>
NextName(j) == <<"next", count.scan + j - 1>>
TempName(j) == <<"tmp", count.tmp + j - 1>>
ScanNamesTo(n) == [j \in 1..n |-> ScanName(j)]
CombineArgs(values, j) == <<ScanName(j), values[j]>> \o ScanNamesTo(Len(values)) \o values
UninitOf(j) == Local("uninit", ScanName(j), <<>>)
CombineOf(values, j) == Local("combine", TempName(j), CombineArgs(values, j))
PickOf(values, j) == Local("pick", NextName(j), <<values[j], TempName(j)>>)
MoveOf(j) == Local("move", ScanName(j), <<NextName(j)>>)

(* t and added are the statements of a scan of values, in their order. *)
Scanned(values, n, t, added) ==
    /\ n \in Nat \ {0} /\ n = Len(values)
    /\ added \in Seq(Stmt) /\ DOMAIN added = 1..n /\ \A j \in 1..n : added[j] = UninitOf(j)
    /\ t \in Seq(Stmt) /\ DOMAIN t = 1..(n + n + n)
    /\ \A j \in 1..n : /\ t[j] = CombineOf(values, j)
                       /\ t[j + n] = PickOf(values, j)
                       /\ t[j + n + n] = MoveOf(j)

(* A concatenation, by positions. *)
Joined(X, w, s, t, m, k) ==
    /\ w \in Seq(X) /\ m \in Nat /\ k \in Nat /\ Len(w) = m + k /\ DOMAIN w = 1..(m + k)
    /\ \A i \in 1..m : w[i] = s[i]
    /\ \A i \in 1..k : w[m + i] = t[i] /\ w[i + m] = t[i]

(* A concatenation holds its parts at their positions. *)
LEMMA ConcatAt ==
    ASSUME NEW X, NEW s \in Seq(X), NEW t \in Seq(X), NEW m, m = Len(s), NEW k, k = Len(t),
           NEW w, w = s \o t
    PROVE  Joined(X, w, s, t, m, k)
  <1>1. w \in Seq(X) /\ m \in Nat /\ k \in Nat /\ Len(w) = m + k
    OBVIOUS
  <1>2. DOMAIN w = 1..(m + k)
    BY <1>1
  <1>3. \A i \in 1..m : w[i] = s[i]
    OBVIOUS
  <1>4. ASSUME NEW i \in 1..k
        PROVE  w[m + i] = t[i] /\ w[i + m] = t[i]
    <2>1. m + i \in 1..(m + k) /\ m + i > m /\ i = (m + i) - m /\ i + m = m + i
      BY <1>1
    <2>2. w[m + i] = t[(m + i) - m]
      BY <1>1, <2>1
    <2> QED
      BY <2>1, <2>2
  <1> QED
    BY <1>1, <1>2, <1>3, <1>4 DEF Joined

(* Three sequences of one length, joined. *)
ThreeJoined(a, b, c, w, n) ==
    /\ w \in Seq(Stmt) /\ DOMAIN w = 1..(n + n + n)
    /\ \A j \in 1..n : w[j] = a[j] /\ w[j + n] = b[j] /\ w[j + n + n] = c[j]

(* So does one of three parts. *)
LEMMA ThreeParts ==
    ASSUME NEW n \in Nat, NEW a \in Seq(Stmt), NEW b \in Seq(Stmt), NEW c \in Seq(Stmt),
           Len(a) = n, Len(b) = n, Len(c) = n
    PROVE  ThreeJoined(a, b, c, a \o b \o c, n)
  <1>1. PICK ab : ab = a \o b
    OBVIOUS
  <1>2. /\ ab \in Seq(Stmt) /\ DOMAIN ab = 1..(n + n) /\ Len(ab) = n + n
        /\ \A j \in 1..n : ab[j] = a[j] /\ ab[j + n] = b[j]
    <2>1. Joined(Stmt, ab, a, b, n, n)
      BY <1>1, ConcatAt
    <2> QED
      BY <2>1 DEF Joined
  <1>3. PICK abc : abc = ab \o c
    OBVIOUS
  <1>4. PICK nn : nn = n + n
    OBVIOUS
  <1>5. /\ abc \in Seq(Stmt) /\ DOMAIN abc = 1..(nn + n)
        /\ \A j \in 1..nn : abc[j] = ab[j]
        /\ \A j \in 1..n : abc[j + nn] = c[j]
    <2>1. ab \in Seq(Stmt) /\ Len(ab) = nn
      BY <1>2, <1>4
    <2>2. Joined(Stmt, abc, ab, c, nn, n)
      BY <1>3, <2>1, ConcatAt
    <2> QED
      BY <2>2 DEF Joined
  <1>6. \A j \in 1..n : j \in 1..nn /\ j + n \in 1..nn /\ j + n + n = j + nn
    BY <1>4
  <1>7. (a \o b) \o c = abc
    BY <1>1, <1>3
  <1> QED
    BY <1>2, <1>4, <1>5, <1>6, <1>7 DEF ThreeJoined

(* What _build_scan_update builds. *)
LEMMA ScanIs ==
    ASSUME TypeOK, NEW values \in Seq(Var), values # <<>>, NEW u, u = ScanUpdate(values)
    PROVE  /\ Scanned(values, Len(values), ScanStmts(u), u.inits)
           /\ u.states = ScanNamesTo(Len(values))
  <1>1. PICK n : n = Len(values)
    OBVIOUS
  <1>2. n \in Nat \ {0}
    BY <1>1
  <1>3. /\ u.inits \in [1..n -> Stmt] /\ u.combines \in [1..n -> Stmt]
        /\ u.picks \in [1..n -> Stmt] /\ u.moves \in [1..n -> Stmt]
    BY <1>1, ScanUpdateType
  <1>4. /\ u.inits \in Seq(Stmt) /\ Len(u.inits) = n
        /\ u.combines \in Seq(Stmt) /\ Len(u.combines) = n
        /\ u.picks \in Seq(Stmt) /\ Len(u.picks) = n
        /\ u.moves \in Seq(Stmt) /\ Len(u.moves) = n
    BY <1>2, <1>3, FunctionIsSeq
  <1>5. u.states = ScanNamesTo(n)
    BY <1>1 DEF ScanUpdate, ScanNamesTo, ScanName
  <1>6. \A j \in 1..n : u.inits[j] = UninitOf(j)
    BY <1>1 DEF ScanUpdate, UninitOf, ScanName
  <1>7. \A j \in 1..n : u.combines[j] = CombineOf(values, j)
    BY <1>1 DEF ScanUpdate, CombineOf, CombineArgs, ScanNamesTo, ScanName, TempName
  <1>8. \A j \in 1..n : u.picks[j] = PickOf(values, j)
    BY <1>1 DEF ScanUpdate, PickOf, NextName, TempName
  <1>9. \A j \in 1..n : u.moves[j] = MoveOf(j)
    BY <1>1 DEF ScanUpdate, MoveOf, NextName, ScanName
  <1>10. /\ ScanStmts(u) \in Seq(Stmt) /\ DOMAIN ScanStmts(u) = 1..(n + n + n)
         /\ \A j \in 1..n : /\ ScanStmts(u)[j] = u.combines[j]
                            /\ ScanStmts(u)[j + n] = u.picks[j]
                            /\ ScanStmts(u)[j + n + n] = u.moves[j]
    <2>1. PICK a, b, c : a = u.combines /\ b = u.picks /\ c = u.moves
      OBVIOUS
    <2>2. ThreeJoined(a, b, c, a \o b \o c, n)
      BY <1>2, <1>4, <2>1, ThreeParts
    <2>3. ScanStmts(u) = a \o b \o c
      BY <2>1 DEF ScanStmts
    <2> QED
      BY <2>1, <2>2, <2>3 DEF ThreeJoined
  <1>11. DOMAIN u.inits = 1..n
    BY <1>3
  <1> QED
    BY <1>1, <1>2, <1>4, <1>5, <1>6, <1>7, <1>8, <1>9, <1>10, <1>11 DEF Scanned

(* Every statement of a scan is one of its combines, picks and moves. *)
LEMMA ScanStmtIs ==
    ASSUME NEW values, NEW n, NEW t, NEW added, Scanned(values, n, t, added), NEW i \in DOMAIN t
    PROVE  \E j \in 1..n : \/ i = j /\ t[i] = CombineOf(values, j)
                           \/ i = j + n /\ t[i] = PickOf(values, j)
                           \/ i = j + n + n /\ t[i] = MoveOf(j)
  <1>1. n \in Nat \ {0} /\ i \in 1..(n + n + n)
    BY DEF Scanned
  <1>2. CASE i \in 1..n
    BY <1>2 DEF Scanned
  <1>3. CASE i > n /\ i <= n + n
    <2>1. i - n \in 1..n /\ i = (i - n) + n
      BY <1>1, <1>3
    <2> QED
      BY <2>1 DEF Scanned
  <1>4. CASE i > n + n
    <2>1. (i - n) - n \in 1..n /\ i = ((i - n) - n) + n + n
      BY <1>1, <1>4
    <2> QED
      BY <2>1 DEF Scanned
  <1> QED
    BY <1>1, <1>2, <1>3, <1>4

(* The names of a scan are new. *)
LEMMA ScanNamesNew ==
    ASSUME TypeOK, NEW j \in Nat \ {0}
    PROVE  /\ ScanName(j) \in Var /\ NextName(j) \in Var /\ TempName(j) \in Var
           /\ ScanName(j) \notin Known /\ NextName(j) \notin Known /\ TempName(j) \notin Known
           /\ ScanName(j)[1] = "scan"
  <1>1. count.scan \in Nat /\ count.tmp \in Nat
    BY DEF TypeOK
  <1>2. /\ count.scan + j - 1 \in Nat /\ count.tmp + j - 1 \in Nat
        /\ count.scan + j - 1 \notin 0..(count.scan - 1)
        /\ count.tmp + j - 1 \notin 0..(count.tmp - 1)
    BY <1>1
  <1>3. ScanName(j) \in Var /\ NextName(j) \in Var /\ TempName(j) \in Var
    BY <1>2 DEF Var, ScanName, NextName, TempName
  <1>4. \A n : /\ <<"scan", n>> \in Known => n \in 0..(count.scan - 1)
               /\ <<"next", n>> \in Known => n \in 0..(count.scan - 1)
               /\ <<"tmp", n>> \in Known => n \in 0..(count.tmp - 1)
    BY DEF Known, BodyNames, InitNames
  <1> QED
    BY <1>2, <1>3, <1>4 DEF ScanName, NextName, TempName

(* A scan makes its names known. *)
LEMMA ScanKnown ==
    ASSUME TypeOK, TypeOK', NEW n \in Nat,
           count' = [count EXCEPT !.tmp = @ + n, !.scan = @ + n]
    PROVE  /\ Known \subseteq Known'
           /\ \A j \in 1..n : ScanName(j) \in Known' /\ NextName(j) \in Known' /\ TempName(j) \in Known'
  <1>1. /\ count.acc \in Nat /\ count'.acc = count.acc
        /\ count'.tmp = count.tmp + n /\ count.tmp \in Nat
        /\ count'.scan = count.scan + n /\ count.scan \in Nat
    BY DEF TypeOK
  <1>2. Known \subseteq Known'
    BY <1>1, KnownMonotone
  <1>3. \A j \in 1..n : /\ count.scan + j - 1 \in 0..(count'.scan - 1)
                        /\ count.tmp + j - 1 \in 0..(count'.tmp - 1)
    BY <1>1
  <1> QED
    BY <1>2, <1>3 DEF Known, BodyNames, InitNames, ScanName, NextName, TempName

(* What they read, and the locals they assign. *)
CombineReads(values, n, j, args) ==
    /\ args \in Seq(Var) /\ DOMAIN args = 1..(2 + n + n)
    /\ args[1] = ScanName(j) /\ args[2] = values[j]
    /\ \A i \in 1..n : args[2 + i] = ScanName(i) /\ args[(2 + n) + i] = values[i]

(* A combine reads its state and its input, then all of them. *)
LEMMA ScanStmtFields ==
    ASSUME TypeOK, NEW values \in Seq(Var), values # <<>>, NEW n, n = Len(values),
           NEW j \in 1..n
    PROVE  CombineReads(values, n, j, CombineArgs(values, j))
  <1>1. n \in Nat \ {0} /\ \A i \in 1..n : values[i] \in Var /\ ScanName(i) \in Var
    BY ScanNamesNew
  <1>2. PICK a : a = <<ScanName(j), values[j]>>
    OBVIOUS
  <1>3. a \in Seq(Var) /\ Len(a) = 2 /\ a[1] = ScanName(j) /\ a[2] = values[j]
    BY <1>1, <1>2
  <1>4. PICK b : b = ScanNamesTo(n)
    OBVIOUS
  <1>5. b \in Seq(Var) /\ Len(b) = n /\ \A i \in 1..n : b[i] = ScanName(i)
    <2>1. b \in [1..n -> Var]
      BY <1>1, <1>4 DEF ScanNamesTo
    <2>2. b \in Seq(Var) /\ Len(b) = n
      BY <1>1, <2>1, FunctionIsSeq
    <2> QED
      BY <1>4, <2>2 DEF ScanNamesTo
  <1>6. PICK ab : ab = a \o b
    OBVIOUS
  <1>7. /\ ab \in Seq(Var) /\ Len(ab) = 2 + n /\ \A i \in 1..2 : ab[i] = a[i]
        /\ \A i \in 1..n : ab[2 + i] = b[i]
    <2>1. Joined(Var, ab, a, b, 2, n)
      BY <1>3, <1>5, <1>6, ConcatAt
    <2> QED
      BY <2>1 DEF Joined
  <1>8. PICK abc : abc = ab \o values
    OBVIOUS
  <1>9. PICK m : m = 2 + n
    OBVIOUS
  <1>c. /\ abc \in Seq(Var) /\ DOMAIN abc = 1..(m + n) /\ \A i \in 1..m : abc[i] = ab[i]
        /\ \A i \in 1..n : abc[m + i] = values[i]
    <2>1. Len(ab) = m
      BY <1>7, <1>9
    <2>2. Joined(Var, abc, ab, values, m, n)
      BY <1>7, <1>8, <2>1, ConcatAt
    <2> QED
      BY <2>2 DEF Joined
  <1>10. abc = CombineArgs(values, j)
    BY <1>2, <1>4, <1>6, <1>8 DEF CombineArgs
  <1>11. 1 \in 1..2 /\ 2 \in 1..2 /\ 1 \in 1..m /\ 2 \in 1..m /\ \A i \in 1..n : 2 + i \in 1..m
    BY <1>1, <1>9
  <1>12. abc[1] = ScanName(j) /\ abc[2] = values[j]
    BY <1>3, <1>7, <1>c, <1>11
  <1>13. \A i \in 1..n : abc[2 + i] = ScanName(i)
    BY <1>5, <1>7, <1>c, <1>11
  <1> QED
    BY <1>9, <1>10, <1>c, <1>12, <1>13 DEF CombineReads

(* The combine, the pick, the move and the declaration of a state. *)
LEMMA ScanStmtSound ==
    ASSUME TypeOK, NEW values \in Seq(Var), values # <<>>, NEW n, n = Len(values),
           NEW j \in 1..n, NEW c, c = CombineOf(values, j), NEW k, k = PickOf(values, j),
           NEW m, m = MoveOf(j), NEW ini, ini = UninitOf(j)
    PROVE  /\ c.op = "combine" /\ c.dst = TempName(j) /\ c.args = CombineArgs(values, j)
           /\ k.op = "pick" /\ k.dst = NextName(j) /\ k.args = <<values[j], TempName(j)>>
           /\ m.op = "move" /\ m.dst = ScanName(j) /\ m.args = <<NextName(j)>>
           /\ ini.op = "uninit" /\ ini.dst = ScanName(j) /\ ini.args = <<>>
           /\ c \in Stmt /\ k \in Stmt /\ m \in Stmt /\ ini \in Stmt
           /\ Proper(c) /\ Proper(k) /\ Proper(m) /\ Proper(ini) /\ InitShape(ini)
           /\ ArgsOf(c) = {ScanName(i) : i \in 1..n} \cup {values[i] : i \in 1..n}
           /\ ArgsOf(k) = {values[j], TempName(j)} /\ ArgsOf(m) = {NextName(j)} /\ ArgsOf(ini) = {}
  <1>1. /\ ScanName(j) \in Var /\ NextName(j) \in Var /\ TempName(j) \in Var
        /\ ScanName(j)[1] = "scan" /\ values[j] \in Var /\ n \in Nat
    BY ScanNamesNew
  <1>r. CombineReads(values, n, j, CombineArgs(values, j))
    BY ScanStmtFields
  <1>2. CombineReads(values, n, j, CombineArgs(values, j)) /\ CombineArgs(values, j) \in Seq(Var)
    BY <1>r DEF CombineReads
  <1>3. /\ c.op = "combine" /\ c.dst = TempName(j) /\ c.args = CombineArgs(values, j)
        /\ k.op = "pick" /\ k.dst = NextName(j) /\ k.args = <<values[j], TempName(j)>>
        /\ m.op = "move" /\ m.dst = ScanName(j) /\ m.args = <<NextName(j)>>
        /\ ini.op = "uninit" /\ ini.dst = ScanName(j) /\ ini.args = <<>>
    BY LocalFields DEF CombineOf, PickOf, MoveOf, UninitOf
  <1>4. <<values[j], TempName(j)>> \in Seq(Var) /\ <<NextName(j)>> \in Seq(Var) /\ <<>> \in Seq(Var)
    BY <1>1
  <1>5. c \in Stmt /\ k \in Stmt /\ m \in Stmt /\ ini \in Stmt
    BY <1>1, <1>2, <1>4, StatementTypes DEF CombineOf, PickOf, MoveOf, UninitOf, Op
  <1>6. /\ DOMAIN <<values[j], TempName(j)>> = 1..2 /\ Len(<<values[j], TempName(j)>>) = 2
        /\ <<values[j], TempName(j)>>[1] = values[j] /\ <<values[j], TempName(j)>>[2] = TempName(j)
        /\ DOMAIN <<NextName(j)>> = {1} /\ Len(<<NextName(j)>>) = 1 /\ <<NextName(j)>>[1] = NextName(j)
        /\ DOMAIN <<>> = {}
    OBVIOUS
  <1>7. Proper(c) /\ Proper(k) /\ Proper(m) /\ Proper(ini)
    BY <1>1, <1>3, <1>5, <1>6 DEF Proper
  <1>8. InitShape(ini)
    BY <1>1, <1>3 DEF InitShape
  <1>9. 1..2 = {1, 2}
    OBVIOUS
  <1>10. ArgsOf(k) = {values[j], TempName(j)} /\ ArgsOf(m) = {NextName(j)} /\ ArgsOf(ini) = {}
    BY <1>3, <1>6, <1>9 DEF ArgsOf
  <1>11. ArgsOf(c) = {ScanName(i) : i \in 1..n} \cup {values[i] : i \in 1..n}
    <2>1. PICK args : args = CombineArgs(values, j)
      OBVIOUS
    <2>a. CombineReads(values, n, j, args) /\ c.args = args
      BY <1>2, <1>3, <2>1
    <2>2. ASSUME NEW a \in 1..(2 + n + n)
          PROVE  args[a] \in {ScanName(i) : i \in 1..n} \cup {values[i] : i \in 1..n}
      <3>1. CASE a = 1 \/ a = 2
        BY <2>a, <3>1 DEF CombineReads
      <3>2. CASE a > 2 /\ a <= 2 + n
        <4>1. PICK i : i = a - 2
          OBVIOUS
        <4>2. i \in 1..n /\ a = 2 + i
          BY <1>1, <3>2, <4>1
        <4> QED
          BY <2>a, <4>2 DEF CombineReads
      <3>3. CASE a > 2 + n
        <4>1. PICK i : i = a - (2 + n)
          OBVIOUS
        <4>2. i \in 1..n /\ a = (2 + n) + i
          BY <1>1, <3>3, <4>1
        <4> QED
          BY <2>a, <4>2 DEF CombineReads
      <3> QED
        BY <1>1, <3>1, <3>2, <3>3
    <2>3. \A i \in 1..n : 2 + i \in 1..(2 + n + n) /\ (2 + n) + i \in 1..(2 + n + n)
      BY <1>1
    <2>4. ArgsOf(c) = {args[a] : a \in 1..(2 + n + n)}
      BY <2>a DEF ArgsOf, CombineReads
    <2>5. \A i \in 1..n : args[2 + i] = ScanName(i) /\ args[(2 + n) + i] = values[i]
      BY <2>a DEF CombineReads
    <2>6. \A i \in 1..n : ScanName(i) \in ArgsOf(c) /\ values[i] \in ArgsOf(c)
      BY <2>3, <2>4, <2>5
    <2>7. PICK both : both = {ScanName(i) : i \in 1..n} \cup {values[i] : i \in 1..n}
      OBVIOUS
    <2>8. ArgsOf(c) \subseteq both
      BY <2>2, <2>4, <2>7
    <2>9. both \subseteq ArgsOf(c)
      BY <2>6, <2>7
    <2> QED
      BY <2>7, <2>8, <2>9
  <1> QED
    BY <1>3, <1>5, <1>7, <1>8, <1>10, <1>11

(* The operands of a call are locals the LoopBody holds. *)
LEMMA OperandsHeld ==
    ASSUME TypeOK, NEW n \in Nat, NEW is \in Positions(n)
    PROVE  /\ Operands(is) \in Seq(Var) /\ Len(Operands(is)) = Len(is)
           /\ is \in Seq(DOMAIN child.vals) /\ DOMAIN Operands(is) = DOMAIN is
           /\ \A a \in DOMAIN is : Operands(is)[a] = child.vals[is[a]] /\ is[a] \in DOMAIN child.vals
  <1>1. Operands(is) \in Seq(Var) /\ Len(Operands(is)) = Len(is)
    BY OperandsType
  <1>2. PICK m \in 0..n : is \in [1..m -> DOMAIN child.vals]
    BY DEF Positions
  <1>3. is \in Seq(DOMAIN child.vals)
    BY <1>2, FunctionIsSeq
  <1>4. \A a \in DOMAIN is : Operands(is)[a] = child.vals[is[a]] /\ is[a] \in DOMAIN child.vals
    BY <1>2 DEF Operands
  <1> QED
    BY <1>1, <1>3, <1>4 DEF Operands

(* scan. *)
LEMMA ScanShape ==
    ASSUME MemoryInv, NamesInv, ShapeInv, TypeOK', NEW is \in Positions(MaxStates), is # <<>>, Scan(is)
    PROVE  ShapeInv'
  <1>1. PICK values, n, u, before : /\ values = Operands(is) /\ n = Len(values)
                                    /\ u = ScanUpdate(values)
                                    /\ before = WrittenBefore(outer, Len(outer) + 1)
    OBVIOUS
  <1>2. PICK t, added : t = ScanStmts(u) /\ added = u.inits
    OBVIOUS
  <1>3. child.mode # "idle"
    BY DEF Scan
  <1>4. TypeOK /\ status = "building" /\ active = InLoop /\ child.vals \in Seq(Var)
    BY <1>3, ChildWrites
  <1>5. /\ values \in Seq(Var) /\ values # <<>> /\ Len(is) = n
        /\ \A a \in DOMAIN values : values[a] \in Known
    <2>1. /\ values \in Seq(Var) /\ Len(values) = Len(is) /\ DOMAIN values = DOMAIN is
          /\ is \in Seq(DOMAIN child.vals)
          /\ \A a \in DOMAIN is : values[a] = child.vals[is[a]] /\ is[a] \in DOMAIN child.vals
      BY <1>1, <1>4, OperandsHeld, BoundsAssumption
    <2>2. values # <<>>
      BY <2>1
    <2>3. \A i \in DOMAIN child.vals : child.vals[i] \in Known
      BY DEF ShapeInv, ValuesKnown
    <2> QED
      BY <1>1, <2>1, <2>2, <2>3
  <1>6. Scanned(values, n, t, added) /\ u.states = ScanNamesTo(n)
    BY <1>1, <1>2, <1>4, <1>5, ScanIs
  <1>7. /\ inits' = inits \o added /\ block' = Flushed \o t /\ bindings' = <<>>
        /\ count' = [count EXCEPT !.tmp = @ + n, !.scan = @ + n] /\ InLoop
        /\ child' = [child EXCEPT !.vals = @ \o u.states, !.mode = "scanned"]
        /\ UNCHANGED <<active, outer, status, fins, fwd, fwdRed, written, reads>>
    BY <1>1, <1>2, <1>5 DEF Scan, schedule, builder
  <1>8. n \in Nat \ {0} /\ DOMAIN t = 1..(n + n + n) /\ DOMAIN added = 1..n
        /\ t \in Seq(Stmt) /\ added \in Seq(Stmt) /\ DOMAIN values = 1..n
    BY <1>1, <1>5, <1>6 DEF Scanned
  <1>9. PICK K, B : K = Known' /\ B = Reached'
    OBVIOUS
  <1>10. /\ Known \subseteq K
         /\ \A j \in 1..n : ScanName(j) \in K /\ NextName(j) \in K /\ TempName(j) \in K /\ values[j] \in K
    BY <1>4, <1>5, <1>7, <1>8, <1>9, ScanKnown
  <1>11. Reached' = Reached
    BY <1>7 DEF Reached
  <1>12. \A j \in 1..n : /\ added[j] \in Stmt /\ Proper(added[j]) /\ InitShape(added[j])
                         /\ added[j].op = "uninit" /\ added[j].dst = ScanName(j) /\ ArgsOf(added[j]) = {}
    <2>1. \A j \in 1..n : added[j] = UninitOf(j)
      BY <1>6 DEF Scanned
    <2> QED
      BY <1>1, <1>4, <1>5, <2>1, ScanStmtSound
  <1>13. \A i \in DOMAIN t : /\ t[i].op \in {"combine", "pick", "move"} /\ Proper(t[i])
                             /\ t[i].dst \in K /\ ArgsOf(t[i]) \subseteq K
    <2> TAKE i \in DOMAIN t
    <2>1. PICK j \in 1..n : t[i] \in {CombineOf(values, j), PickOf(values, j), MoveOf(j)}
      BY <1>6, ScanStmtIs
    <2>2. /\ CombineOf(values, j).op = "combine" /\ CombineOf(values, j).dst = TempName(j)
          /\ PickOf(values, j).op = "pick" /\ PickOf(values, j).dst = NextName(j)
          /\ MoveOf(j).op = "move" /\ MoveOf(j).dst = ScanName(j)
          /\ Proper(CombineOf(values, j)) /\ Proper(PickOf(values, j)) /\ Proper(MoveOf(j))
          /\ ArgsOf(CombineOf(values, j)) = {ScanName(h) : h \in 1..n} \cup {values[h] : h \in 1..n}
          /\ ArgsOf(PickOf(values, j)) = {values[j], TempName(j)} /\ ArgsOf(MoveOf(j)) = {NextName(j)}
      BY <1>1, <1>4, <1>5, ScanStmtSound
    <2>3. ArgsOf(CombineOf(values, j)) \subseteq K
      BY <1>10, <2>2
    <2> QED
      BY <1>10, <2>1, <2>2, <2>3
  <1>14. InitsSound(added) /\ BodySound(t, Open.loop)
    BY <1>8, <1>12, <1>13 DEF InitsSound, BodySound, ProperAll, Writes
  <1>15. SeqKnown(added, K, B) /\ SeqKnown(t, K, B)
    BY <1>8, <1>10, <1>12, <1>13 DEF SeqKnown, StmtKnown
  <1>16. Initialized(added) \subseteq AssignedBy(t, Len(t) + 1)
    <2>1. Initialized(added) \subseteq {ScanName(j) : j \in 1..n}
      BY <1>8, <1>12 DEF Initialized, Declares
    <2>2. ASSUME NEW j \in 1..n
          PROVE  ScanName(j) \in AssignedBy(t, Len(t) + 1)
      <3>1. PICK i : i = j + n + n
        OBVIOUS
      <3>2. i \in DOMAIN t /\ i < Len(t) + 1
        BY <1>8, <3>1
      <3>3. t[i] = MoveOf(j)
        BY <1>6, <3>1 DEF Scanned
      <3>4. MoveOf(j).op = "move" /\ MoveOf(j).dst = ScanName(j)
        BY <1>1, <1>4, <1>5, ScanStmtSound
      <3> QED
        BY <3>2, <3>3, <3>4 DEF AssignedBy, Writes
    <2> QED
      BY <2>1, <2>2
  <1>17. FitsMore(before, K, B, Open, added, t, <<>>)
    <2>1. Open.loop
      BY <1>4, <1>7 DEF Open
    <2>2. FinsSound(<<>>) /\ SeqKnown(<<>>, K, B)
      BY NothingMore
    <2>3. \A i \in DOMAIN t : LoadPlaced(t[i], before, Open.loop) /\ t[i].op # "atomic"
      BY <1>13 DEF LoadPlaced
    <2> QED
      BY <1>14, <1>15, <1>16, <2>1, <2>2, <2>3 DEF FitsMore
  <1>18. ValuesKnown'
    <2>1. child'.vals = child.vals \o u.states
      BY <1>4, <1>7 DEF TypeOK, ChildOK
    <2>2. u.states \in Seq(K) /\ \A j \in DOMAIN u.states : u.states[j] \in K
      <3>1. ScanNamesTo(n) \in [1..n -> K]
        BY <1>8, <1>10 DEF ScanNamesTo
      <3> QED
        BY <1>6, <1>8, <3>1, FunctionIsSeq
    <2>3. \A i \in DOMAIN child.vals : child.vals[i] \in K
      BY <1>10 DEF ShapeInv, ValuesKnown
    <2>4. child.vals \in Seq(K)
      BY <1>4, <2>3
    <2>a. PICK vs, us : vs = child.vals /\ us = u.states
      OBVIOUS
    <2>b. vs \in Seq(K) /\ us \in Seq(K)
      BY <2>2, <2>4, <2>a
    <2>c. vs \o us \in Seq(K)
      BY <2>b
    <2>5. PICK all \in Seq(K) : all = child.vals \o u.states
      BY <2>a, <2>c
    <2>6. \A i \in DOMAIN all : all[i] \in K
      OBVIOUS
    <2> QED
      BY <1>9, <2>1, <2>5, <2>6 DEF ValuesKnown
  <1>19. TablesKnown'
    BY <1>7, <1>9, <1>10 DEF ShapeInv, TablesKnown, Remembered
  <1>20. WritesMatch'
    <2>1. OnlyLocals(t)
      BY <1>13 DEF OnlyLocals
    <2>2. UNCHANGED <<outer, reads, written, active>>
      BY <1>7
    <2> QED
      BY <1>7, <1>8, <2>1, <2>2, WritesLocals
  <1>21. UNCHANGED <<active, outer, status>> /\ Reached \subseteq Reached' /\ Known \subseteq Known'
    BY <1>7, <1>9, <1>10, <1>11
  <1>22. FitsMore(WrittenBefore(outer, Len(outer) + 1), Known', Reached', Open, added, t, <<>>)
    BY <1>1, <1>9, <1>17
  <1>23. <<>> \in Seq(Stmt) /\ fins' = fins \o <<>>
    BY <1>4, <1>7, NothingMore DEF TypeOK
  <1> QED
    BY <1>3, <1>7, <1>8, <1>18, <1>19, <1>20, <1>21, <1>22, <1>23, ShapeMore

(* A section that nothing has been emitted into. *)
Blank(loop) == [loop |-> loop, inits |-> <<>>, body |-> <<>>, fins |-> <<>>]

(* It fits anywhere. *)
LEMMA BlankFits ==
    ASSUME NEW before, NEW K, NEW B, NEW loop \in BOOLEAN
    PROVE  Fits(before, K, B, Blank(loop))
  <1>1. /\ Blank(loop).loop = loop /\ Blank(loop).inits = <<>>
        /\ Blank(loop).body = <<>> /\ Blank(loop).fins = <<>> /\ DOMAIN <<>> = {}
    BY DEF Blank
  <1>2. InitsSound(<<>>) /\ FinsSound(<<>>) /\ BodySound(<<>>, loop) /\ Initialized(<<>>) = {}
        /\ SeqKnown(<<>>, K, B)
    BY NothingMore
  <1> QED
    BY <1>1, <1>2 DEF Fits

(* A closed phase is the section that was open. *)
LEMMA PhaseIsOpen ==
    ASSUME IInv
    PROVE  PhaseSection = Open
  <1>1. active = InLoop /\ (~active => inits = <<>> /\ fins = <<>>) /\ active \in BOOLEAN
    BY DEF IInv, PhaseFollowsSchedule, TypeOK
  <1>2. CASE active
    BY <1>1, <1>2 DEF PhaseSection, Open, InLoop
  <1>3. CASE ~active
    BY <1>1, <1>3 DEF PhaseSection, Open
  <1> QED
    BY <1>2, <1>3

(* The sections before those of a longer sequence. *)
LEMMA WrittenBeforeAppend ==
    ASSUME NEW secs \in Seq(Section), NEW sec \in Section, NEW n \in 1..(Len(secs) + 1)
    PROVE  WrittenBefore(Append(secs, sec), n) = WrittenBefore(secs, n)
  <1>1. DOMAIN secs = 1..Len(secs) /\ DOMAIN Append(secs, sec) = 1..(Len(secs) + 1) /\ Len(secs) \in Nat
    OBVIOUS
  <1>2. \A m \in 1..Len(secs) : Append(secs, sec)[m] = secs[m]
    OBVIOUS
  <1>3. \A m \in 1..(Len(secs) + 1) : m < n => m \in 1..Len(secs)
    BY <1>1
  <1>4. \A m \in 1..Len(secs) : m \in 1..(Len(secs) + 1)
    BY <1>1
  <1>5. ASSUME NEW b
        PROVE  (\E m \in DOMAIN Append(secs, sec) : m < n /\ SectionWrites(Append(secs, sec)[m], b))
                  <=> (\E m \in DOMAIN secs : m < n /\ SectionWrites(secs[m], b))
    BY <1>1, <1>2, <1>3, <1>4
  <1> QED
    BY <1>5 DEF WrittenBefore

(* Closing the open phase. *)
LEMMA CloseShape ==
    ASSUME IInv, ShapeInv, status = "building", outer' = Append(outer, PhaseSection),
           UNCHANGED <<count, written>>
    PROVE  SectionsFit'
  <1>1. Known' = Known /\ Reached' = Reached
    BY DEF Known, BodyNames, InitNames, Reached
  <1>2. outer \in Seq(Section) /\ PhaseSection \in Section /\ PhaseSection = Open
    BY PhaseSectionType, PhaseIsOpen DEF IInv, TypeOK
  <1>3. PICK l : l = Len(outer)
    OBVIOUS
  <1>4. /\ DOMAIN outer' = 1..(l + 1) /\ l \in Nat /\ DOMAIN outer = 1..l
        /\ outer'[l + 1] = Open /\ \A n \in 1..l : outer'[n] = outer[n]
    BY <1>2, <1>3
  <1>5. \A n \in 1..(l + 1) : WrittenBefore(outer', n) = WrittenBefore(outer, n)
    BY <1>2, <1>3, WrittenBeforeAppend
  <1>6. \A n \in 1..l : Fits(WrittenBefore(outer, n), Known, Reached, outer[n])
    BY <1>4 DEF ShapeInv, SectionsFit
  <1>7. Fits(WrittenBefore(outer, l + 1), Known, Reached, Open)
    BY <1>3 DEF ShapeInv, PhaseFits
  <1>8. ASSUME NEW n \in DOMAIN outer'
        PROVE  Fits(WrittenBefore(outer', n), Known, Reached, outer'[n])
    <2>1. CASE n = l + 1
      BY <1>4, <1>5, <1>7, <2>1
    <2>2. CASE n \in 1..l
      <3>1. n \in 1..(l + 1)
        BY <1>4
      <3> QED
        BY <1>4, <1>5, <1>6, <2>2, <3>1
    <2> QED
      BY <1>4, <2>1, <2>2
  <1> QED
    BY <1>1, <1>8 DEF SectionsFit

(* A marker. *)
LEMMA MarkerShape ==
    ASSUME MemoryInv, ShapeInv, TypeOK', Marker, NextPhase(enabled')
    PROVE  ShapeInv'
  <1>1. IInv /\ status = "building" /\ status' = "building" /\ child' = Idle
        /\ UNCHANGED <<count, written, fwdRed>>
    BY DEF MemoryInv, Marker
  <1>2. Known' = Known /\ Reached' = Reached
    BY <1>1 DEF Known, BodyNames, InitNames, Reached
  <1>3. active' \in BOOLEAN /\ ValuesKnown'
    BY <1>1 DEF TypeOK, ValuesKnown, Idle
  <1>4. /\ block' = <<>> /\ bindings' = <<>> /\ inits' = <<>> /\ fins' = <<>>
        /\ SectionsFit' /\ \A key \in Key : fwd'[key] = None
    <2>1. CASE opened
      <3>1. /\ outer' = Append(outer, PhaseSection)
            /\ block' = <<>> /\ bindings' = <<>> /\ inits' = <<>> /\ fins' = <<>>
            /\ fwd' = [key \in Key |-> None]
        BY <2>1 DEF NextPhase, EntersNewPhase, ForwardedAtPhaseStart
      <3>2. SectionsFit'
        BY <1>1, <3>1, CloseShape
      <3> QED
        BY <3>1, <3>2
    <2>2. CASE ~opened
      <3>1. UNCHANGED <<outer, phase, fwd>>
        BY <2>2 DEF NextPhase, EntersNewPhase
      <3>2. /\ block = <<>> /\ bindings = <<>> /\ inits = <<>> /\ fins = <<>>
            /\ \A key \in Key : fwd[key] = None
        BY <1>1, <2>2 DEF IInv, EmptyUntilOpened
      <3>3. SectionsFit'
        BY <1>2, <3>1 DEF ShapeInv, SectionsFit
      <3> QED
        BY <3>1, <3>2, <3>3 DEF phase
    <2> QED
      BY <2>1, <2>2
  <1>5. PhaseFits'
    <2>1. Open' = Blank(active')
      BY <1>4 DEF Open, Blank, Flushed
    <2>2. PICK before, K, B : before = WrittenBefore(outer, Len(outer) + 1)' /\ K = Known' /\ B = Reached'
      OBVIOUS
    <2>3. Fits(before, K, B, Blank(active'))
      BY <1>3, BlankFits
    <2> QED
      BY <2>1, <2>2, <2>3 DEF PhaseFits
  <1>6. TablesKnown'
    BY <1>1, <1>2, <1>4 DEF ShapeInv, TablesKnown, Remembered
  <1>7. WritesMatch'
    BY <1>4 DEF WritesMatch, WritesOf
  <1> QED
    BY <1>3, <1>4, <1>5, <1>6, <1>7 DEF ShapeInv

(* The last phase is appended. *)
LEMMA FinishShape ==
    ASSUME MemoryInv, ShapeInv, Finish
    PROVE  ShapeInv'
  <1>1. IInv /\ status = "building" /\ status' = "done"
        /\ UNCHANGED <<count, written, fwd, fwdRed, child, block, active>>
    BY DEF MemoryInv, Finish, handler, phase, schedule
  <1>2. Known' = Known /\ Reached' = Reached
    BY <1>1 DEF Known, BodyNames, InitNames, Reached
  <1>3. SectionsFit'
    <2>1. CASE opened
      BY <1>1, <2>1, CloseShape DEF Finish
    <2>2. CASE ~opened
      BY <1>2, <2>2 DEF ShapeInv, SectionsFit, Finish
    <2> QED
      BY <2>1, <2>2
  <1>4. ValuesKnown' /\ TablesKnown' /\ WritesMatch'
    BY <1>1, <1>2 DEF ShapeInv, ValuesKnown, TablesKnown, Remembered, WritesMatch
  <1> QED
    BY <1>1, <1>3, <1>4 DEF ShapeInv

(* The invariant holds at first. *)
LEMMA FirstShape == Init => ShapeInv
  <1> SUFFICES ASSUME Init PROVE ShapeInv
    OBVIOUS
  <1>1. /\ outer = <<>> /\ block = <<>> /\ bindings = <<>> /\ inits = <<>> /\ fins = <<>>
        /\ active \in BOOLEAN /\ child.vals = <<>>
        /\ \A key \in Key : fwd[key] = None /\ fwdRed[key] = None
    BY DEF Init, Idle
  <1>2. Open = Blank(active)
    BY <1>1 DEF Open, Blank, Flushed
  <1>3. PhaseFits
    BY <1>1, <1>2, BlankFits DEF PhaseFits
  <1>4. SectionsFit /\ ValuesKnown /\ TablesKnown /\ WritesMatch
    BY <1>1 DEF SectionsFit, ValuesKnown, TablesKnown, Remembered, WritesMatch, WritesOf
  <1> QED
    BY <1>3, <1>4 DEF ShapeInv

(* Every step that does not raise keeps it. *)
LEMMA StepShape ==
    ASSUME MemoryInv, NamesInv, ShapeInv, TypeOK', [Next]_vars, status' # "failed"
    PROVE  ShapeInv'
  <1>1. ASSUME NEW o \in Outputs, StartChild(o)
        PROVE  ShapeInv'
    <2>1. UNCHANGED <<outer, status, phase, active, fwd, fwdRed, count, written>> /\ child'.vals = <<>>
      BY <1>1 DEF StartChild, schedule, handler, Idle
    <2> QED
      BY <2>1, ShapeRests DEF ValuesKnown
  <1>2. ASSUME NEW b \in Buf, NEW k \in Idx, LoadForwarded(b, k) \/ LoadMemory(b, k)
        PROVE  ShapeInv'
    BY <1>2, LoadForwardedShape, LoadMemoryShape
  <1>3. ASSUME NEW is \in Positions(MaxArgs), Compute(is)
        PROVE  ShapeInv'
    BY <1>3, ComputeShape
  <1>4. ASSUME NEW i \in DOMAIN child.vals, NEW k \in Idx, NEW op \in {"store", "atomic"}, Store(i, k, op)
        PROVE  ShapeInv'
    BY <1>4, StoreShape
  <1>5. ASSUME NEW i \in DOMAIN child.vals, Reduction(i)
        PROVE  ShapeInv'
    BY <1>5, ReductionShape
  <1>6. ASSUME NEW k \in RowIdx, StoreReduction(k)
        PROVE  ShapeInv'
    BY <1>6, StoreReductionShape
  <1>7. ASSUME NEW is \in Positions(MaxStates), is # <<>>, Scan(is)
        PROVE  ShapeInv'
    BY <1>7, ScanShape
  <1>8. ASSUME DisableReduction \/ EnableReduction
        PROVE  ShapeInv'
    <2>1. Marker /\ NextPhase(enabled')
      BY <1>8 DEF DisableReduction, EnableReduction
    <2> QED
      BY <2>1, MarkerShape
  <1>9. ASSUME Finish
        PROVE  ShapeInv'
    BY <1>9, FinishShape
  <1>10. ASSUME UNCHANGED vars
         PROVE  ShapeInv'
    <2>1. UNCHANGED <<outer, status, phase, active, fwd, fwdRed, count, written, child>>
      BY <1>10 DEF vars, schedule, builder, handler
    <2>2. ValuesKnown'
      BY <2>1 DEF ShapeInv, ValuesKnown, Known, BodyNames, InitNames
    <2> QED
      BY <2>1, <2>2, ShapeRests
  <1>11. ~Raise /\ \A i \in DOMAIN child.vals : ~RaiseInReduction(i)
    BY RaisingFails DEF Fails
  <1> QED
    BY <1>1, <1>2, <1>3, <1>4, <1>5, <1>6, <1>7, <1>8, <1>9, <1>10, <1>11 DEF Next, Stopped

-----------------------------------------------------------------------------
(* The inductive step for the bodies. *)

Body == [inLoop: BOOLEAN, out: Outputs, calls: Seq(CallSet)]

(* The outputs closed before the body being replayed. *)
Closed == OutsBefore(bodies, Len(bodies))

(* A call that a body may make next. *)
CallFits(body, E, c) ==
    /\ c \in CallSet
    /\ c.op = "load" => c.buf \in Inputs \cup E
    /\ c.op \in WriteOp =>
          /\ c.buf = body.out
          /\ c.idx \in IF body.inLoop /\ c.op # "store_reduction" THEN FullIdx ELSE RowIdx
    /\ c.op = "store_reduction" => body.inLoop /\ Made(body.calls, Len(body.calls) + 1, "reduction")
    /\ c.op \in {"reduction", "scan"} => ~Made(body.calls, Len(body.calls) + 1, c.op)

WithCall(body, c) == [body EXCEPT !.calls = Append(@, c)]

(* w is body with the call c added to its l calls. *)
Extends(w, body, c, l) ==
    /\ w \in Body /\ w.inLoop = body.inLoop /\ w.out = body.out
    /\ l \in Nat /\ Len(body.calls) = l /\ DOMAIN body.calls = 1..l
    /\ Len(w.calls) = l + 1 /\ DOMAIN w.calls = 1..(l + 1)
    /\ w.calls[l + 1] = c /\ \A j \in 1..l : w.calls[j] = body.calls[j]
    /\ \A j \in 1..(l + 1) : \A op : Made(w.calls, j, op) <=> Made(body.calls, j, op)
    /\ \A op : Made(w.calls, l + 2, op) <=> Made(body.calls, l + 1, op) \/ c.op = op

(* Adding a call leaves the earlier ones as they were. *)
LEMMA WithCallIs ==
    ASSUME NEW body \in Body, NEW c \in CallSet, NEW w, w = WithCall(body, c),
           NEW l, l = Len(body.calls)
    PROVE  Extends(w, body, c, l)
  <1>1. PICK s \in Seq(CallSet) : s = body.calls
    BY DEF Body
  <1>2. PICK t : t = Append(s, c)
    OBVIOUS
  <1>3. /\ t \in Seq(CallSet) /\ l \in Nat /\ DOMAIN s = 1..l /\ Len(t) = l + 1
        /\ DOMAIN t = 1..(l + 1) /\ t[l + 1] = c /\ \A j \in 1..l : t[j] = s[j]
    BY <1>1, <1>2
  <1>4. w = [inLoop |-> body.inLoop, out |-> body.out, calls |-> t]
    BY <1>1, <1>2 DEF WithCall, Body
  <1>5. w \in Body /\ w.inLoop = body.inLoop /\ w.out = body.out /\ w.calls = t
    BY <1>3, <1>4 DEF Body
  <1>6. \A j \in 1..(l + 1) : \A op : Made(t, j, op) <=> Made(s, j, op)
    <2> TAKE j \in 1..(l + 1)
    <2> TAKE op
    <2>1. \A i \in 1..(l + 1) : i < j => i \in 1..l
      BY <1>3
    <2>2. \A i \in 1..l : i \in 1..(l + 1)
      BY <1>3
    <2> QED
      BY <1>3, <2>1, <2>2 DEF Made
  <1>7. \A op : Made(t, l + 2, op) <=> Made(s, l + 1, op) \/ c.op = op
    <2> TAKE op
    <2>1. \A i \in 1..(l + 1) : i < l + 2 /\ (i = l + 1 \/ (i \in 1..l /\ i < l + 1))
      BY <1>3
    <2>2. \A i \in 1..l : i \in 1..(l + 1)
      BY <1>3
    <2>3. l + 1 \in 1..(l + 1) /\ l + 1 < l + 2
      BY <1>3
    <2> QED
      BY <1>3, <2>1, <2>2, <2>3 DEF Made
  <1> QED
    BY <1>1, <1>3, <1>5, <1>6, <1>7 DEF Extends

(* A body that makes a call it may make is still a body. *)
LEMMA CallAdded ==
    ASSUME NEW body \in Body, NEW E, BodyCalls(body, E), ~Written(body), NEW c, CallFits(body, E, c)
    PROVE  /\ BodyCalls(WithCall(body, c), E)
           /\ Written(WithCall(body, c)) <=> c.op \in WriteOp
  <1>1. PICK w, l : w = WithCall(body, c) /\ l = Len(body.calls)
    OBVIOUS
  <1>2. c \in CallSet
    BY DEF CallFits
  <1>3. /\ w \in Body /\ w.inLoop = body.inLoop /\ w.out = body.out
        /\ l \in Nat /\ DOMAIN body.calls = 1..l
        /\ Len(w.calls) = l + 1 /\ DOMAIN w.calls = 1..(l + 1)
        /\ w.calls[l + 1] = c /\ \A j \in 1..l : w.calls[j] = body.calls[j]
        /\ \A j \in 1..(l + 1) : \A op : Made(w.calls, j, op) <=> Made(body.calls, j, op)
    <2>1. Extends(w, body, c, l)
      BY <1>1, <1>2, WithCallIs
    <2> QED
      BY <2>1 DEF Extends
  <1>4. \A j \in 1..l : body.calls[j].op \notin WriteOp
    BY <1>3 DEF Written
  <1>5. ASSUME NEW j \in 1..l
        PROVE  CallShape(w, E, j)
    <2>1. CallShape(body, E, j) /\ w.calls[j] = body.calls[j] /\ body.calls[j].op \notin WriteOp
      BY <1>3, <1>4 DEF BodyCalls
    <2>2. \A op : Made(w.calls, j, op) <=> Made(body.calls, j, op)
      BY <1>3
    <2>3. body.calls[j].op # "store_reduction"
      BY <2>1 DEF WriteOp
    <2> QED
      BY <2>1, <2>2, <2>3 DEF CallShape
  <1>6. CallShape(w, E, l + 1)
    <2>1. \A op : Made(w.calls, l + 1, op) <=> Made(body.calls, l + 1, op)
      BY <1>3
    <2>2. w.calls[l + 1] = c /\ l + 1 = Len(w.calls)
      BY <1>3
    <2>3. CallFits(body, E, c)
      OBVIOUS
    <2> QED
      BY <1>1, <1>3, <2>1, <2>2, <2>3 DEF CallShape, CallFits
  <1>7. \A j \in DOMAIN w.calls : CallShape(w, E, j)
    <2>1. \A j \in DOMAIN w.calls : j \in 1..l \/ j = l + 1
      BY <1>3
    <2> QED
      BY <1>5, <1>6, <2>1
  <1>8. BodyCalls(w, E)
    BY <1>3, <1>7 DEF BodyCalls, Body
  <1>9. Written(w) <=> c.op \in WriteOp
    <2>1. l + 1 \in DOMAIN w.calls /\ \A j \in DOMAIN w.calls : j \in 1..l \/ j = l + 1
      BY <1>3
    <2> QED
      BY <1>3, <1>4, <2>1 DEF Written
  <1> QED
    BY <1>1, <1>8, <1>9

(* Recording a call changes the last body only. *)
LEMMA RecordsIs ==
    ASSUME bodies \in Seq(Body), bodies # <<>>, NEW c \in CallSet, Records(c)
    PROVE  /\ bodies' \in Seq(Body) /\ Len(bodies') = Len(bodies) /\ bodies' # <<>>
           /\ Len(bodies) \in Nat \ {0} /\ DOMAIN bodies = 1..Len(bodies) /\ DOMAIN bodies' = DOMAIN bodies
           /\ Current \in Body /\ Current' = WithCall(Current, c)
           /\ \A n \in DOMAIN bodies : n # Len(bodies) => bodies'[n] = bodies[n]
           /\ \A n : OutsBefore(bodies', n) = OutsBefore(bodies, n)
  <1>1. PICK l : l = Len(bodies)
    OBVIOUS
  <1>2. l \in Nat \ {0} /\ DOMAIN bodies = 1..l /\ l \in DOMAIN bodies /\ bodies[l] \in Body
    BY <1>1
  <1>3. WithCall(bodies[l], c) \in Body /\ WithCall(bodies[l], c).out = bodies[l].out
    <2>1. PICK cur, w, k : cur = bodies[l] /\ w = WithCall(cur, c) /\ k = Len(cur.calls)
      OBVIOUS
    <2>2. Extends(w, cur, c, k)
      BY <1>2, <2>1, WithCallIs
    <2> QED
      BY <2>1, <2>2 DEF Extends
  <1>4. bodies' = [bodies EXCEPT ![l] = WithCall(bodies[l], c)]
    BY <1>1, <1>2 DEF Records, WithCall
  <1>5. bodies' \in Seq(Body) /\ Len(bodies') = l /\ DOMAIN bodies' = 1..l
    BY <1>1, <1>2, <1>3, <1>4
  <1>6. /\ bodies'[l] = WithCall(bodies[l], c)
        /\ \A n \in 1..l : n # l => bodies'[n] = bodies[n]
    BY <1>2, <1>4
  <1>7. \A n \in 1..l : bodies'[n].out = bodies[n].out
    BY <1>3, <1>6
  <1>8. \A n : OutsBefore(bodies', n) = OutsBefore(bodies, n)
    BY <1>2, <1>5, <1>7 DEF OutsBefore
  <1>9. bodies' # <<>>
    BY <1>2, <1>5
  <1> QED
    BY <1>1, <1>2, <1>5, <1>6, <1>8, <1>9 DEF Current

(* A call of the body being replayed. *)
LEMMA BodiesCall ==
    ASSUME BodiesInv, child.mode # "idle", child.out \in Outputs,
           NEW c, CallFits(Current, Closed, c), Records(c),
           c.op \in WriteOp => /\ child'.mode = "idle" /\ written'[child.out] # "no"
                               /\ \A o \in Outputs : o # child.out => written'[o] = written[o],
           c.op \notin WriteOp =>
              /\ UNCHANGED <<written, active>> /\ child'.mode # "idle" /\ child'.out = child.out
              /\ child'.mode = "reduced" <=> child.mode = "reduced" \/ c.op = "reduction"
              /\ child'.mode = "scanned" <=> child.mode = "scanned" \/ c.op = "scan"
    PROVE  BodiesInv'
  <1>1. /\ bodies \in Seq(Body) /\ bodies # <<>> /\ ~Written(Current)
        /\ Current.out = child.out /\ Current.inLoop = active
        /\ (Made(Current.calls, Len(Current.calls) + 1, "reduction") <=> child.mode = "reduced")
        /\ (Made(Current.calls, Len(Current.calls) + 1, "scan") <=> child.mode = "scanned")
    BY DEF BodiesInv, Body
  <1>2. \A n \in DOMAIN bodies :
          /\ BodyCalls(bodies[n], OutsBefore(bodies, n)) /\ bodies[n].out \notin OutsBefore(bodies, n)
          /\ n < Len(bodies) => Written(bodies[n]) /\ written[bodies[n].out] # "no"
    BY DEF BodiesInv, Finished
  <1>3. \A o \in Outputs : written[o] # "no" => \E n \in DOMAIN bodies : bodies[n].out = o /\ n < Len(bodies)
    BY DEF BodiesInv, Finished
  <1>4. c \in CallSet
    BY DEF CallFits
  <1>5. /\ bodies' \in Seq(Body) /\ Len(bodies') = Len(bodies) /\ bodies' # <<>>
        /\ Len(bodies) \in Nat \ {0} /\ DOMAIN bodies = 1..Len(bodies) /\ DOMAIN bodies' = DOMAIN bodies
        /\ Current \in Body /\ Current' = WithCall(Current, c)
        /\ \A n \in DOMAIN bodies : n # Len(bodies) => bodies'[n] = bodies[n]
        /\ \A n : OutsBefore(bodies', n) = OutsBefore(bodies, n)
    BY <1>1, <1>4, RecordsIs
  <1>6. PICK l : l = Len(bodies)
    OBVIOUS
  <1>7. l \in DOMAIN bodies /\ Current = bodies[l] /\ Current' = bodies'[l] /\ l \in Nat
    BY <1>5, <1>6 DEF Current
  <1>8. PICK cur, w : cur = Current /\ w = WithCall(Current, c)
    OBVIOUS
  <1>9. BodyCalls(cur, OutsBefore(bodies, l)) /\ cur \in Body /\ ~Written(cur)
        /\ CallFits(cur, OutsBefore(bodies, l), c)
    BY <1>1, <1>2, <1>5, <1>6, <1>7, <1>8 DEF Closed
  <1>10. BodyCalls(w, OutsBefore(bodies, l)) /\ (Written(w) <=> c.op \in WriteOp)
    <2>1. w = WithCall(cur, c)
      BY <1>8
    <2> QED
      BY <1>9, <2>1, CallAdded
  <1>11. /\ w.inLoop = cur.inLoop /\ w.out = cur.out
         /\ \A op : Made(w.calls, Len(w.calls) + 1, op) <=>
                       Made(cur.calls, Len(cur.calls) + 1, op) \/ c.op = op
    <2>1. PICK k : k = Len(cur.calls)
      OBVIOUS
    <2>2. w = WithCall(cur, c)
      BY <1>8
    <2>a. Extends(w, cur, c, k)
      BY <1>4, <1>9, <2>1, <2>2, WithCallIs
    <2>3. /\ w.inLoop = cur.inLoop /\ w.out = cur.out /\ k \in Nat /\ Len(w.calls) = k + 1
          /\ \A op : Made(w.calls, k + 2, op) <=> Made(cur.calls, k + 1, op) \/ c.op = op
      BY <2>a DEF Extends
    <2>4. (k + 1) + 1 = k + 2
      BY <2>3
    <2> QED
      BY <2>1, <2>3, <2>4
  <1>12. bodies'[l] = w /\ Current' = w /\ bodies[l] = cur
    BY <1>5, <1>7, <1>8
  <1>13. \A o \in Outputs : written[o] # "no" => written'[o] # "no"
    <2>1. CASE c.op \in WriteOp
      BY <2>1
    <2>2. CASE c.op \notin WriteOp
      BY <2>2
    <2> QED
      BY <2>1, <2>2
  <1>14. ASSUME NEW n \in DOMAIN bodies'
         PROVE  /\ BodyCalls(bodies'[n], OutsBefore(bodies', n))
                /\ bodies'[n].out \notin OutsBefore(bodies', n)
                /\ n < Len(bodies') \/ child'.mode = "idle" =>
                      Written(bodies'[n]) /\ written'[bodies'[n].out] # "no"
    <2>1. CASE n = l
      <3>1. BodyCalls(bodies'[n], OutsBefore(bodies', n)) /\ bodies'[n].out \notin OutsBefore(bodies', n)
        BY <1>2, <1>5, <1>7, <1>10, <1>11, <1>12, <2>1
      <3>2. ~(n < Len(bodies'))
        BY <1>5, <1>6, <1>7, <2>1
      <3>3. ASSUME child'.mode = "idle"
            PROVE  Written(bodies'[n]) /\ written'[bodies'[n].out] # "no"
        <4>1. c.op \in WriteOp
          BY <3>3
        <4> QED
          BY <1>1, <1>8, <1>10, <1>11, <1>12, <2>1, <4>1
      <3> QED
        BY <3>1, <3>2, <3>3
    <2>2. CASE n # l
      <3>1. bodies'[n] = bodies[n] /\ n \in DOMAIN bodies /\ OutsBefore(bodies', n) = OutsBefore(bodies, n)
        BY <1>5, <1>6, <2>2
      <3>2. n < Len(bodies)
        BY <1>5, <1>6, <2>2
      <3>3. bodies[n].out \in Outputs
        BY <1>2, <3>1 DEF BodyCalls
      <3> QED
        BY <1>2, <1>13, <3>1, <3>2, <3>3
    <2> QED
      BY <2>1, <2>2
  <1>15. ASSUME child'.mode # "idle"
         PROVE  /\ bodies' # <<>> /\ ~Written(Current')
                /\ Current'.out = child'.out /\ Current'.inLoop = active'
                /\ (Made(Current'.calls, Len(Current'.calls) + 1, "reduction") <=> child'.mode = "reduced")
                /\ (Made(Current'.calls, Len(Current'.calls) + 1, "scan") <=> child'.mode = "scanned")
    <2>1. c.op \notin WriteOp
      BY <1>15
    <2> QED
      BY <1>1, <1>5, <1>8, <1>10, <1>11, <1>12, <2>1
  <1>16. ASSUME NEW o \in Outputs, written'[o] # "no"
         PROVE  \E n \in DOMAIN bodies' : bodies'[n].out = o /\ (n < Len(bodies') \/ child'.mode = "idle")
    <2>1. CASE written[o] # "no"
      <3>1. PICK n \in DOMAIN bodies : bodies[n].out = o /\ n < Len(bodies)
        BY <1>3, <2>1
      <3>2. n # l
        BY <1>5, <1>6, <3>1
      <3> QED
        BY <1>5, <1>6, <3>1, <3>2
    <2>2. CASE written[o] = "no"
      <3>1. c.op \in WriteOp /\ o = child.out /\ child'.mode = "idle"
        BY <1>16, <2>2
      <3> QED
        BY <1>1, <1>5, <1>7, <1>8, <1>11, <1>12, <3>1
    <2> QED
      BY <2>1, <2>2
  <1> QED
    BY <1>5, <1>14, <1>15, <1>16 DEF BodiesInv, Body, Finished

(* The calls of the environment are calls that the body may make. *)
LEMMA LoadFits ==
    ASSUME BodiesInv, NEW b \in Buf, NEW k \in Idx, LoadForwarded(b, k) \/ LoadMemory(b, k),
           NEW c, c = Call("load", b, k, <<>>)
    PROVE  CallFits(Current, Closed, c) /\ c.op = "load" /\ c.buf = b /\ c.idx = k
  <1>1. child.mode \in {"body", "scanned"} /\ Readable(b, k)
    BY DEF LoadForwarded, LoadMemory
  <1>2. c \in CallSet /\ c.op = "load" /\ c.buf = b /\ c.idx = k
    <2>1. <<>> \in Seq(Nat) /\ "load" \in CallOp
      BY DEF CallOp
    <2> QED
      BY <2>1 DEF Call, CallSet
  <1>3. b \in Inputs \cup Closed
    <2>1. b \in Inputs \/ (b \in Outputs /\ written[b] # "no")
      BY <1>1 DEF Readable
    <2>2. ASSUME b \in Outputs, written[b] # "no"
          PROVE  b \in Closed
      <3>1. PICK n \in DOMAIN bodies : bodies[n].out = b /\ Finished(n)
        BY <2>2 DEF BodiesInv
      <3>2. n < Len(bodies)
        BY <1>1, <3>1 DEF Finished
      <3> QED
        BY <3>1, <3>2 DEF Closed, OutsBefore
    <2> QED
      BY <2>1, <2>2
  <1> QED
    BY <1>2, <1>3 DEF CallFits, WriteOp

(* A scalar operation. *)
LEMMA ComputeFits ==
    ASSUME TypeOK, NEW is \in Positions(MaxArgs), NEW c, c = Call("compute", None, None, is)
    PROVE  CallFits(Current, Closed, c) /\ c.op = "compute" /\ c.is = is
  <1>1. c \in CallSet /\ c.op = "compute" /\ c.is = is
    <2>1. is \in Seq(DOMAIN child.vals)
      BY OperandsHeld, BoundsAssumption
    <2>2. DOMAIN child.vals \subseteq Nat
      BY DEF TypeOK, ChildOK
    <2>3. is \in Seq(Nat) /\ "compute" \in CallOp
      BY <2>1, <2>2 DEF CallOp
    <2> QED
      BY <2>3 DEF Call, CallSet
  <1> QED
    BY <1>1 DEF CallFits, WriteOp

(* A store is the last call, of the body's own output. *)
LEMMA StoreFits ==
    ASSUME IInv, BodiesInv, NEW i \in DOMAIN child.vals, NEW k \in Idx,
           NEW op \in {"store", "atomic"}, Store(i, k, op), NEW c, c = Call(op, child.out, k, <<i>>)
    PROVE  /\ CallFits(Current, Closed, c)
           /\ c.op = op /\ c.buf = child.out /\ c.idx = k /\ c.is = <<i>> /\ c.op \in WriteOp
  <1>1. child.mode # "idle" /\ (k \in IF InLoop THEN FullIdx ELSE RowIdx)
    BY DEF Store
  <1>2. child.out \in Outputs /\ i \in Nat /\ active = InLoop
    BY <1>1 DEF IInv, TypeOK, ChildOK, PhaseFollowsSchedule
  <1>3. c \in CallSet /\ c.op = op /\ c.buf = child.out /\ c.idx = k /\ c.is = <<i>>
    <2>1. <<i>> \in Seq(Nat) /\ op \in CallOp /\ child.out \in Buf
      BY <1>2 DEF CallOp, Buf
    <2> QED
      BY <2>1 DEF Call, CallSet
  <1>4. Current.out = child.out /\ Current.inLoop = active
    BY <1>1 DEF BodiesInv
  <1> QED
    BY <1>1, <1>2, <1>3, <1>4 DEF CallFits, WriteOp

(* A reduction is the only one of its body. *)
LEMMA ReductionFits ==
    ASSUME IInv, BodiesInv, NEW i \in DOMAIN child.vals, Reduction(i),
           NEW c, c = Call("reduction", None, None, <<i>>)
    PROVE  CallFits(Current, Closed, c) /\ c.op = "reduction" /\ c.is = <<i>>
  <1>1. child.mode = "body" /\ i \in Nat
    BY DEF Reduction, IInv, TypeOK, ChildOK
  <1>2. c \in CallSet /\ c.op = "reduction" /\ c.is = <<i>>
    <2>1. <<i>> \in Seq(Nat) /\ "reduction" \in CallOp
      BY <1>1 DEF CallOp
    <2> QED
      BY <2>1 DEF Call, CallSet
  <1>3. ~Made(Current.calls, Len(Current.calls) + 1, "reduction")
    BY <1>1 DEF BodiesInv
  <1> QED
    BY <1>2, <1>3 DEF CallFits, WriteOp

(* A reduction is stored once it has been made. *)
LEMMA StoreReductionFits ==
    ASSUME IInv, BodiesInv, NEW k \in RowIdx, StoreReduction(k),
           NEW c, c = Call("store_reduction", child.out, k, <<>>)
    PROVE  /\ CallFits(Current, Closed, c) /\ active
           /\ c.op = "store_reduction" /\ c.buf = child.out /\ c.idx = k /\ c.is = <<>>
  <1>1. child.mode = "reduced"
    BY DEF StoreReduction
  <1>2. child.out \in Outputs
    BY <1>1 DEF IInv, TypeOK, ChildOK
  <1>3. active
    <2>1. child.vals[1] \in Declares(inits, "init")
      BY <1>1 DEF IInv, ChildHolds
    <2>2. inits # <<>>
      BY <2>1 DEF Declares
    <2> QED
      BY <2>2 DEF IInv, PhaseFollowsSchedule
  <1>4. c \in CallSet /\ c.op = "store_reduction" /\ c.buf = child.out /\ c.idx = k /\ c.is = <<>>
    <2>1. <<>> \in Seq(Nat) /\ "store_reduction" \in CallOp /\ child.out \in Buf /\ k \in Idx
      BY <1>2 DEF CallOp, Buf, Idx
    <2> QED
      BY <2>1 DEF Call, CallSet
  <1>5. /\ Current.out = child.out /\ Current.inLoop = active
        /\ Made(Current.calls, Len(Current.calls) + 1, "reduction")
    BY <1>1 DEF BodiesInv
  <1> QED
    BY <1>3, <1>4, <1>5 DEF CallFits

(* A scan is the only one of its body. *)
LEMMA ScanFits ==
    ASSUME TypeOK, BodiesInv, NEW is \in Positions(MaxStates), Scan(is),
           NEW c, c = Call("scan", None, None, is)
    PROVE  CallFits(Current, Closed, c) /\ c.op = "scan" /\ c.is = is
  <1>1. child.mode = "body"
    BY DEF Scan
  <1>2. c \in CallSet /\ c.op = "scan" /\ c.is = is
    <2>1. is \in Seq(DOMAIN child.vals)
      BY OperandsHeld, BoundsAssumption
    <2>2. DOMAIN child.vals \subseteq Nat
      BY DEF TypeOK, ChildOK
    <2>3. is \in Seq(Nat) /\ "scan" \in CallOp
      BY <2>1, <2>2 DEF CallOp
    <2> QED
      BY <2>3 DEF Call, CallSet
  <1>3. ~Made(Current.calls, Len(Current.calls) + 1, "scan")
    BY <1>1 DEF BodiesInv
  <1> QED
    BY <1>2, <1>3 DEF CallFits, WriteOp

(* load. *)
LEMMA LoadBodies ==
    ASSUME TypeOK, BodiesInv, NEW b \in Buf, NEW k \in Idx, LoadForwarded(b, k) \/ LoadMemory(b, k),
           Records(Call("load", b, k, <<>>))
    PROVE  BodiesInv'
  <1>1. child.mode \in {"body", "scanned"} /\ Readable(b, k)
    BY DEF LoadForwarded, LoadMemory
  <1>2. UNCHANGED <<written, active>>
    BY DEF LoadForwarded, LoadMemory, schedule, builder
  <1>3. PICK v : Returns(v)
    BY DEF LoadForwarded, LoadMemory
  <1>4. child'.mode = child.mode /\ child'.out = child.out /\ child.out \in Outputs
    BY <1>1, <1>3, ReturnsKeepsChild DEF TypeOK, ChildOK
  <1>5. PICK c : c = Call("load", b, k, <<>>)
    OBVIOUS
  <1>6. c.op = "load"
    BY <1>5, LoadFits
  <1>8. CallFits(Current, Closed, c)
    BY <1>5, LoadFits
  <1>9. Records(c) /\ c.op \notin WriteOp /\ c.op \notin {"reduction", "scan"}
    BY <1>5, <1>6 DEF WriteOp
  <1>10. child.mode # "idle" /\ c.op # "reduction" /\ c.op # "scan"
    BY <1>1, <1>9
  <1> QED
    BY <1>2, <1>4, <1>8, <1>9, <1>10, BodiesCall

(* A scalar operation. *)
LEMMA ComputeBodies ==
    ASSUME TypeOK, BodiesInv, NEW is \in Positions(MaxArgs), Compute(is),
           Records(Call("compute", None, None, is))
    PROVE  BodiesInv'
  <1>1. child.mode \in {"body", "scanned"} /\ UNCHANGED <<written, active>>
    BY DEF Compute, schedule, builder
  <1>2. Returns(NextTemp)
    BY DEF Compute
  <1>3. child'.mode = child.mode /\ child'.out = child.out /\ child.out \in Outputs
    BY <1>1, <1>2, ReturnsKeepsChild DEF TypeOK, ChildOK
  <1>4. PICK c : c = Call("compute", None, None, is)
    OBVIOUS
  <1>5. c.op = "compute"
    BY <1>4, ComputeFits
  <1>6. CallFits(Current, Closed, c)
    BY <1>4, ComputeFits
  <1>7. Records(c) /\ c.op \notin WriteOp /\ child.mode # "idle" /\ c.op # "reduction" /\ c.op # "scan"
    BY <1>1, <1>4, <1>5 DEF WriteOp
  <1> QED
    BY <1>1, <1>3, <1>6, <1>7, BodiesCall

(* store. *)
LEMMA StoreBodies ==
    ASSUME IInv, BodiesInv, NEW i \in DOMAIN child.vals, NEW k \in Idx,
           NEW op \in {"store", "atomic"}, Store(i, k, op), Records(Call(op, child.out, k, <<i>>))
    PROVE  BodiesInv'
  <1>1. child.mode # "idle" /\ child' = Idle
    BY DEF Store
  <1>2. child.out \in Outputs
    BY <1>1 DEF IInv, TypeOK, ChildOK
  <1>3. written'[child.out] # "no" /\ \A o \in Outputs : o # child.out => written'[o] = written[o]
    BY <1>2 DEF Store, IInv, TypeOK
  <1>4. PICK c : c = Call(op, child.out, k, <<i>>)
    OBVIOUS
  <1>5. c.op \in WriteOp
    BY <1>4, StoreFits
  <1>7. CallFits(Current, Closed, c)
    BY <1>4, StoreFits
  <1>8. Records(c) /\ c.op \in WriteOp /\ child'.mode = "idle"
    BY <1>1, <1>4, <1>5 DEF Idle
  <1> QED
    BY <1>1, <1>2, <1>3, <1>7, <1>8, BodiesCall

(* reduction. *)
LEMMA ReductionBodies ==
    ASSUME IInv, BodiesInv, NEW i \in DOMAIN child.vals, Reduction(i),
           Records(Call("reduction", None, None, <<i>>))
    PROVE  BodiesInv'
  <1>1. child.mode = "body" /\ UNCHANGED <<written, active>>
    BY DEF Reduction, schedule, builder
  <1>2. child' = [child EXCEPT !.vals = <<NewAcc>>, !.mode = "reduced"]
    BY DEF Reduction, NewAcc
  <1>3. child.out \in Outputs /\ child'.mode = "reduced" /\ child'.out = child.out
    BY <1>1, <1>2 DEF IInv, TypeOK, ChildOK
  <1>4. PICK c : c = Call("reduction", None, None, <<i>>)
    OBVIOUS
  <1>5. c.op = "reduction"
    BY <1>4, ReductionFits
  <1>7. CallFits(Current, Closed, c)
    BY <1>4, ReductionFits
  <1>8. Records(c) /\ c.op \notin WriteOp /\ child.mode # "idle" /\ c.op # "scan"
        /\ child'.mode # "idle" /\ child'.mode # "scanned" /\ child.mode # "scanned"
    BY <1>1, <1>3, <1>4, <1>5 DEF WriteOp
  <1> QED
    BY <1>1, <1>3, <1>5, <1>7, <1>8, BodiesCall

(* store_reduction. *)
LEMMA StoreReductionBodies ==
    ASSUME MemoryInv, BodiesInv, NEW k \in RowIdx, StoreReduction(k),
           Records(Call("store_reduction", child.out, k, <<>>))
    PROVE  BodiesInv'
  <1>1. child.mode = "reduced" /\ child' = Idle
    BY DEF StoreReduction
  <1>2. child.out \in Outputs /\ TypeOK
    BY <1>1 DEF MemoryInv, IInv, TypeOK, ChildOK
  <1>3. IInv
    BY DEF MemoryInv
  <1>4. written'[child.out] # "no" /\ \A o \in Outputs : o # child.out => written'[o] = written[o]
    BY <1>2 DEF StoreReduction, TypeOK
  <1>5. PICK c : c = Call("store_reduction", child.out, k, <<>>)
    OBVIOUS
  <1>6. c.op = "store_reduction"
    BY <1>3, <1>5, StoreReductionFits
  <1>8. CallFits(Current, Closed, c)
    BY <1>3, <1>5, StoreReductionFits
  <1>9. Records(c) /\ c.op \in WriteOp /\ child'.mode = "idle" /\ child.mode # "idle"
    BY <1>1, <1>5, <1>6 DEF WriteOp, Idle
  <1> QED
    BY <1>2, <1>4, <1>8, <1>9, BodiesCall

(* scan. *)
LEMMA ScanBodies ==
    ASSUME IInv, BodiesInv, NEW is \in Positions(MaxStates), Scan(is),
           Records(Call("scan", None, None, is))
    PROVE  BodiesInv'
  <1>1. child.mode = "body" /\ UNCHANGED <<written, active>>
    BY DEF Scan, schedule, builder
  <1>2. PICK vs : child' = [child EXCEPT !.vals = vs, !.mode = "scanned"]
    BY DEF Scan
  <1>3. TypeOK /\ child.out \in Outputs /\ child'.mode = "scanned" /\ child'.out = child.out
    BY <1>1, <1>2 DEF IInv, TypeOK, ChildOK
  <1>4. PICK c : c = Call("scan", None, None, is)
    OBVIOUS
  <1>5. c.op = "scan"
    BY <1>3, <1>4, ScanFits
  <1>7. CallFits(Current, Closed, c)
    BY <1>3, <1>4, ScanFits
  <1>8. Records(c) /\ c.op \notin WriteOp /\ child.mode # "idle" /\ c.op # "reduction"
        /\ child'.mode # "idle" /\ child'.mode # "reduced" /\ child.mode # "reduced"
    BY <1>1, <1>3, <1>4, <1>5 DEF WriteOp
  <1> QED
    BY <1>1, <1>3, <1>5, <1>7, <1>8, BodiesCall

(* A new body has made no call. *)
LEMMA StartBodies ==
    ASSUME IInv, BodiesInv, NEW o \in Outputs, StartChild(o),
           bodies' = Append(bodies, [inLoop |-> InLoop, out |-> o, calls |-> <<>>])
    PROVE  BodiesInv'
  <1>1. /\ child = Idle /\ written[o] = "no" /\ child' = [Idle EXCEPT !.out = o, !.mode = "body"]
        /\ UNCHANGED <<written, active>>
    BY DEF StartChild, schedule
  <1>2. child.mode = "idle" /\ child'.mode = "body" /\ child'.out = o /\ active = InLoop /\ active \in BOOLEAN
    BY <1>1 DEF Idle, IInv, PhaseFollowsSchedule, TypeOK
  <1>3. PICK l, x : l = Len(bodies) /\ x = [inLoop |-> InLoop, out |-> o, calls |-> <<>>]
    OBVIOUS
  <1>4. x \in Body /\ x.inLoop = active /\ x.out = o /\ x.calls = <<>>
    <2>1. <<>> \in Seq(CallSet)
      OBVIOUS
    <2> QED
      BY <1>2, <1>3, <2>1 DEF Body
  <1>5. bodies \in Seq(Body) /\ bodies' = Append(bodies, x)
    BY <1>3 DEF BodiesInv, Body
  <1>6. /\ bodies' \in Seq(Body) /\ l \in Nat /\ DOMAIN bodies = 1..l /\ Len(bodies') = l + 1
        /\ DOMAIN bodies' = 1..(l + 1) /\ bodies'[l + 1] = x
        /\ \A n \in 1..l : bodies'[n] = bodies[n]
    BY <1>3, <1>4, <1>5
  <1>7. \A n \in 1..(l + 1) : OutsBefore(bodies', n) = OutsBefore(bodies, n)
    <2> TAKE n \in 1..(l + 1)
    <2>1. \A m \in 1..(l + 1) : m < n => m \in 1..l
      BY <1>6
    <2>2. \A m \in 1..l : m \in 1..(l + 1)
      BY <1>6
    <2> QED
      BY <1>6, <2>1, <2>2 DEF OutsBefore
  <1>8. \A n \in 1..l : /\ BodyCalls(bodies[n], OutsBefore(bodies, n))
                        /\ bodies[n].out \notin OutsBefore(bodies, n)
                        /\ Written(bodies[n]) /\ written[bodies[n].out] # "no"
    BY <1>2, <1>6 DEF BodiesInv, Finished
  <1>9. BodyCalls(x, OutsBefore(bodies, l + 1)) /\ ~Written(x) /\ DOMAIN x.calls = {} /\ Len(x.calls) = 0
    BY <1>4 DEF BodyCalls, Written, Body
  <1>10. o \notin OutsBefore(bodies, l + 1)
    BY <1>1, <1>6, <1>8 DEF OutsBefore
  <1>11. ASSUME NEW n \in DOMAIN bodies'
         PROVE  /\ BodyCalls(bodies'[n], OutsBefore(bodies', n))
                /\ bodies'[n].out \notin OutsBefore(bodies', n)
                /\ n < Len(bodies') \/ child'.mode = "idle" =>
                      Written(bodies'[n]) /\ written'[bodies'[n].out] # "no"
    <2>1. CASE n = l + 1
      <3>1. ~(n < Len(bodies'))
        BY <1>6, <2>1
      <3> QED
        BY <1>2, <1>4, <1>6, <1>7, <1>9, <1>10, <2>1, <3>1
    <2>2. CASE n \in 1..l
      BY <1>1, <1>6, <1>7, <1>8, <2>2
    <2> QED
      BY <1>6, <2>1, <2>2
  <1>12. bodies' # <<>> /\ Current' = x
    BY <1>6 DEF Current
  <1>13. ASSUME NEW q \in Outputs, written'[q] # "no"
         PROVE  \E n \in DOMAIN bodies' : bodies'[n].out = q /\ (n < Len(bodies') \/ child'.mode = "idle")
    <2>1. PICK n \in DOMAIN bodies : bodies[n].out = q
      BY <1>1, <1>13 DEF BodiesInv
    <2>2. n \in 1..(l + 1) /\ n < l + 1
      BY <1>6, <2>1
    <2> QED
      BY <1>6, <2>1, <2>2
  <1>14. \A op : ~Made(x.calls, Len(x.calls) + 1, op)
    BY <1>9 DEF Made
  <1> QED
    BY <1>1, <1>2, <1>4, <1>6, <1>9, <1>11, <1>12, <1>13, <1>14 DEF BodiesInv, Body, Finished

(* Steps between children. *)
LEMMA RestBodies ==
    ASSUME BodiesInv, UNCHANGED <<bodies, child, written>>, child.mode = "idle" \/ UNCHANGED active
    PROVE  BodiesInv'
  BY DEF BodiesInv, Finished, Current

(* Every step that does not raise keeps it. *)
LEMMA StepBodies ==
    ASSUME MemoryInv, BodiesInv, [ExecNext]_execVars, status' # "failed"
    PROVE  BodiesInv'
  <1>1. IInv /\ TypeOK
    BY DEF MemoryInv, IInv
  <1>2. ASSUME DisableReduction \/ EnableReduction \/ Finish, UNCHANGED bodies
        PROVE  BodiesInv'
    <2>1. child = Idle /\ UNCHANGED <<child, written>>
      <3>1. CASE DisableReduction \/ EnableReduction
        BY <3>1 DEF DisableReduction, EnableReduction, Marker
      <3>2. CASE Finish
        BY <3>2 DEF Finish, schedule
      <3> QED
        BY <1>2, <3>1, <3>2
    <2>2. child.mode = "idle"
      BY <2>1 DEF Idle
    <2> QED
      BY <1>2, <2>1, <2>2, RestBodies
  <1>3. ASSUME UNCHANGED vars /\ UNCHANGED bodies
        PROVE  BodiesInv'
    BY <1>3, RestBodies DEF vars, schedule, builder
  <1>4. ~Raise /\ \A i \in DOMAIN child.vals : ~RaiseInReduction(i)
    BY RaisingFails DEF Fails
  <1> QED
    BY <1>1, <1>2, <1>3, <1>4, StartBodies, LoadBodies, ComputeBodies, StoreBodies, ReductionBodies,
       StoreReductionBodies, ScanBodies DEF ExecNext, execVars, Stopped

(* No body has been replayed at first. *)
LEMMA FirstBodies == ExecInit => BodiesInv
  <1> SUFFICES ASSUME ExecInit PROVE BodiesInv
    OBVIOUS
  <1>1. bodies = <<>> /\ child.mode = "idle" /\ \A o \in Outputs : written[o] = "no"
    BY DEF ExecInit, Init, Idle
  <1>2. bodies \in Seq(Body) /\ DOMAIN bodies = {}
    BY <1>1
  <1> QED
    BY <1>1, <1>2 DEF BodiesInv, Body

-----------------------------------------------------------------------------
(* Accounts grow.  A later account tells of more names and buffers, and    *)
(* the same of those in K and B.                                           *)
Agree(M, d, M2, d2, K, B) ==
    /\ \A v \in K : d2[v] = d[v]
    /\ \A a \in Cells : a[1] \in B => M2[a] = M[a]

(* seq2 starts with seq, and ins2 initializes what ins does and names that *)
(* are not in K.                                                           *)
Prefixed(seq, seq2) ==
    /\ DOMAIN seq = 1..Len(seq) /\ Len(seq) \in Nat /\ DOMAIN seq2 \subseteq Nat
    /\ \A i \in DOMAIN seq : i \in DOMAIN seq2 /\ seq2[i] = seq[i]
SameInitials(ins, ins2, K) == \A v \in K : v \in Initialized(ins) <=> v \in Initialized(ins2)

(* What a known local is worth does not change. *)
LEMMA WorthKept ==
    ASSUME NEW d, NEW d2, NEW K, \A v \in K : d2[v] = d[v],
           NEW ins, NEW ins2, SameInitials(ins, ins2, K),
           NEW seq, NEW seq2, Prefixed(seq, seq2), NEW i \in 1..(Len(seq) + 1),
           NEW v \in K, NEW r
    PROVE  Worth(d2, ins2, seq2, i, v, r) = Worth(d, ins, seq, i, v, r)
  <1>1. \A j \in DOMAIN seq2 : j < i => j \in DOMAIN seq \/ j = 0
    BY DEF Prefixed
  <1>2. Assigned(seq2, i, v) <=> Assigned(seq, i, v)
    <2>1. ASSUME Assigned(seq, i, v)
          PROVE  Assigned(seq2, i, v)
      BY <2>1 DEF Assigned, Prefixed
    <2>2. ASSUME Assigned(seq2, i, v)
          PROVE  Assigned(seq, i, v)
      BY <1>1, <2>2 DEF Assigned, Prefixed
    <2> QED
      BY <2>1, <2>2
  <1>3. d2[v] = d[v] /\ (v \in Initialized(ins) <=> v \in Initialized(ins2))
    BY DEF SameInitials
  <1> QED
    BY <1>2, <1>3 DEF Worth

(* A statement that is right stays right. *)
LEMMA RightKept ==
    ASSUME NEW M, NEW d, NEW M2, NEW d2, NEW K, NEW B, Agree(M, d, M2, d2, K, B), B \subseteq Buf,
           NEW ins, NEW ins2, SameInitials(ins, ins2, K),
           NEW seq, ProperAll(seq), NEW seq2, Prefixed(seq, seq2), SeqKnown(seq, K, B),
           NEW i \in DOMAIN seq, NEW p, NEW r \in Rs, Right(M, d, p, ins, seq, i, r)
    PROVE  Right(M2, d2, p, ins2, seq2, i, r)
  <1> DEFINE s == seq[i]
  <1>1. seq2[i] = s /\ i \in 1..(Len(seq) + 1)
    BY DEF Prefixed
  <1>2. s \in Stmt /\ Proper(s) /\ StmtKnown(s, K, B) /\ s.op \in Op /\ s.args \in Seq(Var)
    <2>1. s \in Stmt /\ Proper(s) /\ StmtKnown(s, K, B)
      BY DEF ProperAll, SeqKnown
    <2> QED
      BY <2>1 DEF Stmt
  <1>3. \A v \in K : Worth(d2, ins2, seq2, i, v, r) = Worth(d, ins, seq, i, v, r)
    <2>1. \A v \in K : d2[v] = d[v]
      BY DEF Agree
    <2> QED
      BY <1>1, <2>1, WorthKept
  <1>4. Worths(d2, ins2, seq2, i, r) = Worths(d, ins, seq, i, r)
    <2>1. \A a \in DOMAIN s.args : s.args[a] \in K
      BY <1>2 DEF StmtKnown, ArgsOf
    <2> QED
      BY <1>1, <1>3, <2>1 DEF Worths
  <1>5. s.op \notin {"store", "atomic"} => s.dst \in K
    BY <1>2, NamesAssumption DEF Proper, StmtKnown
  <1>6. s.op \in {"load", "store", "atomic"} => M2[Cell(s, r)] = M[Cell(s, r)]
    <2>1. Place(s.idx, r) \in Rs
      BY PlaceIn
    <2> HIDE DEF s
    <2> SUFFICES ASSUME s.op \in {"load", "store", "atomic"}
                 PROVE  M2[Cell(s, r)] = M[Cell(s, r)]
      OBVIOUS
    <2>2. s.buf \in B /\ s.buf \in Buf
      BY <1>2 DEF StmtKnown
    <2>3. Cell(s, r) \in Cells /\ Cell(s, r)[1] = s.buf
      BY <2>1, <2>2 DEF Cell, Cells
    <2> QED
      BY <2>2, <2>3 DEF Agree
  <1>7. Told(M2, d2, p, ins2, seq2, i, r) = Told(M, d, p, ins, seq, i, r)
    <2>1. s.op = "update" => Worth(d2, ins2, seq2, i, s.dst, r) = Worth(d, ins, seq, i, s.dst, r)
      BY <1>3, <1>5
    <2>2. s.op \in {"load", "atomic"} => Stored(M2, p, s, r) = Stored(M, p, s, r)
      BY <1>6 DEF Stored
    <2>3. \A xs : Outcome(s, xs, Worth(d2, ins2, seq2, i, s.dst, r), Stored(M2, p, s, r), r)
                    = Outcome(s, xs, Worth(d, ins, seq, i, s.dst, r), Stored(M, p, s, r), r)
      <3> HIDE DEF s
      <3> QED
        BY <1>2, <2>1, <2>2, OutcomeSame
    <2> QED
      BY <1>1, <1>4, <2>3 DEF Told
  <1>8. CASE Writes(s)
    BY <1>1, <1>6, <1>7, <1>8 DEF Right, Writes
  <1>9. CASE ~Writes(s)
    <2>1. d2[s.dst] = d[s.dst]
      BY <1>5, <1>9 DEF Agree, Writes
    <2> QED
      BY <1>1, <1>7, <1>9, <2>1 DEF Right
  <1> QED
    BY <1>8, <1>9

(* What is not among its iterations. *)
FinRight(M, d, p, s) == M[<<s.buf, 0>>] = d[s.args[1]][Last1] /\ Untouched(M, p, s.buf)
StraightStays(M, d, p, s) ==
    IF Writes(s) THEN Untouched(M, p, s.buf) ELSE d[s.dst][0] = d[s.dst][Last1]

(* Buffers and locals that stay as they were. *)
LEMMA UntouchedKept ==
    ASSUME NEW M, NEW d, NEW M2, NEW d2, NEW K, NEW B, Agree(M, d, M2, d2, K, B), B \subseteq Buf,
           NEW b \in B, NEW p, Untouched(M, p, b)
    PROVE  Untouched(M2, p, b)
  BY DEF Untouched, Agree, Cells

(* So do finalizers, *)
LEMMA FinKept ==
    ASSUME NEW M, NEW d, NEW M2, NEW d2, NEW K, NEW B, Agree(M, d, M2, d2, K, B), B \subseteq Buf,
           NEW s, Proper(s), s.op = "store", StmtKnown(s, K, B), NEW p, FinRight(M, d, p, s)
    PROVE  FinRight(M2, d2, p, s)
  <1>1. s.buf \in B /\ s.buf \in Buf /\ s.args[1] \in K
    <2>1. s.args \in Seq(Var) /\ Len(s.args) = 1
      BY DEF Proper, Stmt
    <2>2. 1 \in DOMAIN s.args
      BY <2>1
    <2> QED
      BY <2>2 DEF StmtKnown, ArgsOf
  <1>2. <<s.buf, 0>> \in Cells
    BY <1>1, Zero DEF Cells
  <1>3. M2[<<s.buf, 0>>] = M[<<s.buf, 0>>] /\ d2[s.args[1]] = d[s.args[1]]
    BY <1>1, <1>2 DEF Agree
  <1> QED
    BY <1>1, <1>3, UntouchedKept DEF FinRight

(* and what a straight-line statement leaves. *)
LEMMA StraightKept ==
    ASSUME NEW M, NEW d, NEW M2, NEW d2, NEW K, NEW B, Agree(M, d, M2, d2, K, B), B \subseteq Buf,
           NEW s, Proper(s), StmtKnown(s, K, B), NEW p, StraightStays(M, d, p, s)
    PROVE  StraightStays(M2, d2, p, s)
  <1>1. CASE Writes(s)
    <2>1. s.buf \in B
      BY <1>1 DEF Writes, StmtKnown
    <2> QED
      BY <1>1, <2>1, UntouchedKept DEF StraightStays
  <1>2. CASE ~Writes(s)
    <2>1. s.dst \in K
      BY <1>2, NamesAssumption DEF Writes, Proper, StmtKnown
    <2> QED
      BY <1>2, <2>1 DEF StraightStays, Agree
  <1> QED
    BY <1>1, <1>2

(* What is added to a section is right. *)
MoreRight(M, d, p, sec, added, t, f) ==
    LET seq == sec.body \o t
        l   == Len(sec.body)
    IN  /\ \A i \in DOMAIN t :
              IF sec.loop THEN \A r \in Rs : Right(M, d, p, sec.inits \o added, seq, l + i, r)
              ELSE Right(M, d, p, <<>>, seq, l + i, 0) /\ StraightStays(M, d, p, t[i])
        /\ \A i \in DOMAIN f : FinRight(M, d, p, f[i])

(* A concatenation starts with its first part. *)
LEMMA PrefixOfConcat ==
    ASSUME NEW s \in Seq(Stmt), NEW t \in Seq(Stmt)
    PROVE  Prefixed(s, s \o t) /\ Prefixed(s, s)
  <1>1. /\ DOMAIN s = 1..Len(s) /\ Len(s) \in Nat /\ DOMAIN (s \o t) \subseteq Nat
        /\ \A i \in DOMAIN s : (s \o t)[i] = s[i] /\ i \in DOMAIN (s \o t)
    <2>1. PICK n, m : n = Len(s) /\ m = Len(t)
      OBVIOUS
    <2>2. n \in Nat /\ m \in Nat /\ DOMAIN (s \o t) = 1..(n + m)
      BY <2>1, ConcatElements
    <2> QED
      BY <2>2, ConcatElements
  <1> QED
    BY <1>1 DEF Prefixed

(* A section that is right and grows by what is right is right. *)
LEMMA SectionGrows ==
    ASSUME NEW M, NEW d, NEW M2, NEW d2, NEW K, NEW B, Agree(M, d, M2, d2, K, B), B \subseteq Buf,
           NEW before, NEW sec, Fits(before, K, B, sec), NEW p, SectionRight(M, d, p, sec),
           NEW added \in Seq(Stmt), NEW t \in Seq(Stmt), NEW f \in Seq(Stmt),
           Initialized(added) \cap K = {},
           MoreRight(M2, d2, p, sec, added, t, f)
    PROVE  SectionRight(M2, d2, p, Grown(sec, added, t, f))
  <1>1. /\ ProperAll(sec.body) /\ SeqKnown(sec.body, K, B) /\ ProperAll(sec.fins) /\ SeqKnown(sec.fins, K, B)
        /\ FinsSound(sec.fins) /\ ProperAll(sec.inits)
    BY DEF Fits, BodySound, FinsSound, InitsSound
  <1>2. sec.body \in Seq(Stmt) /\ sec.fins \in Seq(Stmt) /\ sec.inits \in Seq(Stmt)
    BY <1>1 DEF ProperAll
  <1>3. PICK seq, fs, ins, l, g : /\ seq = sec.body \o t /\ fs = sec.fins \o f /\ ins = sec.inits \o added
                                  /\ l = Len(sec.body) /\ g = Grown(sec, added, t, f)
    OBVIOUS
  <1>4. g.loop = sec.loop /\ g.inits = ins /\ g.body = seq /\ g.fins = fs
    BY <1>3 DEF Grown
  <1>5. Prefixed(sec.body, seq) /\ SameInitials(sec.inits, ins, K) /\ SameInitials(<<>>, <<>>, K)
    BY <1>2, <1>3, PrefixOfConcat, InitializedConcat DEF SameInitials
  <1>6. \A i \in DOMAIN seq : \/ i \in DOMAIN sec.body /\ seq[i] = sec.body[i]
                              \/ \E j \in DOMAIN t : i = l + j /\ seq[i] = t[j]
    <2> TAKE i \in DOMAIN seq
    <2>1. \/ i \in DOMAIN sec.body /\ seq[i] = sec.body[i]
          \/ \E j \in DOMAIN t : i = j + l /\ seq[i] = t[j]
      BY <1>2, <1>3, ConcatParts, SMTT(60)
    <2>2. l \in Nat /\ \A j \in DOMAIN t : j + l = l + j
      BY <1>2, <1>3
    <2> QED
      BY <2>1, <2>2
  <1>7. \A i \in DOMAIN fs : FinRight(M2, d2, p, fs[i])
    <2> TAKE i \in DOMAIN fs
    <2>1. CASE i \in DOMAIN sec.fins /\ fs[i] = sec.fins[i]
      <3>1. Proper(sec.fins[i]) /\ StmtKnown(sec.fins[i], K, B) /\ sec.fins[i].op = "store"
        BY <1>1, <2>1 DEF ProperAll, SeqKnown, FinsSound
      <3>2. FinRight(M, d, p, sec.fins[i])
        BY <2>1 DEF SectionRight, FinRight
      <3> QED
        BY <2>1, <3>1, <3>2, FinKept
    <2>2. ASSUME NEW j \in DOMAIN f, fs[i] = f[j]
          PROVE  FinRight(M2, d2, p, fs[i])
      BY <2>2 DEF MoreRight
    <2> QED
      BY <1>2, <1>3, <2>1, <2>2, ConcatParts, ZenonT(60)
  <1>8. CASE sec.loop
    <2>1. \A i \in DOMAIN seq, r \in Rs : Right(M2, d2, p, ins, seq, i, r)
      <3> TAKE i \in DOMAIN seq, r \in Rs
      <3>1. CASE i \in DOMAIN sec.body
        <4>1. Right(M, d, p, sec.inits, sec.body, i, r)
          BY <1>8, <3>1 DEF SectionRight, LoopRight
        <4> QED
          BY <1>1, <1>5, <3>1, <4>1, RightKept
      <3>2. ASSUME NEW j \in DOMAIN t, i = l + j
            PROVE  Right(M2, d2, p, ins, seq, i, r)
        BY <1>3, <1>8, <3>2 DEF MoreRight
      <3> QED
        BY <1>6, <3>1, <3>2
    <2> QED
      BY <1>3, <1>4, <1>7, <1>8, <2>1 DEF SectionRight, LoopRight, FinRight
  <1>9. CASE ~sec.loop
    <2>1. ASSUME NEW i \in DOMAIN seq
          PROVE  Right(M2, d2, p, <<>>, seq, i, 0) /\ StraightStays(M2, d2, p, seq[i])
      <3>1. CASE i \in DOMAIN sec.body /\ seq[i] = sec.body[i]
        <4>1. Right(M, d, p, <<>>, sec.body, i, 0) /\ StraightStays(M, d, p, sec.body[i])
          BY <1>9, <3>1 DEF SectionRight, StraightRight, StraightStays
        <4>2. Proper(sec.body[i]) /\ StmtKnown(sec.body[i], K, B)
          BY <1>1, <3>1 DEF ProperAll, SeqKnown
        <4>3. Right(M2, d2, p, <<>>, seq, i, 0)
          BY <1>1, <1>5, <3>1, <4>1, Zero, RightKept
        <4>4. StraightStays(M2, d2, p, sec.body[i])
          BY <4>1, <4>2, StraightKept
        <4> QED
          BY <3>1, <4>3, <4>4
      <3>2. ASSUME NEW j \in DOMAIN t, i = l + j, seq[i] = t[j]
            PROVE  Right(M2, d2, p, <<>>, seq, i, 0) /\ StraightStays(M2, d2, p, seq[i])
        BY <1>3, <1>9, <3>2 DEF MoreRight
      <3> QED
        BY <1>6, <3>1, <3>2
    <2> QED
      BY <1>3, <1>4, <1>7, <1>9, <2>1 DEF SectionRight, StraightRight, StraightStays, FinRight
  <1> QED
    BY <1>8, <1>9

(* A section that does not grow stays right. *)
LEMMA SectionKept ==
    ASSUME NEW M, NEW d, NEW M2, NEW d2, NEW K, NEW B, Agree(M, d, M2, d2, K, B), B \subseteq Buf,
           NEW before, NEW sec, Fits(before, K, B, sec), NEW p, SectionRight(M, d, p, sec)
    PROVE  SectionRight(M2, d2, p, sec)
  <1>1. PICK g : g = Grown(sec, <<>>, <<>>, <<>>)
    OBVIOUS
  <1>2. g.loop = sec.loop /\ g.inits = sec.inits /\ g.body = sec.body /\ g.fins = sec.fins
    <2>1. sec.body \in Seq(Stmt) /\ sec.fins \in Seq(Stmt) /\ sec.inits \in Seq(Stmt)
      BY DEF Fits, BodySound, FinsSound, InitsSound, ProperAll
    <2> QED
      BY <1>1, <2>1, NothingMore DEF Grown
  <1>3. MoreRight(M2, d2, p, sec, <<>>, <<>>, <<>>)
    BY DEF MoreRight
  <1>4. SectionRight(M2, d2, p, g)
    BY <1>1, <1>3, NothingMore, SectionGrows
  <1> QED
    BY <1>2, <1>4 DEF SectionRight

(* What a local is worth at the end of a section. *)
End(d, sec, v, r) == Worth(d, sec.inits, sec.body, Len(sec.body) + 1, v, r)

(* No statement of t assigns a local of K. *)
Apart(t, K) == \A i \in DOMAIN t : t[i].dst \notin K

(* w is s followed by t. *)
TailOf(w, s, t, l, k) ==
    s \in Seq(Stmt) /\ t \in Seq(Stmt) /\ l = Len(s) /\ k = Len(t) /\ w = s \o t

(* A tail stands where the sequence ends. *)
LEMMA TailJoined ==
    ASSUME NEW w, NEW s, NEW t, NEW l, NEW k, TailOf(w, s, t, l, k)
    PROVE  Joined(Stmt, w, s, t, l, k) /\ l \in Nat /\ k \in Nat /\ DOMAIN s = 1..l /\ DOMAIN t = 1..k
  <1>1. s \in Seq(Stmt) /\ t \in Seq(Stmt) /\ l = Len(s) /\ k = Len(t) /\ w = s \o t
    BY DEF TailOf
  <1>2. Joined(Stmt, w, s, t, l, k)
    BY <1>1, ConcatAt
  <1>3. l \in Nat /\ k \in Nat /\ DOMAIN s = 1..l /\ DOMAIN t = 1..k
    BY <1>1
  <1> QED
    BY <1>2, <1>3

(* Among statements that follow s, a known local is worth what it was.     *)
LEMMA TailWorth ==
    ASSUME NEW d, NEW d2, NEW K, \A v \in K : d2[v] = d[v],
           NEW ins, NEW ins2, SameInitials(ins, ins2, K),
           NEW w, NEW s, NEW t, NEW l, NEW k, TailOf(w, s, t, l, k), Apart(t, K),
           NEW i \in 1..(k + 1), NEW v \in K, NEW r, NEW m, m = l + i
    PROVE  Worth(d2, ins2, w, m, v, r) = Worth(d, ins, s, l + 1, v, r)
  <1>2. Joined(Stmt, w, s, t, l, k) /\ l \in Nat /\ k \in Nat /\ i \in Nat /\ DOMAIN s = 1..l /\ DOMAIN t = 1..k
    BY TailJoined
  <1>3. Assigned(w, m, v) <=> Assigned(s, l + 1, v)
    <2>1. ASSUME NEW j \in DOMAIN s, s[j].dst = v
          PROVE  j \in DOMAIN w /\ j < m /\ w[j].dst = v
      BY <1>2, <2>1 DEF Joined
    <2>2. ASSUME NEW j \in DOMAIN w, w[j].dst = v
          PROVE  j \in DOMAIN s /\ j < l + 1 /\ s[j].dst = v
      <3>1. CASE j \in 1..l
        BY <1>2, <2>2, <3>1 DEF Joined
      <3>2. CASE j \notin 1..l
        <4>1. j \in 1..(l + k)
          BY <1>2, <2>2 DEF Joined
        <4>2. PICK h \in 1..k : j = l + h
          <5>1. j - l \in 1..k /\ j = l + (j - l)
            BY <1>2, <3>2, <4>1
          <5> QED
            BY <5>1
        <4>3. w[l + h] = t[h] /\ t[h].dst \notin K
          BY <1>2, <4>2 DEF Joined, Apart
        <4> QED
          BY <2>2, <4>2, <4>3
      <3> QED
        BY <3>1, <3>2
    <2>3. ASSUME Assigned(w, m, v)
          PROVE  Assigned(s, l + 1, v)
      BY <2>2, <2>3 DEF Assigned
    <2>4. ASSUME Assigned(s, l + 1, v)
          PROVE  Assigned(w, m, v)
      BY <2>1, <2>4 DEF Assigned
    <2> QED
      BY <2>3, <2>4
  <1>4. d2[v] = d[v] /\ (v \in Initialized(ins) <=> v \in Initialized(ins2))
    BY DEF SameInitials
  <1> QED
    BY <1>3, <1>4 DEF Worth

(* Position j of a sequence of length k comes before position i. *)
Earlier(j, i, k) == j \in 1..k /\ i \in 1..(k + 1) /\ j < i

(* A local that they assign is worth what this turn gave it.               *)
LEMMA TailAssigned ==
    ASSUME NEW w, NEW s, NEW t, NEW l, NEW k, TailOf(w, s, t, l, k),
           NEW i, NEW j, Earlier(j, i, k), NEW m, m = l + i
    PROVE  Assigned(w, m, t[j].dst)
  <1>1. Joined(Stmt, w, s, t, l, k) /\ l \in Nat /\ k \in Nat
    BY TailJoined
  <1>3. l + j \in DOMAIN w /\ l + j < m /\ w[l + j] = t[j]
    BY <1>1 DEF Joined, Earlier
  <1> QED
    BY <1>3 DEF Assigned

(* Growing a section leaves what known locals are worth at its end.        *)
LEMMA EndKept ==
    ASSUME NEW d, NEW d2, NEW K, \A v \in K : d2[v] = d[v],
           NEW sec, sec.inits \in Seq(Stmt), sec.body \in Seq(Stmt),
           NEW added \in Seq(Stmt), NEW t \in Seq(Stmt), NEW f,
           Initialized(added) \cap K = {}, Apart(t, K),
           NEW v \in K, NEW r
    PROVE  End(d2, Grown(sec, added, t, f), v, r) = End(d, sec, v, r)
  <1>1. PICK l, k, w, ins : l = Len(sec.body) /\ k = Len(t) /\ w = sec.body \o t /\ ins = sec.inits \o added
    OBVIOUS
  <1>2. TailOf(w, sec.body, t, l, k) /\ Joined(Stmt, w, sec.body, t, l, k)
    <2>1. TailOf(w, sec.body, t, l, k)
      BY <1>1 DEF TailOf
    <2> QED
      BY <2>1, TailJoined
  <1>3. l \in Nat /\ k \in Nat /\ k + 1 \in 1..(k + 1) /\ Len(w) + 1 = l + (k + 1)
    BY <1>2 DEF Joined
  <1>4. SameInitials(sec.inits, ins, K)
    BY <1>1, InitializedConcat DEF SameInitials
  <1>5. PICK n : n = Len(w) + 1
    OBVIOUS
  <1>6. n = l + (k + 1)
    BY <1>3, <1>5
  <1>7. Worth(d2, ins, w, n, v, r) = Worth(d, sec.inits, sec.body, l + 1, v, r)
    <2>1. PICK s, ini, e : s = sec.body /\ ini = sec.inits /\ e = k + 1
      OBVIOUS
    <2>2. TailOf(w, s, t, l, k) /\ SameInitials(ini, ins, K) /\ e \in 1..(k + 1) /\ n = l + e
      BY <1>2, <1>3, <1>4, <1>6, <2>1
    <2>3. Worth(d2, ins, w, n, v, r) = Worth(d, ini, s, l + 1, v, r)
      BY <2>2, TailWorth
    <2> QED
      BY <2>1, <2>3
  <1> QED
    BY <1>1, <1>5, <1>7 DEF End, Grown

(* The locals that t assigns are worth what this turn gave them. *)
EndsWith(d, sec, t, r) == \A j \in DOMAIN t : End(d, sec, t[j].dst, r) = d[t[j].dst][r]

(* A name added to it is worth what the last turn gave it.                 *)
LEMMA EndAssigned ==
    ASSUME NEW d2, NEW sec, sec.body \in Seq(Stmt),
           NEW added, NEW t \in Seq(Stmt), NEW f, NEW r
    PROVE  EndsWith(d2, Grown(sec, added, t, f), t, r)
  <1> SUFFICES ASSUME NEW j \in DOMAIN t
               PROVE  End(d2, Grown(sec, added, t, f), t[j].dst, r) = d2[t[j].dst][r]
    BY DEF EndsWith
  <1> DEFINE v == t[j].dst
  <1>1. PICK l, k, w, ins : l = Len(sec.body) /\ k = Len(t) /\ w = sec.body \o t /\ ins = sec.inits \o added
    OBVIOUS
  <1>2. TailOf(w, sec.body, t, l, k) /\ Joined(Stmt, w, sec.body, t, l, k) /\ j \in 1..k
    <2>1. TailOf(w, sec.body, t, l, k)
      BY <1>1 DEF TailOf
    <2> QED
      BY <2>1, TailJoined
  <1>3. l \in Nat /\ k \in Nat /\ k + 1 \in 1..(k + 1) /\ j < k + 1 /\ Len(w) + 1 = l + (k + 1)
    BY <1>2 DEF Joined
  <1>4. PICK n : n = Len(w) + 1
    OBVIOUS
  <1>5. n = l + (k + 1)
    BY <1>3, <1>4
  <1>6. Worth(d2, ins, w, n, v, r) = d2[v][r]
    <2>1. PICK s, e : s = sec.body /\ e = k + 1
      OBVIOUS
    <2>2. TailOf(w, s, t, l, k) /\ n = l + e
      BY <1>2, <1>3, <1>5, <2>1
    <2>3. Earlier(j, e, k)
      BY <1>2, <1>3, <2>1 DEF Earlier, Joined
    <2>4. Assigned(w, n, t[j].dst)
      BY <2>2, <2>3, TailAssigned
    <2> QED
      BY <2>4 DEF Worth
  <1> QED
    BY <1>1, <1>4, <1>6 DEF End, Grown

(* The row is the same at the buffers of B. *)
SameAt(M, M2, B) == \A a \in Cells : a[1] \in B => M2[a] = M[a]

(* A call that does not write is as right about another memory as it was   *)
(* about this one, when what it loads is the same.                         *)
LEMMA CallKept ==
    ASSUME NEW M, NEW M2, NEW B, SameAt(M, M2, B), B \subseteq Buf,
           NEW W, NEW W2, NEW A, NEW A2, NEW S, NEW S2, NEW calls, NEW calls2,
           NEW j, calls2[j] = calls[j], calls[j].op \in CallOp, NEW r \in Rs, NEW p,
           calls[j].op \in {"load", "store", "atomic", "store_reduction"} => calls[j].buf \in B,
           W2[j][r] = W[j][r], W2[j + 1][r] = W[j + 1][r],
           calls[j].op \in {"reduction", "store_reduction"} => A2 = A, calls[j].op = "scan" => S2 = S,
           CallRight(M, p, W, A, S, calls, j, r)
    PROVE  CallRight(M2, p, W2, A2, S2, calls2, j, r)
  <1>1. PICK c, x, y : c = calls[j] /\ x = W[j][r] /\ y = W[j + 1][r]
    OBVIOUS
  <1>2. c.op \in {"load", "store", "atomic", "store_reduction"} => M2[Cell(c, r)] = M[Cell(c, r)]
    <2> SUFFICES ASSUME c.op \in {"load", "store", "atomic", "store_reduction"}
                 PROVE  M2[Cell(c, r)] = M[Cell(c, r)]
      OBVIOUS
    <2>1. c.buf \in B /\ c.buf \in Buf /\ Place(c.idx, r) \in Rs
      BY <1>1, PlaceIn
    <2>2. Cell(c, r) \in Cells /\ Cell(c, r)[1] = c.buf
      BY <2>1 DEF Cell, Cells
    <2> QED
      BY <2>1, <2>2 DEF SameAt
  <1>3. /\ y = Appended(M, S, W, c, j, r)
        /\ c.op = "store" => M[Cell(c, r)] = Chosen(x, c.is)[1]
        /\ c.op = "atomic" => M[Cell(c, r)] = Add(Initially(p, Cell(c, r)), Chosen(x, c.is)[1])
        /\ c.op = "reduction" => A[r] = Mix(Previous(A, Unit, r), Chosen(x, c.is)[1])
        /\ c.op = "store_reduction" /\ r = Last1 => M[Cell(c, r)] = A[r]
        /\ c.op = "scan" => S[r] = Combined(Previous(S, <<>>, r), Chosen(x, c.is), r)
    BY <1>1 DEF CallRight
  <1>4. Appended(M2, S2, W2, c, j, r) = Appended(M, S, W, c, j, r)
    <2>1. CASE c.op = "load"
      BY <1>1, <1>2, <2>1 DEF Appended
    <2>2. CASE c.op = "scan"
      BY <1>1, <2>2 DEF Appended
    <2>3. CASE c.op \notin {"load", "scan"}
      BY <1>1, <2>3 DEF Appended
    <2> QED
      BY <2>1, <2>2, <2>3
  <1>5. /\ c.op = "store" => M2[Cell(c, r)] = Chosen(x, c.is)[1]
        /\ c.op = "atomic" => M2[Cell(c, r)] = Add(Initially(p, Cell(c, r)), Chosen(x, c.is)[1])
    BY <1>2, <1>3
  <1>6. c.op = "reduction" => A2[r] = Mix(Previous(A2, Unit, r), Chosen(x, c.is)[1])
    BY <1>1, <1>3
  <1>7. c.op = "store_reduction" /\ r = Last1 => M2[Cell(c, r)] = A2[r]
    BY <1>1, <1>2, <1>3
  <1>8. c.op = "scan" => S2[r] = Combined(Previous(S2, <<>>, r), Chosen(x, c.is), r)
    BY <1>1, <1>3
  <1>9. c = calls2[j] /\ x = W2[j][r] /\ W2[j + 1][r] = Appended(M2, S2, W2, c, j, r)
    BY <1>1, <1>3, <1>4
  <1> QED
    BY <1>5, <1>6, <1>7, <1>8, <1>9 DEF CallRight

(* A body that another child follows. *)
LEMMA BodyKept ==
    ASSUME NEW M, NEW M2, NEW body, NEW E, BodyCalls(body, E), E \subseteq Outputs,
           SameAt(M, M2, Inputs \cup E \cup {body.out}), NEW p, NEW W, NEW A, NEW S,
           BodyRight(M, p, body, W, A, S)
    PROVE  BodyRight(M2, p, body, W, A, S)
  <1>1. PICK calls, B : calls = body.calls /\ B = Inputs \cup E \cup {body.out}
    OBVIOUS
  <1>2. B \subseteq Buf /\ SameAt(M, M2, B) /\ calls \in Seq(CallSet)
    BY <1>1 DEF Buf, BodyCalls
  <1>3. ASSUME NEW j \in DOMAIN calls
        PROVE  /\ calls[j].op \in CallOp
               /\ calls[j].op \in {"load", "store", "atomic", "store_reduction"} => calls[j].buf \in B
    <2>1. calls[j] \in CallSet /\ CallShape(body, E, j)
      BY <1>1, <1>2, <1>3 DEF BodyCalls
    <2> QED
      BY <1>1, <2>1 DEF CallSet, CallShape, WriteOp
  <1>4. \A r \in Turns(body.inLoop) : r \in Rs
    BY Zero DEF Turns
  <1>5. ASSUME NEW r \in Turns(body.inLoop)
        PROVE  W[1][r] = <<>> /\ \A j \in DOMAIN calls : CallRight(M2, p, W, A, S, calls, j, r)
    <2>1. W[1][r] = <<>> /\ \A j \in DOMAIN calls : CallRight(M, p, W, A, S, calls, j, r)
      BY <1>1, <1>5 DEF BodyRight
    <2>2. ASSUME NEW j \in DOMAIN calls
          PROVE  CallRight(M2, p, W, A, S, calls, j, r)
      <3>1. CallRight(M, p, W, A, S, calls, j, r) /\ r \in Rs
        BY <1>4, <2>1
      <3> QED
        BY <1>2, <1>3, <3>1, CallKept
    <2> QED
      BY <2>1, <2>2
  <1>6. ASSUME NEW j \in DOMAIN calls, calls[j].op \in WriteOp, calls[j].idx \in RowIdx
        PROVE  Untouched(M2, p, calls[j].buf)
    <2>1. Untouched(M, p, calls[j].buf)
      BY <1>1, <1>6 DEF BodyRight
    <2>2. calls[j].buf \in B /\ calls[j].buf \in Buf
      BY <1>2, <1>3, <1>6 DEF WriteOp
    <2> QED
      BY <1>2, <2>1, <2>2 DEF Untouched, SameAt, Cells
  <1> QED
    BY <1>1, <1>5, <1>6 DEF BodyRight

(* What a call adds to an account. *)
SameTill(W, W2, l, loop) == \A j \in 1..(l + 1), r \in Turns(loop) : W2[j][r] = W[j][r]
CallAdds(M, p, w, W, A, S, l) ==
    /\ \A r \in Turns(w.inLoop) : CallRight(M, p, W, A, S, w.calls, l + 1, r)
    /\ w.calls[l + 1].op \in WriteOp /\ w.calls[l + 1].idx \in RowIdx =>
          Untouched(M, p, w.calls[l + 1].buf)
    /\ w.calls[l + 1].op # "reduction" /\ ~Made(w.calls, l + 1, "reduction") => \A r \in Rs : A[r] = Unit
    /\ w.calls[l + 1].op # "scan" /\ ~Made(w.calls, l + 1, "scan") => \A r \in Rs : S[r] = <<>>

(* The body being replayed makes a call. *)
LEMMA BodyGrows ==
    ASSUME NEW M, NEW M2, NEW body \in Body, NEW E, BodyCalls(body, E), E \subseteq Outputs, ~Written(body),
           NEW c, CallFits(body, E, c), SameAt(M, M2, Inputs \cup E),
           NEW l, NEW w, Extends(w, body, c, l),
           NEW p, NEW W, NEW A, NEW S, BodyRight(M, p, body, W, A, S),
           NEW W2, NEW A2, NEW S2, SameTill(W, W2, l, body.inLoop),
           c.op = "reduction" \/ A2 = A, c.op = "scan" \/ S2 = S,
           CallAdds(M2, p, w, W2, A2, S2, l)
    PROVE  BodyRight(M2, p, w, W2, A2, S2)
  <1>1. PICK calls, B : calls = body.calls /\ B = Inputs \cup E
    OBVIOUS
  <1>2. B \subseteq Buf /\ SameAt(M, M2, B) /\ calls \in Seq(CallSet)
    BY <1>1 DEF Buf, BodyCalls
  <1>3. /\ w.inLoop = body.inLoop /\ w.out = body.out /\ l \in Nat /\ DOMAIN calls = 1..l
        /\ Len(w.calls) = l + 1 /\ DOMAIN w.calls = 1..(l + 1)
        /\ w.calls[l + 1] = c /\ \A j \in 1..l : w.calls[j] = calls[j]
    BY <1>1 DEF Extends
  <1>4. /\ \A op : Made(w.calls, l + 1, op) <=> Made(calls, l + 1, op)
        /\ \A op : Made(w.calls, l + 2, op) <=> Made(calls, l + 1, op) \/ c.op = op
    BY <1>1, <1>3 DEF Extends
  <1>5. ASSUME NEW j \in 1..l
        PROVE  /\ calls[j].op \in CallOp /\ calls[j].op \notin WriteOp
               /\ calls[j].op \in {"load", "store", "atomic", "store_reduction"} => calls[j].buf \in B
               /\ calls[j].op \in {"reduction", "store_reduction"} => A2 = A
               /\ calls[j].op = "scan" => S2 = S
    <2>1. calls[j] \in CallSet /\ CallShape(body, E, j) /\ calls[j].op \notin WriteOp
      BY <1>1, <1>2, <1>3, <1>5 DEF BodyCalls, Written
    <2>2. calls[j].op \in CallOp /\ (calls[j].op = "load" => calls[j].buf \in B)
      BY <1>1, <2>1 DEF CallSet, CallShape
    <2>3. Made(calls, l + 1, calls[j].op)
      BY <1>3, <1>5 DEF Made
    <2>4. c.op \in {"reduction", "scan"} => c.op # calls[j].op
      <3>1. c.op \in {"reduction", "scan"} => ~Made(calls, l + 1, c.op)
        <4>1. Len(calls) = l
          BY <1>1 DEF Extends
        <4> QED
          BY <1>1, <4>1 DEF CallFits
      <3> QED
        BY <2>3, <3>1
    <2> QED
      BY <2>1, <2>2, <2>4 DEF WriteOp
  <1>6. \A r \in Turns(body.inLoop) : r \in Rs
    BY Zero DEF Turns
  <1>7. ASSUME NEW r \in Turns(body.inLoop)
        PROVE  W2[1][r] = <<>> /\ \A j \in DOMAIN w.calls : CallRight(M2, p, W2, A2, S2, w.calls, j, r)
    <2>1. W[1][r] = <<>> /\ \A j \in 1..l : CallRight(M, p, W, A, S, calls, j, r)
      BY <1>1, <1>3, <1>7 DEF BodyRight
    <2>2. W2[1][r] = <<>>
      <3>1. 1 \in 1..(l + 1)
        BY <1>3
      <3> QED
        BY <1>7, <2>1, <3>1 DEF SameTill
    <2>3. ASSUME NEW j \in 1..l
          PROVE  CallRight(M2, p, W2, A2, S2, w.calls, j, r)
      <3>1. CallRight(M, p, W, A, S, calls, j, r) /\ r \in Rs
        BY <1>6, <2>1
      <3>2. j \in 1..(l + 1) /\ j + 1 \in 1..(l + 1)
        BY <1>3
      <3>3. W2[j][r] = W[j][r] /\ W2[j + 1][r] = W[j + 1][r]
        BY <1>7, <3>2 DEF SameTill
      <3>4. w.calls[j] = calls[j]
        BY <1>3
      <3>5. PICK calls2 : calls2 = w.calls
        OBVIOUS
      <3>6. CallRight(M2, p, W2, A2, S2, calls2, j, r)
        BY <1>2, <1>5, <3>1, <3>3, <3>4, <3>5, CallKept
      <3> QED
        BY <3>5, <3>6
    <2>4. CallRight(M2, p, W2, A2, S2, w.calls, l + 1, r)
      BY <1>3, <1>7 DEF CallAdds
    <2>5. \A j \in 1..(l + 1) : j \in 1..l \/ j = l + 1
      BY <1>3
    <2> QED
      BY <1>3, <2>2, <2>3, <2>4, <2>5
  <1>8. ~Made(w.calls, Len(w.calls) + 1, "reduction") => \A r \in Rs : A2[r] = Unit
    <2>1. Len(w.calls) + 1 = l + 2
      BY <1>3
    <2> QED
      BY <1>3, <1>4, <2>1 DEF CallAdds
  <1>9. ~Made(w.calls, Len(w.calls) + 1, "scan") => \A r \in Rs : S2[r] = <<>>
    <2>1. Len(w.calls) + 1 = l + 2
      BY <1>3
    <2> QED
      BY <1>3, <1>4, <2>1 DEF CallAdds
  <1>10. ASSUME NEW j \in DOMAIN w.calls, w.calls[j].op \in WriteOp, w.calls[j].idx \in RowIdx
         PROVE  Untouched(M2, p, w.calls[j].buf)
    <2>1. j = l + 1
      BY <1>3, <1>5, <1>10
    <2> QED
      BY <1>10, <2>1 DEF CallAdds
  <1> QED
    BY <1>3, <1>7, <1>8, <1>9, <1>10 DEF BodyRight

-----------------------------------------------------------------------------
(* The account of the region being built, at point p. *)
Now(d, v, r) == End(d, Open, v, r)
RowFits(M, p) ==
    /\ M \in Row /\ InputsKept(M, p)
    /\ \A o \in Outputs : written[o] = "no" => \A t \in Rs : M[<<o, t>>] = Initially(p, <<o, t>>)
Emitted(M, d, p) ==
    /\ \A n \in DOMAIN outer : SectionRight(M, d, p, outer[n])
    /\ status = "building" => SectionRight(M, d, p, Open)

(* What the LoopBody holds is what the account of its calls says. *)
Held(d, r) == [i \in DOMAIN child.vals |-> Now(d, child.vals[i], r)]
Linked(d, W, A) ==
    /\ child.mode \in {"body", "scanned"} =>
          \A r \in Turns(active) : W[Len(Current.calls) + 1][r] = Held(d, r)
    /\ child.mode = "reduced" => \A r \in Rs : A[r] = d[child.vals[1]][r]
Called(M, d, p) ==
    \A n \in DOMAIN bodies :
        \E W, A, S : BodyRight(M, p, bodies[n], W, A, S) /\ (n = Len(bodies) => Linked(d, W, A))

(* What is forwarded is what is in memory. *)
StoreTold(M, d, key) ==
    fwd[key] # None /\ written[key[1]] # "scatter" =>
        \A r \in Turns(active) : Now(d, fwd[key], r) = M[<<key[1], Place(key[2], r)>>]
ReductionTold(M, d, key) ==
    fwdRed[key] # None => d[fwdRed[key]][Last1] = M[<<key[1], 0>>]
Forwards(M, d) == \A key \in Key : StoreTold(M, d, key) /\ ReductionTold(M, d, key)

Account(M, d, p) ==
    /\ d \in History
    /\ RowFits(M, p)
    /\ Emitted(M, d, p)
    /\ Called(M, d, p)
    /\ Forwards(M, d)

(* Two accounts of one step agree on what was known before it. *)
Agrees(M, d, M2, d2) == Agree(M, d, M2, d2, Known, Reached)

(* What is reached are buffers, the inputs among them. *)
LEMMA ReachedIs == Reached \subseteq Buf /\ Inputs \subseteq Reached
  BY DEF Reached, Buf

(* What the open phase gains is right. *)
LEMMA EmittedMore ==
    ASSUME ShapeInv, status = "building", NEW M, NEW d, NEW M2, NEW d2, NEW p, Emitted(M, d, p),
           Agrees(M, d, M2, d2),
           NEW added \in Seq(Stmt), NEW t \in Seq(Stmt), NEW f \in Seq(Stmt),
           Initialized(added) \cap Known = {}, MoreRight(M2, d2, p, Open, added, t, f),
           Open' = Grown(Open, added, t, f), UNCHANGED <<outer, status>>
    PROVE  Emitted(M2, d2, p)'
  <1>1. PICK K, B, o : K = Known /\ B = Reached /\ o = Open
    OBVIOUS
  <1>2. Agree(M, d, M2, d2, K, B) /\ B \subseteq Buf
    BY <1>1, ReachedIs DEF Agrees
  <1>3. SectionRight(M2, d2, p, Grown(o, added, t, f))
    <2>1. PICK before : before = WrittenBefore(outer, Len(outer) + 1)
      OBVIOUS
    <2>2. Fits(before, K, B, o) /\ SectionRight(M, d, p, o)
      BY <1>1, <2>1 DEF ShapeInv, PhaseFits, Emitted
    <2>3. Initialized(added) \cap K = {} /\ MoreRight(M2, d2, p, o, added, t, f)
      BY <1>1
    <2> QED
      BY <1>2, <2>2, <2>3, SectionGrows
  <1>4. ASSUME NEW n \in DOMAIN outer
        PROVE  SectionRight(M2, d2, p, outer[n])
    <2>1. PICK before, sec : before = WrittenBefore(outer, n) /\ sec = outer[n]
      OBVIOUS
    <2>2. Fits(before, K, B, sec) /\ SectionRight(M, d, p, sec)
      BY <1>1, <2>1 DEF ShapeInv, SectionsFit, Emitted
    <2>3. SectionRight(M2, d2, p, sec)
      BY <1>2, <2>2, SectionKept
    <2> QED
      BY <2>1, <2>3
  <1> QED
    BY <1>1, <1>3, <1>4 DEF Emitted

(* Known locals are worth what they were. *)
LEMMA NowKept ==
    ASSUME TypeOK, NEW M, NEW d, NEW M2, NEW d2, Agrees(M, d, M2, d2),
           NEW added \in Seq(Stmt), NEW t \in Seq(Stmt), NEW f,
           Initialized(added) \cap Known = {}, Apart(t, Known),
           Open' = Grown(Open, added, t, f), NEW v \in Known, NEW r
    PROVE  Now(d2, v, r)' = Now(d, v, r)
  <1>1. PICK K, o : K = Known /\ o = Open
    OBVIOUS
  <1>2. o.inits \in Seq(Stmt) /\ o.body \in Seq(Stmt)
    BY <1>1, PhaseSectionType DEF Open, TypeOK
  <1>3. (\A w \in K : d2[w] = d[w]) /\ Initialized(added) \cap K = {} /\ Apart(t, K) /\ v \in K
    BY <1>1 DEF Agrees, Agree
  <1>4. End(d2, Grown(o, added, t, f), v, r) = End(d, o, v, r)
    BY <1>2, <1>3, EndKept
  <1> QED
    BY <1>1, <1>4 DEF Now

(* Entries of the tables stay right. *)
NowSame(d, d2) == \A v \in Known, r \in Rs : Now(d2, v, r)' = Now(d, v, r)

(* An entry of forwarded that is kept stays right, *)
LEMMA StoreToldStays ==
    ASSUME ShapeInv, NEW M, NEW d, NEW M2, NEW d2, Agrees(M, d, M2, d2), NowSame(d, d2),
           NEW key \in Key, StoreTold(M, d, key), fwd'[key] = fwd[key], UNCHANGED active,
           fwd[key] # None => written'[key[1]] = written[key[1]]
    PROVE  StoreTold(M2, d2, key)'
  <1> SUFFICES ASSUME fwd[key] # None, written[key[1]] # "scatter", NEW r \in Turns(active)
               PROVE  Now(d2, fwd[key], r)' = M2[<<key[1], Place(key[2], r)>>]
    BY DEF StoreTold
  <1>1. r \in Rs /\ Place(key[2], r) \in Rs
    BY Zero, PlaceIn DEF Turns
  <1>2. fwd[key] \in Known /\ key[1] \in Reached /\ key[1] \in Buf
    BY DEF ShapeInv, TablesKnown, Remembered, Reached, Buf
  <1>3. PICK a : a = <<key[1], Place(key[2], r)>>
    OBVIOUS
  <1>4. a \in Cells /\ a[1] \in Reached
    BY <1>1, <1>2, <1>3 DEF Cells
  <1>5. M2[a] = M[a]
    BY <1>4 DEF Agrees, Agree
  <1>6. Now(d, fwd[key], r) = M[a]
    BY <1>3 DEF StoreTold
  <1>7. PICK v : v = fwd[key]
    OBVIOUS
  <1>8. Now(d2, v, r)' = Now(d, v, r)
    BY <1>1, <1>2, <1>7 DEF NowSame
  <1> QED
    BY <1>3, <1>5, <1>6, <1>7, <1>8

(* and one of forwarded_reductions. *)
LEMMA ReductionToldStays ==
    ASSUME ShapeInv, NEW M, NEW d, NEW M2, NEW d2, Agrees(M, d, M2, d2),
           NEW key \in Key, ReductionTold(M, d, key), fwdRed'[key] = fwdRed[key]
    PROVE  ReductionTold(M2, d2, key)'
  <1> SUFFICES ASSUME fwdRed[key] # None
               PROVE  d2[fwdRed[key]][Last1] = M2[<<key[1], 0>>]
    BY DEF ReductionTold
  <1>1. fwdRed[key] \in Known /\ key[1] \in Reached /\ key[1] \in Buf
    BY DEF ShapeInv, TablesKnown, Remembered, Reached, Buf
  <1>2. PICK a : a = <<key[1], 0>>
    OBVIOUS
  <1>3. a \in Cells /\ a[1] \in Reached
    BY <1>1, <1>2, Zero DEF Cells
  <1>4. M2[a] = M[a] /\ d2[fwdRed[key]] = d[fwdRed[key]]
    BY <1>1, <1>3 DEF Agrees, Agree
  <1> QED
    BY <1>2, <1>4 DEF ReductionTold

(* The calls of the other bodies stay right, and the current one makes a   *)
(* call that is.                                                           *)
LEMMA CalledMore ==
    ASSUME BodiesInv, child.mode # "idle", NEW c, CallFits(Current, Closed, c), Records(c),
           NEW M, NEW d, NEW M2, NEW d2, NEW p, Called(M, d, p), Agrees(M, d, M2, d2),
           NEW W, NEW A, NEW S, BodyRight(M, p, Current, W, A, S),
           NEW W2, NEW A2, NEW S2, NEW l, l = Len(Current.calls), SameTill(W, W2, l, active),
           c.op = "reduction" \/ A2 = A, c.op = "scan" \/ S2 = S,
           CallAdds(M2, p, WithCall(Current, c), W2, A2, S2, l), Linked(d2, W2, A2)'
    PROVE  Called(M2, d2, p)'
  <1>1. c \in CallSet
    BY DEF CallFits
  <1>2. bodies \in Seq(Body) /\ bodies # <<>> /\ ~Written(Current) /\ Current.inLoop = active
    BY DEF BodiesInv, Body
  <1>3. /\ Len(bodies') = Len(bodies) /\ Len(bodies) \in Nat \ {0} /\ DOMAIN bodies = 1..Len(bodies)
        /\ DOMAIN bodies' = DOMAIN bodies /\ Current \in Body /\ Current' = WithCall(Current, c)
        /\ \A n \in DOMAIN bodies : n # Len(bodies) => bodies'[n] = bodies[n]
    BY <1>1, <1>2, RecordsIs
  <1>4. PICK m, B : m = Len(bodies) /\ B = Reached
    OBVIOUS
  <1>5. SameAt(M, M2, B) /\ Inputs \subseteq B
    BY <1>4, ReachedIs DEF Agrees, Agree, SameAt
  <1>6. \A n \in 1..m : n # m => bodies[n].out \in B
    <2> SUFFICES ASSUME NEW n \in 1..m, n # m
                 PROVE  bodies[n].out \in B
      OBVIOUS
    <2>1. m \in Nat /\ n \in DOMAIN bodies /\ m = Len(bodies)
      BY <1>3, <1>4
    <2>2. n < Len(bodies)
      BY <2>1
    <2>3. BodyCalls(bodies[n], OutsBefore(bodies, n)) /\ written[bodies[n].out] # "no"
      BY <2>1, <2>2 DEF BodiesInv, Finished
    <2> QED
      BY <1>4, <2>3 DEF BodyCalls, Reached
  <1>7. \A n \in 1..m : OutsBefore(bodies, n) \subseteq B /\ OutsBefore(bodies, n) \subseteq Outputs
    <2> SUFFICES ASSUME NEW n \in 1..m, NEW h \in 1..m, h < n
                 PROVE  bodies[h].out \in B /\ bodies[h].out \in Outputs
      BY <1>3, <1>4 DEF OutsBefore
    <2>1. m \in Nat /\ h \in DOMAIN bodies
      BY <1>3, <1>4
    <2>2. h # m
      BY <2>1, SMTT(60)
    <2> QED
      BY <1>6, <2>1, <2>2 DEF BodiesInv, BodyCalls
  <1>8. ASSUME NEW n \in 1..m, n # m
        PROVE  \E W1, A1, S1 : BodyRight(M2, p, bodies'[n], W1, A1, S1)
    <2>1. PICK W1, A1, S1 : BodyRight(M, p, bodies[n], W1, A1, S1)
      BY <1>3, <1>4, <1>8 DEF Called
    <2>2. PICK b, E : b = bodies[n] /\ E = OutsBefore(bodies, n)
      OBVIOUS
    <2>3. BodyCalls(b, E) /\ E \subseteq Outputs
      BY <1>3, <1>4, <1>7, <2>2 DEF BodiesInv
    <2>4. SameAt(M, M2, Inputs \cup E \cup {b.out})
      BY <1>5, <1>6, <1>7, <1>8, <2>2 DEF SameAt
    <2>5. BodyRight(M2, p, b, W1, A1, S1)
      BY <2>1, <2>2, <2>3, <2>4, BodyKept
    <2> QED
      BY <1>3, <1>4, <1>8, <2>2, <2>5, ZenonT(60)
  <1>9. BodyRight(M2, p, Current', W2, A2, S2)
    <2>1. PICK b, E, w : b = Current /\ E = Closed /\ w = WithCall(b, c)
      OBVIOUS
    <2>2. Extends(w, b, c, l)
      BY <1>1, <1>3, <2>1, WithCallIs
    <2>3. b \in Body /\ BodyCalls(b, E) /\ E \subseteq Outputs /\ ~Written(b) /\ E \subseteq B
      BY <1>2, <1>3, <1>4, <1>7, <2>1 DEF BodiesInv, Closed, Current
    <2>4. SameAt(M, M2, Inputs \cup E)
      BY <1>5, <2>3 DEF SameAt
    <2>5. CallFits(b, E, c) /\ BodyRight(M, p, b, W, A, S) /\ SameTill(W, W2, l, b.inLoop) /\ CallAdds(M2, p, w, W2, A2, S2, l)
      BY <1>2, <2>1
    <2>6. BodyRight(M2, p, w, W2, A2, S2)
      BY <2>2, <2>3, <2>4, <2>5, BodyGrows
    <2> QED
      BY <1>3, <2>1, <2>6
  <1>10. Current' = bodies'[m]
    BY <1>3, <1>4 DEF Current
  <1>11. ASSUME NEW n \in DOMAIN bodies'
         PROVE  \E W1, A1, S1 : BodyRight(M2, p, bodies'[n], W1, A1, S1)
                                /\ (n = Len(bodies') => Linked(d2, W1, A1)')
    <2>1. CASE n = m
      BY <1>9, <1>10, <2>1
    <2>2. CASE n # m
      BY <1>3, <1>4, <1>8, <1>11, <2>2
    <2> QED
      BY <2>1, <2>2
  <1> QED
    BY <1>11 DEF Called

(* What the LoopBody holds after it has been handed more. *)
LEMMA HeldMore ==
    ASSUME TypeOK, ShapeInv, NEW d, NEW d2, NowSame(d, d2), NEW vs \in Seq(Var), NEW r \in Rs,
           child'.vals = child.vals \o vs, NEW held, held = [i \in DOMAIN vs |-> Now(d2, vs[i], r)']
    PROVE  Held(d2, r)' = Held(d, r) \o held
  <1>1. PICK vals, n, m : vals = child.vals /\ n = Len(vals) /\ m = Len(vs)
    OBVIOUS
  <1>2. PICK w : w = child'.vals
    OBVIOUS
  <1>3. vals \in Seq(Var) /\ n \in Nat /\ m \in Nat /\ DOMAIN vals = 1..n /\ DOMAIN vs = 1..m
    BY <1>1 DEF TypeOK, ChildOK
  <1>4. Joined(Var, w, vals, vs, n, m)
    BY <1>1, <1>2, <1>3, ConcatAt
  <1>5. PICK a, b, g : /\ a = Held(d, r) /\ b = Held(d2, r)'
                       /\ g = a \o held
    OBVIOUS
  <1>6. a = [i \in 1..n |-> Now(d, vals[i], r)] /\ b = [i \in DOMAIN w |-> Now(d2, w[i], r)']
    BY <1>1, <1>2, <1>3, <1>5 DEF Held
  <1>7. \A i \in 1..n : Now(d2, vals[i], r)' = Now(d, vals[i], r)
    BY <1>1, <1>3 DEF NowSame, ShapeInv, ValuesKnown
  <1>8. PICK X : X = {a[i] : i \in 1..n} \cup {held[i] : i \in 1..m}
    OBVIOUS
  <1>9. a \in Seq(X) /\ Len(a) = n /\ held \in Seq(X) /\ Len(held) = m
    <2>1. a \in [1..n -> X] /\ held \in [1..m -> X]
      BY <1>3, <1>6, <1>8
    <2> QED
      BY <1>3, <2>1, FunctionIsSeq
  <1>10. Joined(X, g, a, held, n, m)
    BY <1>5, <1>9, ConcatAt
  <1>11. DOMAIN b = 1..(n + m) /\ DOMAIN g = 1..(n + m)
    BY <1>4, <1>6, <1>10 DEF Joined
  <1>12. ASSUME NEW i \in 1..(n + m)
         PROVE  b[i] = g[i]
    <2>1. CASE i \in 1..n
      <3>1. g[i] = a[i] /\ w[i] = vals[i] /\ i \in DOMAIN w
        BY <1>4, <1>10, <2>1 DEF Joined
      <3> QED
        BY <1>6, <1>7, <2>1, <3>1
    <2>2. CASE i \notin 1..n
      <3>1. PICK j \in 1..m : i = n + j
        <4>1. i - n \in 1..m /\ i = n + (i - n)
          BY <1>3, <2>2
        <4> QED
          BY <4>1
      <3>2. g[i] = held[j] /\ w[i] = vs[j] /\ i \in DOMAIN w
        BY <1>4, <1>10, <3>1 DEF Joined
      <3>3. held[j] = Now(d2, vs[j], r)'
        BY <1>3, <3>1
      <3> QED
        BY <1>6, <3>2, <3>3
    <2> QED
      BY <2>1, <2>2
  <1>13. b = [i \in DOMAIN b |-> b[i]] /\ g = [i \in DOMAIN g |-> g[i]]
    BY <1>6, <1>10 DEF Joined
  <1> QED
    BY <1>5, <1>11, <1>12, <1>13

(* The values after one more call. *)
Wider(W, l, x) == [j \in 1..(l + 2) |-> IF j = l + 2 THEN x ELSE W[j]]
WiderBy(W2, W, l, x, loop) ==
    /\ SameTill(W, W2, l, loop) /\ W2[l + 2] = x
    /\ \A r \in Turns(loop) : W2[l + 1][r] = W[l + 1][r] /\ W2[(l + 1) + 1][r] = x[r]

(* One more column changes no other. *)
LEMMA WiderIs ==
    ASSUME NEW W, NEW l \in Nat, NEW x, NEW loop, NEW W2, W2 = Wider(W, l, x)
    PROVE  WiderBy(W2, W, l, x, loop)
  <1>1. ASSUME NEW j \in 1..(l + 1)
        PROVE  W2[j] = W[j]
    <2>1. j \in 1..(l + 2) /\ j # l + 2
      BY <1>1
    <2> QED
      BY <2>1 DEF Wider
  <1>2. W2[l + 2] = x /\ (l + 1) + 1 = l + 2 /\ l + 1 \in 1..(l + 1)
    BY DEF Wider
  <1> QED
    BY <1>1, <1>2 DEF WiderBy, SameTill

(* The current body's account, and what links it to the LoopBody. *)
LEMMA CurrentCalled ==
    ASSUME BodiesInv, child.mode # "idle", NEW M, NEW d, NEW p, Called(M, d, p)
    PROVE  /\ Current \in Body /\ Len(Current.calls) \in Nat /\ Current.inLoop = active
           /\ \E W, A, S : BodyRight(M, p, Current, W, A, S) /\ Linked(d, W, A)
  <1>1. bodies \in Seq(Body) /\ bodies # <<>> /\ Current.inLoop = active
    BY DEF BodiesInv, Body
  <1>2. PICK n : n = Len(bodies)
    OBVIOUS
  <1>3. n \in DOMAIN bodies /\ Current = bodies[n]
    BY <1>1, <1>2 DEF Current
  <1>4. Current \in Body /\ Len(Current.calls) \in Nat
    <2>1. Current \in Body
      BY <1>1, <1>3
    <2>2. Current.calls \in Seq(CallSet)
      BY <2>1 DEF Body
    <2> QED
      BY <2>1, <2>2
  <1>5. \E W, A, S : BodyRight(M, p, bodies[n], W, A, S) /\ Linked(d, W, A)
    BY <1>2, <1>3 DEF Called
  <1> QED
    BY <1>1, <1>3, <1>4, <1>5

(* What has not been made is still at its identity. *)
LEMMA CallAddsIs ==
    ASSUME NEW M, NEW M2, NEW p, NEW body, NEW c, NEW l, NEW w, Extends(w, body, c, l),
           NEW W, NEW A, NEW S, BodyRight(M, p, body, W, A, S),
           NEW W2, NEW A2, NEW S2, c.op = "reduction" \/ A2 = A, c.op = "scan" \/ S2 = S,
           \A r \in Turns(body.inLoop) : CallRight(M2, p, W2, A2, S2, w.calls, l + 1, r),
           c.op \in WriteOp /\ c.idx \in RowIdx => Untouched(M2, p, c.buf)
    PROVE  CallAdds(M2, p, w, W2, A2, S2, l)
  <1>1. /\ w.inLoop = body.inLoop /\ w.calls[l + 1] = c /\ Len(body.calls) = l /\ l \in Nat
    BY DEF Extends
  <1>2. \A op : Made(w.calls, l + 1, op) <=> Made(body.calls, l + 1, op)
    <2>1. l + 1 \in 1..(l + 1)
      BY <1>1
    <2> QED
      BY <2>1 DEF Extends
  <1>3. /\ ~Made(body.calls, l + 1, "reduction") => \A r \in Rs : A[r] = Unit
        /\ ~Made(body.calls, l + 1, "scan") => \A r \in Rs : S[r] = <<>>
    BY <1>1 DEF BodyRight
  <1> QED
    BY <1>1, <1>2, <1>3 DEF CallAdds

(* A load or an operation hands a value back. *)
LEMMA CalledReturns ==
    ASSUME TypeOK, ShapeInv, BodiesInv, child.mode \in {"body", "scanned"},
           NEW v \in Var, Returns(v), UNCHANGED active,
           NEW c, CallFits(Current, Closed, c), Records(c), c.op \in {"load", "compute"},
           NEW M, NEW d, NEW M2, NEW d2, NEW p, Called(M, d, p), Agrees(M, d, M2, d2), NowSame(d, d2),
           \A r \in Turns(active) :
              Now(d2, v, r)' = IF c.op = "load" THEN M2[Cell(c, r)] ELSE MixAll(Chosen(Held(d, r), c.is))
    PROVE  Called(M2, d2, p)'
  <1>1. PICK l, w, body : l = Len(Current.calls) /\ w = WithCall(Current, c) /\ body = Current
    OBVIOUS
  <1>2. child.mode # "idle"
    OBVIOUS
  <1>3. /\ body \in Body /\ l \in Nat /\ body.inLoop = active
        /\ \E W, A, S : BodyRight(M, p, body, W, A, S) /\ Linked(d, W, A)
    BY <1>1, <1>2, CurrentCalled
  <1>4. PICK W, A, S : BodyRight(M, p, body, W, A, S) /\ Linked(d, W, A)
    BY <1>3
  <1>5. PICK x, W2 : x = [r \in Rs |-> Held(d2, r)'] /\ W2 = Wider(W, l, x)
    OBVIOUS
  <1>6. WiderBy(W2, W, l, x, active)
    BY <1>3, <1>5, WiderIs
  <1>7. c \in CallSet /\ Extends(w, body, c, l)
    <2>1. c \in CallSet
      BY DEF CallFits
    <2> QED
      BY <1>1, <1>3, <2>1, WithCallIs
  <1>8. \A r \in Turns(active) : r \in Rs
    BY Zero DEF Turns
  <1>9. ASSUME NEW r \in Turns(active)
        PROVE  CallRight(M2, p, W2, A, S, w.calls, l + 1, r)
    <2>1. w.calls[l + 1] = c
      BY <1>7 DEF Extends
    <2>2. W2[l + 1][r] = Held(d, r) /\ W2[(l + 1) + 1][r] = Held(d2, r)'
      BY <1>1, <1>4, <1>5, <1>6, <1>8, <1>9 DEF WiderBy, Linked
    <2>3. Held(d2, r)' = Append(Held(d, r), Now(d2, v, r)')
      <3>1. child'.vals = child.vals \o <<v>> /\ <<v>> \in Seq(Var)
        BY DEF Returns, TypeOK, ChildOK
      <3>2. PICK held : held = [i \in DOMAIN <<v>> |-> Now(d2, <<v>>[i], r)']
        OBVIOUS
      <3>3. Held(d2, r)' = Held(d, r) \o held
        <4>1. PICK vs : vs = <<v>>
          OBVIOUS
        <4>2. vs \in Seq(Var) /\ child'.vals = child.vals \o vs /\ held = [i \in DOMAIN vs |-> Now(d2, vs[i], r)']
          BY <3>1, <3>2, <4>1
        <4> QED
          BY <1>8, <1>9, <4>2, HeldMore
      <3>4. PICK y, h : y = Now(d2, v, r)' /\ h = Held(d, r)
        OBVIOUS
      <3>5. held = <<y>>
        BY <3>2, <3>4
      <3>6. h \o <<y>> = Append(h, y)
        <4>1. PICK vals, n : vals = child.vals /\ n = Len(vals)
          OBVIOUS
        <4>2. vals \in Seq(Var) /\ n \in Nat /\ DOMAIN vals = 1..n
          BY <4>1 DEF TypeOK, ChildOK
        <4>3. PICK X : X = {h[i] : i \in 1..n} \cup {y}
          OBVIOUS
        <4>4. h \in [1..n -> X]
          BY <3>4, <4>1, <4>2, <4>3 DEF Held
        <4>5. h \in Seq(X) /\ y \in X
          BY <4>2, <4>3, <4>4, FunctionIsSeq
        <4> QED
          BY <4>5
      <3> QED
        BY <3>3, <3>4, <3>5, <3>6
    <2>4. W2[(l + 1) + 1][r] = Appended(M2, S, W2, c, l + 1, r)
      <3>1. CASE c.op = "load"
        BY <1>9, <2>2, <2>3, <3>1 DEF Appended
      <3>2. CASE c.op = "compute"
        BY <1>9, <2>2, <2>3, <3>2 DEF Appended
      <3> QED
        BY <3>1, <3>2
    <2> QED
      BY <2>1, <2>4 DEF CallRight
  <1>10. CallAdds(M2, p, w, W2, A, S, l)
    <2>1. c.op \notin WriteOp
      BY DEF WriteOp
    <2>2. \A r \in Turns(body.inLoop) : CallRight(M2, p, W2, A, S, w.calls, l + 1, r)
      BY <1>3, <1>9
    <2> QED
      BY <1>4, <1>7, <2>1, <2>2, CallAddsIs
  <1>11. Linked(d2, W2, A)'
    <2>1. child'.mode = child.mode
      BY ReturnsKeepsChild
    <2>2. Current' = w /\ Len(w.calls) + 1 = l + 2
      <3>1. bodies \in Seq(Body) /\ bodies # <<>>
        BY DEF BodiesInv, Body
      <3>2. Current' = w
        BY <1>1, <1>7, <3>1, RecordsIs
      <3> QED
        BY <1>3, <1>7, <3>2 DEF Extends
    <2>3. ASSUME NEW r \in Turns(active)
          PROVE  W2[l + 2][r] = Held(d2, r)'
      BY <1>5, <1>6, <1>8, <2>3 DEF WiderBy
    <2> QED
      BY <2>1, <2>2, <2>3 DEF Linked
  <1>12. SameTill(W, W2, l, active) /\ BodyRight(M, p, Current, W, A, S)
    BY <1>1, <1>4, <1>6 DEF WiderBy
  <1> QED
    BY <1>1, <1>2, <1>10, <1>11, <1>12, CalledMore

-----------------------------------------------------------------------------
(* The accounts of a step: what the current body is handed. *)
(* The locals that a section assigns or initializes are among those it     *)
(* declares.                                                               *)
LEMMA SectionAssigns ==
    ASSUME NEW before, NEW K, NEW B, NEW sec, Fits(before, K, B, sec),
           NEW base, BodyReads(sec.body, sec.inits, base), NEW v \in Var,
           \/ v \in Initialized(sec.inits)
           \/ \E j \in DOMAIN sec.body : sec.body[j].dst = v
    PROVE  v \in Names(Declarations(sec))
  <1>1. PICK ini, seq : ini = sec.inits /\ seq = sec.body
    OBVIOUS
  <1>2. ini \in Seq(Stmt) /\ seq \in Seq(Stmt) /\ BodyReads(seq, ini, base) /\ BodySound(seq, sec.loop)
    BY <1>1 DEF Fits, InitsSound, BodySound, ProperAll
  <1>3. Names(Declarations(sec)) = Names(ini) \cup Names(seq)
    BY <1>1, <1>2, NamesConcat DEF Declarations
  <1>4. ASSUME v \in Initialized(ini)
        PROVE  v \in Names(ini)
    BY <1>4 DEF Initialized, Declares, Names, Declaring
  <1>5. ASSUME NEW j \in DOMAIN seq, seq[j].dst = v
        PROVE  v \in Names(ini) \cup Names(seq)
    <2>1. seq[j] \in Stmt /\ seq[j].op \in Op /\ ~Writes(seq[j]) /\ seq[j].op \notin {"init", "uninit"}
      <3>1. seq[j].op \notin {"init", "uninit"} /\ (Writes(seq[j]) => seq[j].dst = None)
        BY <1>2, <1>5 DEF BodySound
      <3>2. seq[j] \in Stmt
        BY <1>2, <1>5
      <3>3. seq[j].op \in Op
        BY <3>2 DEF Stmt
      <3>4. v # None
        BY NamesAssumption
      <3> QED
        BY <1>5, <3>1, <3>2, <3>3, <3>4
    <2>2. CASE Declaring(seq[j])
      BY <1>5, <2>2 DEF Names
    <2>3. CASE seq[j].op \in {"update", "move"}
      <3>1. v \in Declares(ini, "init") \cup Declares(ini, "uninit")
        BY <1>2, <1>5, <2>3 DEF BodyReads
      <3> QED
        BY <1>4, <3>1 DEF Initialized
    <2> QED
      BY <2>1, <2>2, <2>3 DEF Op, Declaring, Writes
  <1> QED
    BY <1>1, <1>3, <1>4, <1>5

(* What a section exports it keeps in scope. *)
LEMMA ExportsKept ==
    ASSUME NEW sec, DOMAIN sec.body = 1..Len(sec.body), Len(sec.body) \in Nat
    PROVE  Exports(sec) \subseteq Kept(sec)
  <1>1. CASE sec.loop
    BY <1>1 DEF Exports, Kept, Initialized
  <1>2. CASE ~sec.loop
    BY <1>2 DEF Exports, Kept, Given, AssignedBy, Gives, Writes
  <1> QED
    BY <1>1, <1>2

(* What an earlier section exports, the open phase does not assign: it     *)
(* holds its last value.                                                   *)
LEMMA ExportedNow ==
    ASSUME NamesInv, ShapeInv, status = "building", NEW v \in Exported, NEW d, NEW r
    PROVE  Now(d, v, r) = d[v][Last1]
  <1>1. PICK m \in DOMAIN outer : m < Len(outer) + 1 /\ v \in Exports(outer[m]) /\ v \in Var
    BY DEF Exported, ExportsBefore
  <1>2. PICK sec : sec = outer[m]
    OBVIOUS
  <1>3. Fits(WrittenBefore(outer, m), Known, Reached, sec) /\ BodyReads(sec.body, sec.inits, ExportsBefore(outer, m))
    BY <1>2 DEF ShapeInv, SectionsFit, NamesInv, IInv, ReadsSettled, SectionsSettled
  <1>4. v \in Names(Declarations(sec))
    <2>1. v \in Kept(sec)
      <3>1. DOMAIN sec.body = 1..Len(sec.body) /\ Len(sec.body) \in Nat
        BY <1>3 DEF Fits, BodySound, ProperAll
      <3> QED
        BY <1>1, <1>2, <3>1, ExportsKept
    <2>2. v \in Initialized(sec.inits) \/ \E j \in DOMAIN sec.body : sec.body[j].dst = v
      BY <2>1 DEF Kept, AssignedBy
    <2> QED
      BY <1>1, <1>3, <2>2, SectionAssigns
  <1>5. v \notin Names(Flushed) \cup Names(inits)
    BY <1>2, <1>4 DEF NamesInv, SectionsNamed, SectionNames
  <1>6. PICK now : now = Open
    OBVIOUS
  <1>7. Names(Declarations(now)) = Names(inits) \cup Names(Flushed)
    <2>1. inits \in Seq(Stmt) /\ Flushed \in Seq(Stmt)
      BY PhaseSectionType DEF NamesInv, IInv, TypeOK
    <2> QED
      BY <1>6, <2>1, NamesConcat DEF Declarations, Open
  <1>8. ~(v \in Initialized(now.inits) \/ \E j \in DOMAIN now.body : now.body[j].dst = v)
    <2>1. Fits(WrittenBefore(outer, Len(outer) + 1), Known, Reached, now)
      BY <1>6 DEF ShapeInv, PhaseFits
    <2>2. BodyReads(now.body, now.inits, Exported)
      BY <1>6 DEF Open, NamesInv, IInv, ReadsSettled, PhaseSettled
    <2> QED
      BY <1>1, <1>5, <1>7, <2>1, <2>2, SectionAssigns
  <1> QED
    BY <1>6, <1>8 DEF Now, End, Worth, Assigned

(* A forwarded value is what a load would find.                            *)
LEMMA ForwardedIs ==
    ASSUME IInv, NamesInv, ShapeInv, child.mode # "idle",
           NEW b \in Buf, NEW k \in Idx, Readable(b, k), NEW v, v = Forwarded(<<b, k>>), v # None,
           NEW M, NEW d, Forwards(M, d), NEW r \in Turns(active)
    PROVE  v \in Known /\ Now(d, v, r) = M[<<b, Place(k, r)>>]
  <1>1. PICK key : key = <<b, k>>
    OBVIOUS
  <1>2. key \in Key /\ key[1] = b /\ key[2] = k
    BY <1>1 DEF Key
  <1>3. StoreTold(M, d, key) /\ ReductionTold(M, d, key)
    BY <1>2 DEF Forwards
  <1>4. status = "building"
    BY DEF NamesInv, Idle
  <1>5. Remembered(fwd[key], b) /\ Remembered(fwdRed[key], b)
    BY <1>2 DEF ShapeInv, TablesKnown
  <1>6. CASE fwd[key] # None
    <2>1. v = fwd[key]
      BY <1>1, <1>6 DEF Forwarded
    <2>2. b \in Outputs /\ v \in Known
      BY <1>5, <1>6, <2>1 DEF Remembered
    <2>3. written[b] # "scatter"
      BY <2>2, NamesAssumption DEF Readable
    <2> QED
      BY <1>2, <1>3, <1>6, <2>1, <2>2, <2>3 DEF StoreTold
  <1>7. CASE fwd[key] = None
    <2>1. v = fwdRed[key] /\ v # None
      BY <1>1, <1>7 DEF Forwarded
    <2>2. b \in Outputs /\ v \in Known
      BY <1>5, <2>1 DEF Remembered
    <2>3. k \in RowIdx /\ (v \in Exported \/ b \in notReady)
      BY <1>2, <2>1 DEF IInv, ReductionHolds
    <2>4. b \notin notReady /\ k \notin FullIdx
      BY <2>2, <2>3, NamesAssumption DEF Readable
    <2>5. Now(d, v, r) = d[v][Last1]
      BY <1>4, <2>3, <2>4, ExportedNow
    <2> QED
      BY <1>2, <1>3, <2>1, <2>2, <2>4, <2>5 DEF ReductionTold, Place
  <1> QED
    BY <1>6, <1>7

(* load, when the value is forwarded. *)
LEMMA LoadForwardedAccount ==
    ASSUME MemoryInv, NamesInv, ShapeInv, BodiesInv, NEW b \in Buf, NEW k \in Idx,
           LoadForwarded(b, k), Records(Call("load", b, k, <<>>)),
           NEW p, NEW M, NEW d, Account(M, d, p)
    PROVE  Account(M, d, p)'
  <1>1. TypeOK /\ IInv /\ child.mode # "idle" /\ child.mode \in {"body", "scanned"}
    BY DEF MemoryInv, IInv, LoadForwarded
  <1>2. PICK v : v = Forwarded(<<b, k>>)
    OBVIOUS
  <1>3. /\ Readable(b, k) /\ v # None /\ Returns(v)
        /\ UNCHANGED <<hasRed, enabled, notReady, written, markers, active, opened, outer, status>>
        /\ UNCHANGED <<block, bindings, inits, fins, fwd, fwdRed, count>>
    BY <1>2 DEF LoadForwarded, schedule, builder, handler, phase
  <1>4. v \in Known /\ \A r \in Turns(active) : Now(d, v, r) = M[<<b, Place(k, r)>>]
    <2>1. Forwards(M, d)
      BY DEF Account
    <2>2. ASSUME NEW r \in Turns(active)
          PROVE  v \in Known /\ Now(d, v, r) = M[<<b, Place(k, r)>>]
      BY <1>1, <1>2, <1>3, <2>1, ForwardedIs
    <2>3. 0 \in Turns(active)
      BY Zero DEF Turns
    <2> QED
      BY <2>2, <2>3
  <1>5. Open' = Open /\ \A w, r : Now(d, w, r)' = Now(d, w, r)
    BY <1>3 DEF Open, Flushed, Now
  <1>6. Agrees(M, d, M, d) /\ NowSame(d, d)
    BY <1>5 DEF Agrees, Agree, NowSame
  <1>7. PICK c : c = Call("load", b, k, <<>>)
    OBVIOUS
  <1>8. CallFits(Current, Closed, c) /\ c.op = "load" /\ c.buf = b /\ c.idx = k
    BY <1>7, LoadFits
  <1>9. Called(M, d, p)'
    <2>1. v \in Var
      BY <1>1, <1>2, <1>3 DEF TypeOK, Forwarded, Key
    <2>2. Called(M, d, p) /\ Records(c) /\ UNCHANGED active
      BY <1>3, <1>7 DEF Account
    <2>3. ASSUME NEW r \in Turns(active)
          PROVE  Now(d, v, r)' = IF c.op = "load" THEN M[Cell(c, r)] ELSE MixAll(Chosen(Held(d, r), c.is))
      BY <1>4, <1>5, <1>8 DEF Cell
    <2> QED
      BY <1>1, <1>3, <1>6, <1>8, <2>1, <2>2, <2>3, CalledReturns
  <1>10. RowFits(M, p)' /\ Emitted(M, d, p)' /\ Forwards(M, d)'
    BY <1>3, <1>5 DEF Account, RowFits, Emitted, Forwards, StoreTold, ReductionTold
  <1> QED
    BY <1>9, <1>10 DEF Account

(* Every local is worth a value. *)
LEMMA WorthType ==
    ASSUME NEW d \in History, NEW ins, NEW seq, NEW i, NEW v \in Var, NEW r \in Rs
    PROVE  Worth(d, ins, seq, i, v, r) \in Value
  <1>1. \A q \in Rs : d[v][q] \in Value
    BY DEF History
  <1>2. Last1 \in Rs /\ (r # 0 => r - 1 \in Rs)
    <2>1. Last1 \in Rs
      BY Zero DEF Last1
    <2>2. ASSUME r # 0
          PROVE  r - 1 \in Rs
      BY <2>2, SizesAssumption DEF Rs
    <2> QED
      BY <2>1, <2>2
  <1>3. Unit \in Value /\ Undef \in Value
    BY ValuesAssumption
  <1> QED
    BY <1>1, <1>2, <1>3 DEF Worth

(* The names handed out are names. *)
LEMMA KnownIs ==
    ASSUME TypeOK
    PROVE  Known \subseteq Var
  <1>1. count.tmp \in Nat /\ count.acc \in Nat /\ count.scan \in Nat
    BY DEF TypeOK
  <1>2. \A n \in Nat : \A i \in 0..(n - 1) : i \in Nat
    OBVIOUS
  <1>3. \A i \in Nat : \A f \in {"tmp", "acc", "scan", "next"} : <<f, i>> \in Var
    BY DEF Var
  <1> QED
    BY <1>1, <1>2, <1>3 DEF Known, BodyNames, InitNames

(* What statements added to the open phase find: a known local is worth    *)
(* what it was.                                                            *)
InitsWith(added) == IF active THEN inits \o added ELSE <<>>
Adding(d, d2, added, t, w, l, k) ==
    /\ \A v \in Known : d2[v] = d[v]
    /\ added \in Seq(Stmt) /\ t \in Seq(Stmt)
    /\ Initialized(added) \cap Known = {} /\ Apart(t, Known)
    /\ w = Flushed \o t /\ l = Len(Flushed) /\ k = Len(t)
Within(i, k, l, m) == i \in 1..(k + 1) /\ m = l + i

(* A known local is worth to them what it was worth at the end. *)
LEMMA TailNow ==
    ASSUME TypeOK, ShapeInv, status = "building",
           NEW d, NEW d2, NEW added, NEW t, NEW w, NEW l, NEW k, Adding(d, d2, added, t, w, l, k),
           NEW i, NEW m, Within(i, k, l, m), NEW v \in Known, NEW r
    PROVE  Worth(d2, InitsWith(added), w, m, v, r) = Now(d, v, r)
  <1>1. PICK K, seq, ins, ins2 : K = Known /\ seq = Flushed /\ ins = inits /\ ins2 = InitsWith(added)
    OBVIOUS
  <1>2. ins \in Seq(Stmt) /\ seq \in Seq(Stmt)
    BY <1>1, PhaseSectionType DEF TypeOK
  <1>3. TailOf(w, seq, t, l, k)
    BY <1>1, <1>2 DEF TailOf, Adding
  <1>4. SameInitials(ins, ins2, K)
    <2>1. CASE active
      <3>1. Initialized(ins2) = Initialized(ins) \cup Initialized(added)
        BY <1>1, <1>2, <2>1, InitializedConcat DEF InitsWith, Adding
      <3> QED
        BY <1>1, <3>1 DEF SameInitials, Adding
    <2>2. CASE ~active
      <3>1. ins2 = <<>> /\ ins = <<>>
        BY <1>1, <2>2 DEF InitsWith, ShapeInv, PhaseFits, Fits, Open
      <3> QED
        BY <3>1 DEF SameInitials
    <2> QED
      BY <2>1, <2>2
  <1>5. \A u \in K : d2[u] = d[u]
    BY <1>1 DEF Adding
  <1>6. Worth(d2, ins2, w, m, v, r) = Worth(d, ins, seq, l + 1, v, r)
    <2>1. Apart(t, K) /\ v \in K
      BY <1>1 DEF Adding
    <2>2. i \in 1..(k + 1) /\ m = l + i
      BY DEF Within
    <2> QED
      BY ONLY <1>3, <1>4, <1>5, <2>1, <2>2, TailWorth
  <1> QED
    BY <1>1, <1>6 DEF Now, End, Open, Adding

(* The statements added to the open phase are right. *)
Gained(M, d, p, added, t) ==
    \A i \in DOMAIN t :
       /\ \A r \in Turns(active) :
             Right(M, d, p, InitsWith(added), Flushed \o t, Len(Flushed) + i, r)
       /\ ~active => StraightStays(M, d, p, t[i])

(* With finalizers that are right, the section's growth is right. *)
LEMMA GainedIs ==
    ASSUME NEW M, NEW d, NEW p, NEW added, NEW t, NEW f, Gained(M, d, p, added, t),
           \A i \in DOMAIN f : FinRight(M, d, p, f[i])
    PROVE  MoreRight(M, d, p, Open, added, t, f)
  <1>1. Open.loop = active /\ Open.inits = inits /\ Open.body = Flushed
    BY DEF Open
  <1>2. CASE active
    BY <1>1, <1>2 DEF MoreRight, Gained, InitsWith, Turns
  <1>3. CASE ~active
    BY <1>1, <1>3 DEF MoreRight, Gained, InitsWith, Turns
  <1> QED
    BY <1>2, <1>3

(* What one statement appended to the open phase computes. *)
Computed(M, d, x, r) ==
    IF x.op = "load" THEN M[Cell(x, r)] ELSE MixAll([a \in DOMAIN x.args |-> Now(d, x.args[a], r)])

(* It is a value. *)
LEMMA ComputedType ==
    ASSUME TypeOK, NEW x \in Stmt, Proper(x), ArgsOf(x) \subseteq Known,
           NEW M \in Row, NEW d \in History, NEW r \in Rs
    PROVE  Computed(M, d, x, r) \in Value
  <1>1. CASE x.op = "load"
    <2>1. Cell(x, r) \in Cells
      BY <1>1, PlaceIn DEF Cell, Cells, Proper
    <2> QED
      BY <1>1, <2>1 DEF Computed, Row
  <1>2. CASE x.op # "load"
    <2>1. PICK n, args, xs : /\ n = Len(x.args) /\ args = x.args
                             /\ xs = [a \in DOMAIN args |-> Now(d, args[a], r)]
      OBVIOUS
    <2>2. args \in Seq(Var) /\ n \in Nat /\ DOMAIN args = 1..n
      BY <2>1 DEF Stmt
    <2>3. \A a \in DOMAIN args : Now(d, args[a], r) \in Value
      <3>1. TAKE a \in DOMAIN args
      <3>2. args[a] \in Var
        BY <2>2
      <3> QED
        BY <3>2, WorthType DEF Now, End
    <2>4. xs \in [1..n -> Value]
      BY <2>1, <2>2, <2>3
    <2>5. xs \in Seq(Value)
      BY <2>2, <2>4, FunctionIsSeq
    <2> QED
      BY <1>2, <2>1, <2>5, MixAllType DEF Computed
  <1> QED
    BY <1>1, <1>2

(* A new temporary is right about what it computes.                        *)
Bound(d, d2, M, x) ==
    /\ d2 \in History /\ \A v \in Known : d2[v] = d[v]
    /\ \A r \in Turns(active) : d2[NextTemp][r] = Computed(M, d, x, r)
    /\ ~active => d2[NextTemp][0] = d2[NextTemp][Last1]

(* Some account says so. *)
LEMMA BoundIs ==
    ASSUME TypeOK, NEW x \in Stmt, Proper(x), ArgsOf(x) \subseteq Known,
           NEW M \in Row, NEW d \in History, NextTemp \in Var, NextTemp \notin Known
    PROVE  \E d2 : Bound(d, d2, M, x)
  <1>1. PICK tmp : tmp = NextTemp
    OBVIOUS
  <1> DEFINE y == [r \in Rs |-> Computed(M, d, x, r)]
             h == [r \in Rs |-> IF active THEN y[r] ELSE y[0]]
             d2 == [d EXCEPT ![tmp] = h]
  <1>2. y \in [Rs -> Value] /\ \A r \in Rs : y[r] = Computed(M, d, x, r)
    BY ComputedType
  <1> HIDE DEF y
  <1>3. h \in [Rs -> Value] /\ 0 \in Rs /\ Last1 \in Rs
    BY <1>2, Zero DEF Last1
  <1>4. /\ \A r \in Turns(active) : h[r] = y[r] /\ r \in Rs
        /\ ~active => h[0] = h[Last1]
    BY <1>3 DEF Turns
  <1> HIDE DEF h
  <1>5. d2 \in History /\ d2[tmp] = h /\ \A v \in Known : d2[v] = d[v]
    <2>1. \A v \in Var : v # tmp => d2[v] = d[v]
      BY DEF History
    <2>2. Known \subseteq Var
      BY KnownIs
    <2>3. d2[tmp] = h /\ d2 \in History
      BY <1>1, <1>3 DEF History
    <2> QED
      BY <1>1, <2>1, <2>2, <2>3
  <1> HIDE DEF d2
  <1>6. Bound(d, d2, M, x)
    BY <1>1, <1>2, <1>4, <1>5 DEF Bound
  <1> QED
    BY <1>6

(* What one statement appended to the open phase finds in its operands. *)
OneAdded(d, d2, added, x, w, l) ==
    /\ \A v \in Known : d2[v] = d[v]
    /\ added \in Seq(Stmt) /\ Initialized(added) \cap Known = {}
    /\ x \in Stmt /\ x.dst \notin Known /\ ArgsOf(x) \subseteq Known
    /\ w = Flushed \o <<x>> /\ l = Len(Flushed)
Operated(d, x, r) == [a \in DOMAIN x.args |-> Now(d, x.args[a], r)]
OneFinds(d, d2, added, x, w, l) ==
    w[l + 1] = x /\ \A r : Worths(d2, InitsWith(added), w, l + 1, r) = Operated(d, x, r)

(* Its operands are worth what they were. *)
LEMMA OneWorths ==
    ASSUME TypeOK, ShapeInv, status = "building",
           NEW d, NEW d2, NEW added, NEW x, NEW w, NEW l, OneAdded(d, d2, added, x, w, l)
    PROVE  OneFinds(d, d2, added, x, w, l)
  <1> USE DEF OneAdded
  <1>1. PICK t, ins : t = <<x>> /\ ins = InitsWith(added)
    OBVIOUS
  <1>2. t \in Seq(Stmt) /\ DOMAIN t = 1..1 /\ t[1] = x /\ Len(t) = 1 /\ Flushed \in Seq(Stmt)
    BY <1>1, PhaseSectionType
  <1>3. Joined(Stmt, w, Flushed, t, l, 1)
    BY <1>1, <1>2, ConcatAt
  <1>4. w[l + 1] = x
    BY <1>2, <1>3 DEF Joined
  <1>5. Adding(d, d2, added, t, w, l, 1)
    BY <1>1, <1>2 DEF Adding, Apart
  <1>6. Within(1, 1, l, l + 1)
    BY DEF Within
  <1>7. ASSUME NEW a \in DOMAIN x.args, NEW r
        PROVE  Worth(d2, ins, w, l + 1, x.args[a], r) = Now(d, x.args[a], r)
    <2>1. PICK v : v = x.args[a]
      OBVIOUS
    <2>2. v \in Known
      BY <2>1 DEF ArgsOf
    <2>3. Worth(d2, InitsWith(added), w, l + 1, v, r) = Now(d, v, r)
      BY <1>5, <1>6, <2>2, TailNow
    <2> QED
      BY <1>1, <2>1, <2>3
  <1>8. ASSUME NEW r
        PROVE  Worths(d2, ins, w, l + 1, r) = Operated(d, x, r)
    <2>1. Worths(d2, ins, w, l + 1, r) = [a \in DOMAIN x.args |-> Worth(d2, ins, w, l + 1, x.args[a], r)]
      BY <1>4 DEF Worths
    <2> QED
      BY <1>7, <2>1 DEF Operated
  <1> QED
    BY <1>1, <1>4, <1>8 DEF OneFinds

(* The statement that binds it is right about it. *)
LEMMA BoundRight ==
    ASSUME TypeOK, ShapeInv, status = "building",
           NEW x \in Stmt, x.op \in {"load", "calc"}, x.dst = NextTemp, ArgsOf(x) \subseteq Known,
           NextTemp \notin Known,
           NEW M, NEW d, NEW d2, Bound(d, d2, M, x), NEW p
    PROVE  Gained(M, d2, p, <<>>, <<x>>)
  <1>1. PICK t, l, w, none, ins : /\ t = <<x>> /\ l = Len(Flushed) /\ w = Flushed \o t
                                  /\ none = <<>> /\ ins = InitsWith(none)
    OBVIOUS
  <1>2. DOMAIN t = 1..1 /\ t[1] = x
    BY <1>1
  <1>8. OneAdded(d, d2, none, x, w, l)
    <2>1. none \in Seq(Stmt) /\ Initialized(none) \cap Known = {}
      BY <1>1, NothingMore
    <2> QED
      BY <1>1, <2>1 DEF OneAdded, Bound
  <1>9. OneFinds(d, d2, none, x, w, l)
    BY <1>8, OneWorths
  <1>3. \A r : Worths(d2, ins, w, l + 1, r) = [a \in DOMAIN x.args |-> Now(d, x.args[a], r)]
    BY <1>1, <1>9 DEF OneFinds, Operated
  <1>4. w[l + 1] = x
    BY <1>9 DEF OneFinds
  <1>5. ~Writes(x)
    BY DEF Writes
  <1>6. ASSUME NEW r \in Turns(active)
        PROVE  Right(M, d2, p, ins, w, l + 1, r)
    <2>1. Told(M, d2, p, ins, w, l + 1, r) = Computed(M, d, x, r)
      <3>1. CASE x.op = "load"
        <4>1. Stored(M, p, x, r) = M[Cell(x, r)]
          BY <3>1 DEF Stored
        <4> QED
          BY <1>4, <3>1, <4>1 DEF Told, Outcome, Computed
      <3>2. CASE x.op = "calc"
        <4>1. Worths(d2, ins, w, l + 1, r) = [a \in DOMAIN x.args |-> Now(d, x.args[a], r)]
          BY <1>3
        <4> QED
          BY <1>4, <3>2, <4>1 DEF Told, Outcome, Computed
      <3> QED
        BY <3>1, <3>2
    <2> QED
      BY <1>4, <1>5, <2>1 DEF Right, Bound
  <1>7. ~active => StraightStays(M, d2, p, x)
    BY <1>5 DEF StraightStays, Bound
  <1> QED
    BY <1>1, <1>2, <1>6, <1>7 DEF Gained

(* What a step adds to the open phase. *)
Gains(added, t, f) ==
    /\ added \in Seq(Stmt) /\ t \in Seq(Stmt) /\ f \in Seq(Stmt)
    /\ Initialized(added) \cap Known = {} /\ Apart(t, Known)
    /\ Open' = Grown(Open, added, t, f)

(* It changes nothing about known locals. *)
LEMMA NowAll ==
    ASSUME TypeOK, NEW d, NEW d2, \A v \in Known : d2[v] = d[v],
           NEW added, NEW t, NEW f, Gains(added, t, f)
    PROVE  NowSame(d, d2)
  <1>1. SUFFICES ASSUME NEW v \in Known, NEW r \in Rs
                 PROVE  Now(d2, v, r)' = Now(d, v, r)
    BY DEF NowSame
  <1>2. PICK M : M = <<>>
    OBVIOUS
  <1>3. Agrees(M, d, M, d2)
    BY DEF Agrees, Agree
  <1>4. /\ added \in Seq(Stmt) /\ t \in Seq(Stmt)
        /\ Initialized(added) \cap Known = {} /\ Apart(t, Known)
        /\ Open' = Grown(Open, added, t, f)
    BY DEF Gains
  <1> QED
    BY <1>3, <1>4, NowKept

(* A new local is worth what the account says of it. *)
LEMMA NewNow ==
    ASSUME TypeOK, NEW d2, NEW added, NEW t, NEW f, Gains(added, t, f),
           NEW v, \E j \in DOMAIN t : t[j].dst = v, NEW r
    PROVE  Now(d2, v, r)' = d2[v][r]
  <1>1. PICK o : o = Open
    OBVIOUS
  <1>2. o.body \in Seq(Stmt) /\ t \in Seq(Stmt) /\ Open' = Grown(o, added, t, f)
    BY <1>1, PhaseSectionType DEF Open, Gains
  <1>3. EndsWith(d2, Grown(o, added, t, f), t, r)
    BY <1>2, EndAssigned
  <1>4. End(d2, Grown(o, added, t, f), v, r) = d2[v][r]
    BY <1>3 DEF EndsWith
  <1> QED
    BY <1>2, <1>4 DEF Now

(* The sections stay right, and what the open phase gains is. *)
LEMMA EmittedGains ==
    ASSUME ShapeInv, status = "building", UNCHANGED <<outer, status>>,
           NEW M, NEW d, NEW M2, NEW d2, NEW p, Emitted(M, d, p), Agrees(M, d, M2, d2),
           NEW added, NEW t, NEW f, Gains(added, t, f),
           Gained(M2, d2, p, added, t), \A i \in DOMAIN f : FinRight(M2, d2, p, f[i])
    PROVE  Emitted(M2, d2, p)'
  <1>1. /\ added \in Seq(Stmt) /\ t \in Seq(Stmt) /\ f \in Seq(Stmt)
        /\ Initialized(added) \cap Known = {}
        /\ Open' = Grown(Open, added, t, f)
    BY DEF Gains
  <1>2. MoreRight(M2, d2, p, Open, added, t, f)
    BY GainedIs
  <1> QED
    BY <1>1, <1>2, EmittedMore

(* The tables rest. *)
LEMMA ForwardsRest ==
    ASSUME ShapeInv, NEW M, NEW d, NEW M2, NEW d2, Agrees(M, d, M2, d2), NowSame(d, d2),
           Forwards(M, d), UNCHANGED <<fwd, fwdRed, active, written>>
    PROVE  Forwards(M2, d2)'
  <1>1. SUFFICES ASSUME NEW key \in Key
                 PROVE  StoreTold(M2, d2, key)' /\ ReductionTold(M2, d2, key)'
    BY DEF Forwards, Key, Buf, Idx
  <1>2. StoreTold(M, d, key) /\ ReductionTold(M, d, key)
    BY DEF Forwards
  <1> QED
    BY <1>2, StoreToldStays, ReductionToldStays

(* A value is bound to a new temporary. *)
Binds(x, c) ==
    /\ x \in Stmt /\ x.op \in {"load", "calc"} /\ x.dst = NextTemp /\ Proper(x) /\ ArgsOf(x) \subseteq Known
    /\ c.op = "load" => x.op = "load" /\ x.buf = c.buf /\ x.idx = c.idx
    /\ c.op = "compute" => x.op = "calc" /\ c.is \in Positions(MaxArgs) /\ x.args = Operands(c.is)
    /\ bindings' = Append(bindings, x) /\ count' = [count EXCEPT !.tmp = @ + 1]
    /\ Returns(NextTemp)
    /\ UNCHANGED <<written, active, outer, status, block, inits, fins, fwd, fwdRed>>

(* It has an account. *)
LEMMA BindAccount ==
    ASSUME TypeOK, TypeOK', NamesInv, ShapeInv, BodiesInv, child.mode \in {"body", "scanned"},
           NEW c, c.op \in {"load", "compute"}, CallFits(Current, Closed, c), Records(c),
           NEW x, Binds(x, c),
           NEW p, NEW M, NEW d, Account(M, d, p)
    PROVE  \E d2 : Account(M, d2, p)'
  <1>1. /\ x \in Stmt /\ x.op \in {"load", "calc"} /\ x.dst = NextTemp /\ Proper(x)
        /\ ArgsOf(x) \subseteq Known /\ status = "building" /\ child.mode # "idle"
    BY DEF Binds, NamesInv, Idle
  <1>2. NextTemp \notin Known /\ NextTemp \in Var
    BY BindKnown DEF Binds
  <1>3. PICK d2 : Bound(d, d2, M, x)
    BY <1>1, <1>2, BoundIs DEF Account, RowFits
  <1>4. PICK t, none : t = <<x>> /\ none = <<>>
    OBVIOUS
  <1>5. none \in Seq(Stmt) /\ t \in Seq(Stmt) /\ DOMAIN t = 1..1 /\ t[1] = x /\ Initialized(none) = {}
    BY <1>1, <1>4, NothingMore
  <1>6. Gains(none, t, none)
    <2>1. Apart(t, Known)
      BY <1>1, <1>2, <1>5 DEF Apart
    <2>2. bindings' = bindings \o t /\ inits' = inits \o none /\ fins' = fins \o none
      BY <1>1, <1>4, NothingMore DEF Binds, TypeOK
    <2>3. UNCHANGED block /\ UNCHANGED active
      BY DEF Binds
    <2>4. Open' = Grown(Open, none, t, none)
      BY <1>5, <2>2, <2>3, OpenGrows
    <2> QED
      BY <1>5, <2>1, <2>4 DEF Gains
  <1>7. NowSame(d, d2) /\ Agrees(M, d, M, d2)
    BY <1>3, <1>6, NowAll DEF Bound, Agrees, Agree
  <1>8. Emitted(M, d2, p)'
    <2>1. Gained(M, d2, p, none, t)
      BY <1>1, <1>2, <1>3, <1>4, BoundRight
    <2>2. \A i \in DOMAIN none : FinRight(M, d2, p, none[i])
      BY <1>4
    <2>3. Emitted(M, d, p) /\ UNCHANGED <<outer, status>>
      BY DEF Account, Binds
    <2> QED
      BY <1>1, <1>6, <1>7, <2>1, <2>2, <2>3, EmittedGains
  <1>13. PICK v : v = NextTemp
    OBVIOUS
  <1>9. \A r \in Turns(active) : Now(d2, v, r)' = Computed(M, d, x, r)
    <2>1. TAKE r \in Turns(active)
    <2>2. Now(d2, v, r)' = d2[v][r]
      BY <1>1, <1>5, <1>6, <1>13, NewNow
    <2> QED
      BY <1>3, <1>13, <2>2 DEF Bound
  <1>10. Called(M, d2, p)'
    <2>1. v = NextTemp
      BY <1>13
    <2>2. v \in Var /\ Returns(v) /\ UNCHANGED active /\ Called(M, d, p)
      BY <1>2, <2>1 DEF Binds, Account
    <2>3. ASSUME NEW r \in Turns(active)
          PROVE  Now(d2, v, r)' = IF c.op = "load" THEN M[Cell(c, r)] ELSE MixAll(Chosen(Held(d, r), c.is))
      <3>1. Now(d2, v, r)' = Computed(M, d, x, r)
        BY <1>9
      <3>2. CASE c.op = "load"
        <4>1. x.op = "load" /\ Cell(x, r) = Cell(c, r)
          BY <3>2 DEF Binds, Cell
        <4> QED
          BY <3>1, <3>2, <4>1 DEF Computed
      <3>3. CASE c.op = "compute"
        <4>1. x.op = "calc" /\ c.is \in Positions(MaxArgs) /\ x.args = Operands(c.is)
          BY <3>3 DEF Binds
        <4>2. PICK is : is = c.is
          OBVIOUS
        <4>3. DOMAIN x.args = DOMAIN is /\ \A a \in DOMAIN is : x.args[a] = child.vals[is[a]] /\ is[a] \in DOMAIN child.vals
          BY <4>1, <4>2, OperandsHeld, BoundsAssumption
        <4>4. [a \in DOMAIN x.args |-> Now(d, x.args[a], r)] = Chosen(Held(d, r), is)
          BY <4>3 DEF Chosen, Held
        <4> QED
          BY <3>1, <3>3, <4>1, <4>2, <4>4 DEF Computed
      <3> QED
        BY <3>2, <3>3
    <2> QED
      BY <1>1, <1>7, <2>1, <2>2, <2>3, CalledReturns
  <1>11. RowFits(M, p)'
    BY DEF Account, RowFits, Binds
  <1>12. Forwards(M, d2)'
    <2>1. Forwards(M, d) /\ UNCHANGED <<fwd, fwdRed, active, written>>
      BY DEF Account, Binds
    <2> QED
      BY <1>7, <2>1, ForwardsRest
  <1> QED
    BY <1>3, <1>8, <1>10, <1>11, <1>12 DEF Account, Bound

(* load, when the value comes from memory. *)
LEMMA LoadMemoryAccount ==
    ASSUME MemoryInv, TypeOK', NamesInv, ShapeInv, BodiesInv, NEW b \in Buf, NEW k \in Idx,
           LoadMemory(b, k), Records(Call("load", b, k, <<>>)),
           NEW p, NEW M, NEW d, Account(M, d, p)
    PROVE  \E d2 : Account(M, d2, p)'
  <1>1. PICK x, c, v : x = LoadOf(v, b, k) /\ c = Call("load", b, k, <<>>) /\ v = NextTemp
    OBVIOUS
  <1>2. CallFits(Current, Closed, c) /\ c.op = "load" /\ c.buf = b /\ c.idx = k
    BY <1>1, LoadFits
  <1>3. TypeOK /\ child.mode \in {"body", "scanned"}
    BY DEF MemoryInv, IInv, LoadMemory
  <1>4. x.op = "load" /\ x.dst = v /\ x.buf = b /\ x.idx = k /\ x.args = <<>>
    BY <1>1 DEF LoadOf
  <1>5. v \in Var /\ count' = [count EXCEPT !.tmp = @ + 1]
    BY <1>1, <1>3, BindKnown DEF LoadMemory
  <1>6. x \in Stmt /\ Proper(x) /\ ArgsOf(x) = {}
    BY <1>1, <1>4, <1>5, StatementTypes DEF Proper, ArgsOf
  <1>7. Binds(x, c)
    BY <1>1, <1>2, <1>4, <1>5, <1>6 DEF Binds, LoadMemory, schedule, builder
  <1> QED
    BY <1>1, <1>2, <1>3, <1>7, BindAccount

(* A scalar operation. *)
LEMMA ComputeAccount ==
    ASSUME TypeOK, TypeOK', NamesInv, ShapeInv, BodiesInv, NEW is \in Positions(MaxArgs),
           Compute(is), Records(Call("compute", None, None, is)),
           NEW p, NEW M, NEW d, Account(M, d, p)
    PROVE  \E d2 : Account(M, d2, p)'
  <1>1. PICK x, c, v, args : /\ x = Local("calc", v, args) /\ c = Call("compute", None, None, is)
                             /\ v = NextTemp /\ args = Operands(is)
    OBVIOUS
  <1>2. CallFits(Current, Closed, c) /\ c.op = "compute" /\ c.is = is
    BY <1>1, ComputeFits
  <1>3. child.mode \in {"body", "scanned"}
    BY DEF Compute
  <1>4. x.op = "calc" /\ x.dst = v /\ x.args = args
    BY <1>1 DEF Local
  <1>5. v \in Var /\ count' = [count EXCEPT !.tmp = @ + 1]
    BY <1>1, <1>3, BindKnown DEF Compute
  <1>6. args \in Seq(Var) /\ ArgsOf(x) \subseteq Known
    <2>1. args \in Seq(Var) /\ DOMAIN args = DOMAIN is
          /\ \A a \in DOMAIN is : args[a] = child.vals[is[a]] /\ is[a] \in DOMAIN child.vals
      BY <1>1, OperandsHeld, BoundsAssumption
    <2> QED
      BY <1>4, <2>1 DEF ArgsOf, ShapeInv, ValuesKnown
  <1>7. x \in Stmt /\ Proper(x)
    <2>1. x \in Stmt
      BY <1>1, <1>5, <1>6, StatementTypes DEF Op
    <2> QED
      BY <1>4, <1>5, <2>1 DEF Proper
  <1>8. Binds(x, c)
    BY <1>1, <1>2, <1>4, <1>5, <1>6, <1>7 DEF Binds, Compute, schedule, builder
  <1> QED
    BY <1>1, <1>2, <1>3, <1>8, BindAccount

(* A LoopBody's last call writes what the account says. *)
StoresRight(M, d, p, c, r) ==
    LET x == Chosen(Held(d, r), c.is)[1]
    IN  M[Cell(c, r)] = IF c.op = "store" THEN x ELSE Add(Initially(p, Cell(c, r)), x)

(* The body stays right with its last call. *)
LEMMA CalledWrites ==
    ASSUME BodiesInv, child.mode # "idle", child'.mode = "idle",
           NEW c, c.op \in WriteOp, CallFits(Current, Closed, c), Records(c),
           NEW M, NEW d, NEW M2, NEW d2, NEW p, Called(M, d, p), Agrees(M, d, M2, d2),
           c.op # "store_reduction" =>
              child.mode # "reduced" /\ \A r \in Turns(active) : StoresRight(M2, d, p, c, r),
           c.op = "store_reduction" => child.mode = "reduced" /\ M2[Cell(c, Last1)] = d[child.vals[1]][Last1],
           child.mode \in {"body", "scanned", "reduced"},
           c.idx \in RowIdx => Untouched(M2, p, c.buf)
    PROVE  Called(M2, d2, p)'
  <1>1. PICK l, w, body : l = Len(Current.calls) /\ w = WithCall(Current, c) /\ body = Current
    OBVIOUS
  <1>2. /\ body \in Body /\ l \in Nat /\ body.inLoop = active
        /\ \E W, A, S : BodyRight(M, p, body, W, A, S) /\ Linked(d, W, A)
    BY <1>1, CurrentCalled
  <1>3. PICK W, A, S : BodyRight(M, p, body, W, A, S) /\ Linked(d, W, A)
    BY <1>2
  <1>4. PICK x, W2 : x = [r \in Rs |-> W[l + 1][r]] /\ W2 = Wider(W, l, x)
    OBVIOUS
  <1>5. WiderBy(W2, W, l, x, active)
    BY <1>2, <1>4, WiderIs
  <1>6. c \in CallSet /\ Extends(w, body, c, l)
    <2>1. c \in CallSet
      BY DEF CallFits
    <2> QED
      BY <1>1, <1>2, <2>1, WithCallIs
  <1>7. \A r \in Turns(active) : r \in Rs
    BY Zero DEF Turns
  <1>8. ASSUME NEW r \in Turns(active)
        PROVE  CallRight(M2, p, W2, A, S, w.calls, l + 1, r)
    <2>1. w.calls[l + 1] = c
      BY <1>6 DEF Extends
    <2>2. W2[l + 1][r] = W[l + 1][r] /\ W2[(l + 1) + 1][r] = W[l + 1][r]
      BY <1>4, <1>5, <1>7, <1>8 DEF WiderBy
    <2>3. W2[(l + 1) + 1][r] = Appended(M2, S, W2, c, l + 1, r)
      BY <2>2 DEF Appended, WriteOp
    <2>4. c.op # "store_reduction" => W2[l + 1][r] = Held(d, r) /\ StoresRight(M2, d, p, c, r)
      BY <1>1, <1>3, <1>8, <2>2 DEF Linked
    <2>5. c.op = "store_reduction" /\ r = Last1 => M2[Cell(c, r)] = A[r]
      BY <1>3, <1>7, <1>8 DEF Linked
    <2> QED
      BY <2>1, <2>3, <2>4, <2>5 DEF CallRight, StoresRight, WriteOp
  <1>9. CallAdds(M2, p, w, W2, A, S, l)
    <2>1. \A r \in Turns(body.inLoop) : CallRight(M2, p, W2, A, S, w.calls, l + 1, r)
      BY <1>2, <1>8
    <2> QED
      BY <1>3, <1>6, <2>1, CallAddsIs
  <1>10. Linked(d2, W2, A)'
    BY DEF Linked
  <1>11. SameTill(W, W2, l, active) /\ BodyRight(M, p, Current, W, A, S)
    BY <1>1, <1>3, <1>5 DEF WiderBy
  <1> QED
    BY <1>1, <1>9, <1>10, <1>11, CalledMore

(* What a store leaves of the row: its value in every iteration, or in the *)
(* only one.                                                               *)
StoredRow(M, d, p, op, o, v) ==
    [a \in Cells |->
        IF a[1] = o /\ a[2] \in Turns(active)
        THEN IF op = "store" THEN Now(d, v, a[2]) ELSE Add(Initially(p, a), Now(d, v, a[2]))
        ELSE M[a]]
StoresRow(M, M2, d, p, op, o, v) ==
    /\ M2 \in Row /\ Agrees(M, d, M2, d) /\ InputsKept(M2, p)
    /\ \A b \in Buf : b # o => \A r \in Rs : M2[<<b, r>>] = M[<<b, r>>]
    /\ ~active => Untouched(M2, p, o)
    /\ \A r \in Turns(active) :
          M2[<<o, r>>] = IF op = "store" THEN Now(d, v, r) ELSE Add(Initially(p, <<o, r>>), Now(d, v, r))

(* It changes the row at the output only. *)
LEMMA StoredRowIs ==
    ASSUME ShapeInv, status = "building", NEW p \in Points, NEW M, NEW d \in History, RowFits(M, p),
           NEW op \in {"store", "atomic"}, NEW o \in Outputs, written[o] = "no", NEW v \in Var,
           NEW M2, M2 = StoredRow(M, d, p, op, o, v)
    PROVE  StoresRow(M, M2, d, p, op, o, v)
  <1>1. \A r \in Turns(active) : r \in Rs
    BY Zero DEF Turns
  <1>2. \A r \in Rs : Now(d, v, r) \in Value
    BY WorthType DEF Now, End
  <1>3. \A a \in Cells : a \in Buf \X Rs /\ Initially(p, a) \in Value /\ M[a] \in Value
    BY ValuesAssumption DEF Cells, Initially, RowFits, Row
  <1>4. M2 \in Row
    <2>1. ASSUME NEW a \in Cells
          PROVE  M2[a] \in Value
      BY <1>1, <1>2, <1>3, ValuesAssumption DEF StoredRow
    <2>2. DOMAIN M2 = Cells /\ M2 = [a \in Cells |-> M2[a]]
      BY DEF StoredRow
    <2> QED
      BY <2>1, <2>2 DEF Row
  <1>5. \A b \in Buf, r \in Rs : <<b, r>> \in Cells /\ <<b, r>>[1] = b /\ <<b, r>>[2] = r
    BY DEF Cells
  <1>6. \A b \in Buf, r \in Rs : M2[<<b, r>>] =
           IF b = o /\ r \in Turns(active)
           THEN IF op = "store" THEN Now(d, v, r) ELSE Add(Initially(p, <<b, r>>), Now(d, v, r))
           ELSE M[<<b, r>>]
    BY <1>5 DEF StoredRow
  <1>7. o \in Buf /\ o \notin Reached /\ o \notin Inputs
    BY OutUntouched, NamesAssumption DEF Buf
  <1>8. \A a \in Cells : a[1] # o => M2[a] = M[a]
    BY DEF StoredRow
  <1>9. Agrees(M, d, M2, d) /\ InputsKept(M2, p)
    BY <1>7, <1>8 DEF Agrees, Agree, RowFits, InputsKept
  <1>10. ~active => Untouched(M2, p, o)
    BY <1>6, <1>7 DEF Untouched, Turns, RowFits
  <1> QED
    BY <1>1, <1>4, <1>6, <1>7, <1>9, <1>10 DEF StoresRow

(* A loop's statements stand at full indices, others at row indices.       *)
LEMMA PlaceAt ==
    ASSUME NEW k, k \in IF active THEN FullIdx ELSE RowIdx, NEW r \in Turns(active)
    PROVE  Place(k, r) = r
  <1>1. CASE active
    BY <1>1 DEF Place
  <1>2. CASE ~active
    BY <1>2, NamesAssumption DEF Place, Turns
  <1> QED
    BY <1>1, <1>2

(* The store to memory is right. *)
LEMMA StoreGained ==
    ASSUME TypeOK, ShapeInv, status = "building", NEW p \in Points, NEW M, NEW d \in History, RowFits(M, p),
           NEW op \in {"store", "atomic"}, NEW o \in Outputs, written[o] = "no", NEW v \in Known, v \in Var,
           NEW k \in Idx, k \in IF active THEN FullIdx ELSE RowIdx,
           NEW x, x = StoreTo(op, o, k, v), NEW M2, M2 = StoredRow(M, d, p, op, o, v)
    PROVE  Gained(M2, d, p, <<>>, <<x>>)
  <1>1. /\ x \in Stmt /\ x.op = op /\ x.dst = None /\ x.buf = o /\ x.idx = k /\ x.args = <<v>>
        /\ ArgsOf(x) = {v} /\ Writes(x)
    BY StoreIs
  <1>2. PICK t, l, w, none, ins : /\ t = <<x>> /\ l = Len(Flushed) /\ w = Flushed \o t
                                  /\ none = <<>> /\ ins = InitsWith(none)
    OBVIOUS
  <1>3. DOMAIN t = 1..1 /\ t[1] = x
    BY <1>2
  <1>4. OneAdded(d, d, none, x, w, l)
    <2>1. none \in Seq(Stmt) /\ Initialized(none) \cap Known = {}
      BY <1>2, NothingMore
    <2>2. x.dst \notin Known
      BY <1>1, KnownIs, NamesAssumption
    <2> QED
      BY <1>1, <1>2, <2>1, <2>2 DEF OneAdded
  <1>5. OneFinds(d, d, none, x, w, l)
    BY <1>4, OneWorths
  <1>6. /\ ~active => Untouched(M2, p, o)
        /\ \A r \in Turns(active) :
              M2[<<o, r>>] = IF op = "store" THEN Now(d, v, r) ELSE Add(Initially(p, <<o, r>>), Now(d, v, r))
    <2>1. StoresRow(M, M2, d, p, op, o, v)
      BY StoredRowIs
    <2> QED
      BY <2>1 DEF StoresRow
  <1>7. ASSUME NEW r \in Turns(active)
        PROVE  Right(M2, d, p, ins, w, l + 1, r)
    <2>1. w[l + 1] = x /\ Worths(d, ins, w, l + 1, r)[1] = Now(d, v, r)
      <3>1. w[l + 1] = x /\ Worths(d, ins, w, l + 1, r) = Operated(d, x, r)
        BY <1>2, <1>5 DEF OneFinds
      <3>2. DOMAIN x.args = 1..1 /\ x.args[1] = v
        BY <1>1
      <3> QED
        BY <3>1, <3>2 DEF Operated
    <2>2. Cell(x, r) = <<o, r>>
      BY <1>1, PlaceAt DEF Cell
    <2>3. Told(M2, d, p, ins, w, l + 1, r) = M2[Cell(x, r)]
      <3>1. CASE op = "store"
        BY <1>1, <1>6, <2>1, <2>2, <3>1 DEF Told, Outcome
      <3>2. CASE op = "atomic"
        BY <1>1, <1>6, <2>1, <2>2, <3>2 DEF Told, Outcome, Stored
      <3> QED
        BY <3>1, <3>2
    <2> QED
      BY <1>1, <2>1, <2>3 DEF Right
  <1>8. ~active => StraightStays(M2, d, p, x)
    BY <1>1, <1>6 DEF StraightStays
  <1> QED
    BY <1>2, <1>3, <1>7, <1>8 DEF Gained

(* store. *)
LEMMA StoreAccount ==
    ASSUME MemoryInv, TypeOK', NamesInv, ShapeInv, BodiesInv, NEW i \in DOMAIN child.vals, NEW k \in Idx,
           NEW op \in {"store", "atomic"}, Store(i, k, op), Records(Call(op, child.out, k, <<i>>)),
           NEW p \in Points, NEW M, NEW d, Account(M, d, p)
    PROVE  \E M2 : Account(M2, d, p)'
  <1>1. /\ TypeOK /\ IInv /\ status = "building" /\ active = InLoop /\ child.mode # "idle"
        /\ child.mode \in {"body", "scanned"}
    <2>1. child.mode \in {"body", "scanned"}
      BY DEF Store
    <2> QED
      BY <2>1, ChildWrites DEF MemoryInv
  <1>2. PICK o, v, c, x, t, none :
           /\ o = child.out /\ v = child.vals[i] /\ c = Call(op, child.out, k, <<i>>)
           /\ x = StoreTo(op, o, k, v) /\ t = <<x>> /\ none = <<>>
    OBVIOUS
  <1>3. o \in Outputs /\ written[o] = "no" /\ v \in Var /\ v \in Known
    BY <1>1, <1>2, ChildWrites DEF ShapeInv, ValuesKnown
  <1>4. k \in IF active THEN FullIdx ELSE RowIdx
    BY <1>1 DEF Store
  <1>5. x \in Stmt /\ StoreStmts(op, o, k, v) = t /\ x.dst = None /\ Writes(x)
    BY <1>2, <1>3, StoreIs
  <1>6. /\ block' = Flushed \o t /\ bindings' = <<>> /\ fwd' = [fwd EXCEPT ![<<o, k>>] = v]
        /\ written' = [written EXCEPT ![o] = IF op = "atomic" THEN "scatter" ELSE IF InLoop THEN "full" ELSE "row"]
        /\ child' = Idle
        /\ UNCHANGED <<active, opened, outer, status, inits, fins, fwdRed, count>>
    BY <1>2, <1>5 DEF Store, ForwardedBy, builder
  <1>7. none \in Seq(Stmt) /\ t \in Seq(Stmt) /\ DOMAIN t = 1..1 /\ t[1] = x /\ Initialized(none) = {}
    BY <1>2, <1>5, NothingMore
  <1>8. Gains(none, t, none)
    <2>1. Apart(t, Known)
      BY <1>1, <1>5, <1>7, KnownIs, NamesAssumption DEF Apart
    <2>2. inits' = inits \o none /\ fins' = fins \o none
      BY <1>1, <1>2, <1>6, NothingMore DEF TypeOK
    <2>3. Open' = Grown(Open, none, t, none)
      BY <1>1, <1>6, <1>7, <2>2, OpenGrows
    <2> QED
      BY <1>7, <2>1, <2>3 DEF Gains
  <1>9. d \in History /\ RowFits(M, p) /\ Emitted(M, d, p) /\ Called(M, d, p) /\ Forwards(M, d)
    BY DEF Account
  <1>10. PICK M2 : M2 = StoredRow(M, d, p, op, o, v)
    OBVIOUS
  <1>11. /\ M2 \in Row /\ Agrees(M, d, M2, d) /\ InputsKept(M2, p)
         /\ \A b \in Buf : b # o => \A r \in Rs : M2[<<b, r>>] = M[<<b, r>>]
         /\ ~active => Untouched(M2, p, o)
         /\ \A r \in Turns(active) :
               M2[<<o, r>>] = IF op = "store" THEN Now(d, v, r) ELSE Add(Initially(p, <<o, r>>), Now(d, v, r))
    <2>1. StoresRow(M, M2, d, p, op, o, v)
      BY <1>1, <1>3, <1>9, <1>10, StoredRowIs
    <2> QED
      BY <2>1 DEF StoresRow
  <1>12. NowSame(d, d)
    BY <1>1, <1>8, NowAll
  <1>13. Emitted(M2, d, p)'
    <2>1. Gained(M2, d, p, none, t)
      BY <1>1, <1>2, <1>3, <1>4, <1>9, <1>10, StoreGained
    <2>2. \A j \in DOMAIN none : FinRight(M2, d, p, none[j])
      BY <1>2
    <2> QED
      BY <1>1, <1>6, <1>8, <1>9, <1>11, <2>1, <2>2, EmittedGains
  <1>14. written'[o] # "no" /\ \A b \in Outputs : b # o => written'[b] = written[b]
    BY <1>1, <1>3, <1>6 DEF TypeOK
  <1>15. RowFits(M2, p)'
    BY <1>9, <1>11, <1>14 DEF RowFits, Buf
  <1>16. Called(M2, d, p)'
    <2>1. /\ CallFits(Current, Closed, c) /\ c.op = op /\ c.buf = o /\ c.idx = k /\ c.is = <<i>>
          /\ c.op \in WriteOp /\ Records(c)
      BY <1>1, <1>2, StoreFits
    <2>2. ASSUME NEW r \in Turns(active)
          PROVE  StoresRight(M2, d, p, c, r)
      <3>1. Chosen(Held(d, r), c.is)[1] = Now(d, v, r)
        BY <1>2, <2>1 DEF Chosen, Held
      <3>2. Cell(c, r) = <<o, r>>
        BY <1>4, <2>1, PlaceAt DEF Cell
      <3> QED
        BY <1>11, <2>1, <3>1, <3>2 DEF StoresRight
    <2>3. c.idx \in RowIdx => Untouched(M2, p, c.buf)
      BY <1>4, <1>11, <2>1, NamesAssumption
    <2>4. child.mode # "reduced" /\ c.op # "store_reduction" /\ child'.mode = "idle"
      BY <1>1, <1>6, <2>1 DEF Idle
    <2> QED
      BY <1>1, <1>9, <1>11, <2>1, <2>2, <2>3, <2>4, CalledWrites
  <1>17. ASSUME NEW key \in Key
         PROVE  StoreTold(M2, d, key)' /\ ReductionTold(M2, d, key)'
    <2>1. StoreTold(M, d, key) /\ ReductionTold(M, d, key)
      BY <1>9 DEF Forwards
    <2>2. ReductionTold(M2, d, key)'
      BY <1>6, <1>11, <2>1, ReductionToldStays
    <2>3. CASE key = <<o, k>>
      <3>1. fwd'[key] = v /\ key[1] = o /\ key[2] = k
        BY <1>1, <1>6, <2>3 DEF TypeOK
      <3>2. written'[o] # "scatter" => op = "store"
        BY <1>1, <1>3, <1>6 DEF TypeOK
      <3>3. \A r \in Turns(active) : Now(d, v, r)' = Now(d, v, r) /\ Place(k, r) = r
        BY <1>3, <1>4, <1>12, PlaceAt, Zero DEF NowSame, Turns
      <3>4. op = "store" => \A r \in Turns(active) : Now(d, v, r)' = M2[<<o, Place(k, r)>>]
        BY <1>11, <3>3
      <3> QED
        BY <1>6, <2>2, <3>1, <3>2, <3>4 DEF StoreTold
    <2>4. CASE key # <<o, k>>
      <3>1. fwd'[key] = fwd[key]
        BY <1>1, <1>6, <2>4 DEF TypeOK
      <3>2. fwd[key] # None => written'[key[1]] = written[key[1]]
        BY <1>3, <1>14 DEF ShapeInv, TablesKnown, Remembered
      <3>3. StoreTold(M2, d, key)'
        BY <1>6, <1>11, <1>12, <2>1, <3>1, <3>2, StoreToldStays
      <3> QED
        BY <2>2, <3>3
    <2> QED
      BY <2>3, <2>4
  <1>18. Forwards(M2, d)'
    BY <1>17 DEF Forwards, Key, Buf, Idx
  <1> QED
    BY <1>9, <1>13, <1>15, <1>16, <1>18 DEF Account

(* An accumulator holds what was accumulated. *)
Accumulates(h, d, v) ==
    /\ h \in [Rs -> Value]
    /\ \A r \in Rs : h[r] = Mix(Previous(h, Unit, r), Now(d, v, r))

(* Every reduction has an accumulator's history. *)
LEMMA AccumulatesIs ==
    ASSUME NEW d \in History, NEW v \in Var
    PROVE  \E h : Accumulates(h, d, v)
  <1>1. PICK n, y : n = ReductionSize /\ y = [r \in Rs |-> Now(d, v, r)]
    OBVIOUS
  <1>2. n \in Nat /\ Rs = 0..(n - 1)
    BY <1>1, SizesAssumption DEF Rs
  <1>3. y \in [Rs -> Value]
    BY <1>1, WorthType DEF Now, End
  <1> DEFINE F == [k \in 1..n |-> [z \in Value |-> Mix(z, y[k - 1])]]
  <1>4. F \in [1..n -> [Value -> Value]]
    <2>1. \A k \in 1..n : y[k - 1] \in Value
      BY <1>2, <1>3
    <2> QED
      BY <2>1, ValuesAssumption
  <1>5. PICK f : Solves(f, F, Unit, n, Value)
    <2> HIDE DEF F
    <2> QED
      BY <1>2, <1>4, ValuesAssumption, RecursionExists
  <1>6. f \in [0..n -> Value] /\ f[0] = Unit /\ \A k \in 1..n : f[k] = Mix(f[k - 1], y[k - 1])
    <2>1. f \in [0..n -> Value] /\ f[0] = Unit /\ \A k \in 1..n : f[k] = F[k][f[k - 1]]
      BY <1>5 DEF Solves
    <2>2. \A k \in 1..n : f[k - 1] \in Value
      BY <1>2, <2>1
    <2> QED
      BY <2>1, <2>2
  <1> DEFINE h == [r \in Rs |-> f[r + 1]]
  <1>7. h \in [Rs -> Value]
    BY <1>2, <1>6
  <1>8. ASSUME NEW r \in Rs
        PROVE  h[r] = Mix(Previous(h, Unit, r), y[r])
    <2>1. r + 1 \in 1..n /\ (r + 1) - 1 = r /\ r \in Nat
      BY <1>2
    <2>2. h[r] = Mix(f[r], y[r])
      BY <1>6, <2>1
    <2>3. f[r] = Previous(h, Unit, r)
      <3>1. CASE r = 0
        BY <1>6, <3>1 DEF Previous
      <3>2. CASE r # 0
        <4>1. r - 1 \in Rs /\ (r - 1) + 1 = r
          BY <1>2, <2>1, <3>2
        <4>2. h[r - 1] = f[r]
          BY <4>1
        <4> HIDE DEF h
        <4> QED
          BY <3>2, <4>2 DEF Previous
      <3> QED
        BY <3>1, <3>2
    <2> HIDE DEF h
    <2> QED
      BY <2>2, <2>3
  <1> HIDE DEF h
  <1>9. Accumulates(h, d, v)
    BY <1>1, <1>7, <1>8 DEF Accumulates
  <1> QED
    BY <1>9

(* A name that is not known yet is not assigned in the open phase.         *)
LEMMA NewUnassigned ==
    ASSUME TypeOK, ShapeInv, status = "building", NEW v, v \notin Known, v # None,
           NEW t \in Seq(Stmt), NEW w, w = Flushed \o t, NEW l, l = Len(Flushed)
    PROVE  ~Assigned(w, l + 1, v)
  <1>1. SUFFICES ASSUME NEW j \in DOMAIN w, j < l + 1, w[j].dst = v
                 PROVE  FALSE
    BY DEF Assigned
  <1>2. PICK seq : seq = Flushed
    OBVIOUS
  <1>3. seq \in Seq(Stmt)
    BY <1>2, PhaseSectionType
  <1>4. \A q \in DOMAIN seq : seq[q].dst \in Known \cup {None}
    BY <1>2 DEF ShapeInv, PhaseFits, Fits, Open, SeqKnown, StmtKnown
  <1>5. PICK k : k = Len(t)
    OBVIOUS
  <1>6. Joined(Stmt, w, seq, t, l, k)
    BY <1>2, <1>3, <1>5, ConcatAt
  <1>7. j \in 1..l /\ DOMAIN seq = 1..l
    BY <1>1, <1>2, <1>3, <1>6 DEF Joined
  <1>8. w[j] = seq[j]
    BY <1>6, <1>7 DEF Joined
  <1> QED
    BY <1>1, <1>4, <1>7, <1>8

(* The update of an accumulator is right. *)
LEMMA ReductionGained ==
    ASSUME TypeOK, ShapeInv, status = "building", active, NEW v \in Known, v \in Var,
           NEW d \in History, NEW d2, \A u \in Known : d2[u] = d[u], Accumulates(d2[NewAcc], d, v),
           NEW ini, ini = Local("init", NewAcc, <<>>), NEW x, x = Local("update", NewAcc, <<v>>),
           NEW M, NEW p
    PROVE  Gained(M, d2, p, <<ini>>, <<x>>)
  <1>1. PICK t, l, w, added, ins, acc :
           /\ t = <<x>> /\ l = Len(Flushed) /\ w = Flushed \o t
           /\ added = <<ini>> /\ ins = InitsWith(added) /\ acc = NewAcc
    OBVIOUS
  <1>2. /\ acc \in Var /\ acc \notin Known
        /\ ini \in Stmt /\ ini.op = "init" /\ ini.dst = acc
        /\ x \in Stmt /\ x.op = "update" /\ x.dst = acc /\ x.args = <<v>> /\ ArgsOf(x) = {v}
    BY <1>1, ReductionIs
  <1>3. DOMAIN t = 1..1 /\ t[1] = x /\ t \in Seq(Stmt) /\ added \in Seq(Stmt) /\ DOMAIN added = 1..1 /\ added[1] = ini
    BY <1>1, <1>2
  <1>4. Initialized(added) = {acc}
    BY <1>2, <1>3 DEF Initialized, Declares
  <1>5. OneAdded(d, d2, added, x, w, l)
    BY <1>1, <1>2, <1>3, <1>4 DEF OneAdded
  <1>6. OneFinds(d, d2, added, x, w, l)
    BY <1>5, OneWorths
  <1>7. ~Assigned(w, l + 1, acc)
    <2>1. acc # None
      BY <1>2, NamesAssumption
    <2> QED
      BY <1>1, <1>2, <1>3, <2>1, NewUnassigned
  <1>8. acc \in Initialized(ins)
    <2>1. inits \in Seq(Stmt) /\ ins = inits \o added
      BY <1>1 DEF InitsWith, TypeOK
    <2> QED
      BY <1>3, <1>4, <2>1, InitializedConcat
  <1>9. acc[1] = "acc"
    BY <1>1 DEF NewAcc
  <1>10. ASSUME NEW r \in Rs
         PROVE  Right(M, d2, p, ins, w, l + 1, r)
    <2>1. w[l + 1] = x /\ Worths(d2, ins, w, l + 1, r) = Operated(d, x, r)
      BY <1>1, <1>6 DEF OneFinds
    <2>2. DOMAIN x.args = 1..1 /\ x.args[1] = v
      BY <1>2
    <2>3. Worths(d2, ins, w, l + 1, r)[1] = Now(d, v, r)
      BY <2>1, <2>2 DEF Operated
    <2>4. Worth(d2, ins, w, l + 1, acc, r) = Previous(d2[acc], Unit, r)
      BY <1>7, <1>8, <1>9 DEF Worth, Previous
    <2>5. Told(M, d2, p, ins, w, l + 1, r) = Mix(Previous(d2[acc], Unit, r), Now(d, v, r))
      BY <1>2, <2>1, <2>3, <2>4 DEF Told, Outcome
    <2> QED
      BY <1>1, <1>2, <2>1, <2>5 DEF Right, Writes, Accumulates
  <1>11. \A j \in DOMAIN t : \A r \in Turns(active) : Right(M, d2, p, ins, w, l + j, r)
    BY <1>3, <1>10 DEF Turns
  <1>12. Gained(M, d2, p, added, t)
    BY <1>1, <1>11 DEF Gained
  <1> QED
    BY <1>1, <1>12

(* The LoopBody of a reduction.                                            *)
LEMMA CalledReduces ==
    ASSUME ShapeInv, BodiesInv, child.mode = "body", child'.mode = "reduced", active,
           NEW c, c.op = "reduction", CallFits(Current, Closed, c), Records(c),
           NEW M, NEW d, NEW d2, NEW p, Called(M, d, p), Agrees(M, d, M, d2),
           NEW v, \A r \in Rs : Chosen(Held(d, r), c.is)[1] = Now(d, v, r),
           NEW h, Accumulates(h, d, v), \A r \in Rs : h[r] = d2[child'.vals[1]][r]
    PROVE  Called(M, d2, p)'
  <1>1. PICK l, w, body : l = Len(Current.calls) /\ w = WithCall(Current, c) /\ body = Current
    OBVIOUS
  <1>2. /\ body \in Body /\ l \in Nat /\ body.inLoop = active /\ child.mode # "idle"
        /\ \E W, A, S : BodyRight(M, p, body, W, A, S) /\ Linked(d, W, A)
    BY <1>1, CurrentCalled
  <1>3. PICK W, A, S : BodyRight(M, p, body, W, A, S) /\ Linked(d, W, A)
    BY <1>2
  <1>4. PICK x, W2 : x = [r \in Rs |-> W[l + 1][r]] /\ W2 = Wider(W, l, x)
    OBVIOUS
  <1>5. WiderBy(W2, W, l, x, active)
    BY <1>2, <1>4, WiderIs
  <1>6. c \in CallSet /\ Extends(w, body, c, l)
    <2>1. c \in CallSet
      BY DEF CallFits
    <2> QED
      BY <1>1, <1>2, <2>1, WithCallIs
  <1>7. \A r \in Turns(active) : r \in Rs
    BY Zero DEF Turns
  <1>8. ASSUME NEW r \in Turns(active)
        PROVE  CallRight(M, p, W2, h, S, w.calls, l + 1, r)
    <2>1. w.calls[l + 1] = c
      BY <1>6 DEF Extends
    <2>2. W2[l + 1][r] = W[l + 1][r] /\ W2[(l + 1) + 1][r] = W[l + 1][r]
      BY <1>4, <1>5, <1>7, <1>8 DEF WiderBy
    <2>3. W2[(l + 1) + 1][r] = Appended(M, S, W2, c, l + 1, r)
      BY <2>2 DEF Appended
    <2>4. W2[l + 1][r] = Held(d, r)
      BY <1>1, <1>3, <1>8, <2>2 DEF Linked
    <2>5. h[r] = Mix(Previous(h, Unit, r), Chosen(W2[l + 1][r], c.is)[1])
      BY <1>7, <1>8, <2>4 DEF Accumulates
    <2> QED
      BY <2>1, <2>3, <2>5 DEF CallRight
  <1>9. CallAdds(M, p, w, W2, h, S, l)
    <2>1. \A r \in Turns(body.inLoop) : CallRight(M, p, W2, h, S, w.calls, l + 1, r)
      BY <1>2, <1>8
    <2>2. c.op \notin WriteOp
      BY DEF WriteOp
    <2> QED
      BY <1>3, <1>6, <2>1, <2>2, CallAddsIs
  <1>10. Linked(d2, W2, h)'
    BY DEF Linked
  <1>11. SameTill(W, W2, l, active) /\ BodyRight(M, p, Current, W, A, S)
    BY <1>1, <1>3, <1>5 DEF WiderBy
  <1> QED
    BY <1>1, <1>2, <1>9, <1>10, <1>11, CalledMore

(* reduction. *)
LEMMA ReductionAccount ==
    ASSUME MemoryInv, TypeOK', NamesInv, ShapeInv, BodiesInv, NEW i \in DOMAIN child.vals,
           Reduction(i), Records(Call("reduction", None, None, <<i>>)),
           NEW p \in Points, NEW M, NEW d, Account(M, d, p)
    PROVE  \E d2 : Account(M, d2, p)'
  <1>1. TypeOK /\ IInv /\ status = "building" /\ active /\ child.mode # "idle" /\ child.mode = "body"
    <2>1. child.mode = "body" /\ InLoop
      BY DEF Reduction
    <2> QED
      BY <2>1, ChildWrites DEF MemoryInv
  <1>2. PICK v, acc, c, ini, x, added, t, none :
           /\ v = child.vals[i] /\ acc = NewAcc /\ c = Call("reduction", None, None, <<i>>)
           /\ ini = Local("init", acc, <<>>) /\ x = Local("update", acc, <<v>>)
           /\ added = <<ini>> /\ t = <<x>> /\ none = <<>>
    OBVIOUS
  <1>3. v \in Var /\ v \in Known
    BY <1>1, <1>2, ChildWrites DEF ShapeInv, ValuesKnown
  <1>4. /\ acc \in Var /\ acc \notin Known /\ x \in Stmt /\ x.dst = acc
        /\ ini \in Stmt /\ ini.op = "init" /\ ini.dst = acc
    BY <1>1, <1>2, <1>3, ReductionIs
  <1>5. /\ block' = Append(Flushed, x) /\ bindings' = <<>> /\ inits' = Append(inits, ini)
        /\ child'.vals = <<acc>> /\ child'.mode = "reduced"
        /\ UNCHANGED <<active, outer, status, fins, fwd, fwdRed, written>>
    BY <1>1, <1>2 DEF Reduction, NewAcc, builder, schedule, TypeOK, ChildOK
  <1>6. /\ none \in Seq(Stmt) /\ t \in Seq(Stmt) /\ DOMAIN t = 1..1 /\ t[1] = x
        /\ added \in Seq(Stmt) /\ DOMAIN added = 1..1 /\ added[1] = ini
    BY <1>2, <1>4
  <1>7. Gains(added, t, none)
    <2>1. Apart(t, Known)
      BY <1>4, <1>6 DEF Apart
    <2>2. Initialized(added) \cap Known = {}
      BY <1>4, <1>6 DEF Initialized, Declares
    <2>3. /\ inits' = inits \o added /\ fins' = fins \o none
          /\ block' = Flushed \o t
      BY <1>1, <1>2, <1>4, <1>5, NothingMore, PhaseSectionType, ZenonT(60) DEF TypeOK
    <2>4. Open' = Grown(Open, added, t, none)
      BY <1>1, <1>5, <1>6, <2>3, OpenGrows
    <2> QED
      BY <1>6, <2>1, <2>2, <2>4 DEF Gains
  <1>8. d \in History /\ RowFits(M, p) /\ Emitted(M, d, p) /\ Called(M, d, p) /\ Forwards(M, d)
    BY DEF Account
  <1>9. PICK h : Accumulates(h, d, v)
    BY <1>3, <1>8, AccumulatesIs
  <1>10. PICK d2 : d2 = [d EXCEPT ![acc] = h]
    OBVIOUS
  <1>11. d2 \in History /\ d2[acc] = h /\ \A u \in Known : d2[u] = d[u]
    <2>1. h \in [Rs -> Value]
      BY <1>9 DEF Accumulates
    <2>2. Known \subseteq Var
      BY <1>1, KnownIs
    <2> QED
      BY <1>4, <1>8, <1>10, <2>1, <2>2 DEF History
  <1>12. NowSame(d, d2) /\ Agrees(M, d, M, d2)
    BY <1>1, <1>7, <1>11, NowAll DEF Agrees, Agree
  <1>13. Emitted(M, d2, p)'
    <2>1. Gained(M, d2, p, added, t)
      BY <1>1, <1>2, <1>3, <1>8, <1>9, <1>11, ReductionGained
    <2>2. \A j \in DOMAIN none : FinRight(M, d2, p, none[j])
      BY <1>2
    <2> QED
      BY <1>1, <1>5, <1>7, <1>8, <1>12, <2>1, <2>2, EmittedGains
  <1>14. Called(M, d2, p)'
    <2>1. CallFits(Current, Closed, c) /\ c.op = "reduction" /\ c.is = <<i>> /\ Records(c)
      BY <1>1, <1>2, ReductionFits
    <2>2. \A r \in Rs : Chosen(Held(d, r), c.is)[1] = Now(d, v, r)
      BY <1>2, <2>1 DEF Chosen, Held
    <2>3. \A r \in Rs : h[r] = d2[child'.vals[1]][r]
      BY <1>5, <1>11
    <2> QED
      BY <1>1, <1>5, <1>8, <1>9, <1>12, <2>1, <2>2, <2>3, CalledReduces
  <1>15. RowFits(M, p)' /\ Forwards(M, d2)'
    <2>1. RowFits(M, p)'
      BY <1>5, <1>8 DEF RowFits
    <2> QED
      BY <1>5, <1>8, <1>12, <2>1, ForwardsRest
  <1> QED
    BY <1>11, <1>13, <1>14, <1>15 DEF Account

(* store_reduction. *)
LEMMA StoreReductionAccount ==
    ASSUME MemoryInv, TypeOK', NamesInv, ShapeInv, BodiesInv, NEW k \in RowIdx,
           StoreReduction(k), Records(Call("store_reduction", child.out, k, <<>>)),
           NEW p \in Points, NEW M, NEW d, Account(M, d, p)
    PROVE  \E M2 : Account(M2, d, p)'
  <1>1. TypeOK /\ IInv /\ status = "building" /\ child.mode # "idle" /\ child.mode = "reduced" /\ k \in Idx
    <2>1. child.mode = "reduced" /\ k \in Idx
      BY DEF StoreReduction, Idx
    <2> QED
      BY <2>1, ChildWrites DEF MemoryInv
  <1>2. PICK o, v, c, x, f, none :
           /\ o = child.out /\ v = child.vals[1] /\ c = Call("store_reduction", child.out, k, <<>>)
           /\ x = StoreTo("store", o, k, v) /\ f = <<x>> /\ none = <<>>
    OBVIOUS
  <1>3. o \in Outputs /\ written[o] = "no" /\ v \in Var /\ v \in Known
    <2>1. 1 \in DOMAIN child.vals
      BY <1>1, SMTT(60) DEF TypeOK, ChildOK
    <2> QED
      BY <1>1, <1>2, <2>1, ChildWrites DEF ShapeInv, ValuesKnown
  <1>4. /\ x \in Stmt /\ StoreStmts("store", o, k, v) = f
        /\ x.op = "store" /\ x.dst = None /\ x.buf = o /\ x.idx = k /\ x.args = <<v>>
    <2>1. PICK op : op = "store"
      OBVIOUS
    <2> QED
      BY <1>1, <1>2, <1>3, <2>1, StoreIs
  <1>5. /\ block' = Flushed /\ bindings' = <<>> /\ fins' = fins \o f
        /\ fwdRed' = [fwdRed EXCEPT ![<<o, k>>] = v]
        /\ written' = [written EXCEPT ![o] = "row"] /\ child' = Idle
        /\ UNCHANGED <<active, outer, status, inits, fwd>>
    BY <1>2, <1>4 DEF StoreReduction, ReductionForwardedBy, builder
  <1>6. none \in Seq(Stmt) /\ f \in Seq(Stmt) /\ DOMAIN f = 1..1 /\ f[1] = x /\ Initialized(none) = {}
    BY <1>2, <1>4, NothingMore
  <1>7. Gains(none, none, f)
    <2>1. Apart(none, Known)
      BY <1>2 DEF Apart
    <2>2. inits' = inits \o none /\ block' = Flushed \o none
      BY <1>1, <1>2, <1>5, NothingMore, PhaseSectionType DEF TypeOK
    <2>3. Open' = Grown(Open, none, none, f)
      BY <1>1, <1>5, <1>6, <2>2, OpenGrows
    <2> QED
      BY <1>6, <2>1, <2>3 DEF Gains
  <1>8. d \in History /\ RowFits(M, p) /\ Emitted(M, d, p) /\ Called(M, d, p) /\ Forwards(M, d)
    BY DEF Account
  <1>9. PICK M2 : M2 = [M EXCEPT ![<<o, 0>>] = d[v][Last1]]
    OBVIOUS
  <1>10. /\ o \in Buf /\ o \notin Reached /\ o \notin Inputs
         /\ \A b \in Buf, r \in Rs : <<b, r>> \in Cells
    BY <1>1, <1>3, OutUntouched, NamesAssumption DEF Buf, Cells
  <1>11. M2 \in Row /\ M2[<<o, 0>>] = d[v][Last1] /\ \A a \in Cells : a # <<o, 0>> => M2[a] = M[a]
    <2>1. <<o, 0>> \in Cells
      BY <1>10, Zero
    <2>2. d[v][Last1] \in Value
      BY <1>3, <1>8, Zero DEF History, Last1
    <2> QED
      BY <1>8, <1>9, <2>1, <2>2 DEF RowFits, Row
  <1>12. \A b \in Buf, r \in Rs : b # o \/ r # 0 => M2[<<b, r>>] = M[<<b, r>>]
    BY <1>10, <1>11
  <1>13. Untouched(M2, p, o)
    BY <1>3, <1>8, <1>10, <1>12 DEF Untouched, RowFits
  <1>14. Agrees(M, d, M2, d) /\ InputsKept(M2, p)
    <2>1. \A a \in Cells : a[1] # o => M2[a] = M[a]
      BY <1>11
    <2> QED
      BY <1>8, <1>10, <2>1 DEF Agrees, Agree, RowFits, InputsKept
  <1>15. NowSame(d, d)
    BY <1>1, <1>7, NowAll
  <1>16. Emitted(M2, d, p)'
    <2>1. Gained(M2, d, p, none, none)
      BY <1>2 DEF Gained
    <2>2. \A j \in DOMAIN f : FinRight(M2, d, p, f[j])
      BY <1>4, <1>6, <1>11, <1>13 DEF FinRight
    <2> QED
      BY <1>1, <1>5, <1>7, <1>8, <1>14, <2>1, <2>2, EmittedGains
  <1>17. written'[o] # "no" /\ \A b \in Outputs : b # o => written'[b] = written[b]
    BY <1>1, <1>3, <1>5 DEF TypeOK
  <1>18. RowFits(M2, p)'
    <2>1. \A b \in Outputs : b \in Buf
      BY DEF Buf
    <2> QED
      BY <1>8, <1>11, <1>12, <1>14, <1>17, <2>1 DEF RowFits
  <1>19. Called(M2, d, p)'
    <2>1. /\ CallFits(Current, Closed, c) /\ Records(c)
          /\ c.op = "store_reduction" /\ c.buf = o /\ c.idx = k
      BY <1>1, <1>2, StoreReductionFits
    <2>2. Cell(c, Last1) = <<o, 0>>
      BY <2>1, NamesAssumption DEF Cell, Place
    <2>3. M2[Cell(c, Last1)] = d[child.vals[1]][Last1] /\ Untouched(M2, p, c.buf)
      BY <1>2, <1>11, <1>13, <2>1, <2>2
    <2>4. c.op \in WriteOp /\ child'.mode = "idle"
      BY <1>5, <2>1 DEF WriteOp, Idle
    <2> QED
      BY <1>1, <1>8, <1>14, <2>1, <2>3, <2>4, CalledWrites
  <1>20. ASSUME NEW key \in Key
         PROVE  StoreTold(M2, d, key)' /\ ReductionTold(M2, d, key)'
    <2>1. StoreTold(M, d, key) /\ ReductionTold(M, d, key)
      BY <1>8 DEF Forwards
    <2>2. StoreTold(M2, d, key)'
      <3>1. fwd[key] # None => written'[key[1]] = written[key[1]]
        BY <1>3, <1>17 DEF ShapeInv, TablesKnown, Remembered
      <3> QED
        BY <1>5, <1>14, <1>15, <2>1, <3>1, StoreToldStays
    <2>3. CASE key = <<o, k>>
      <3>1. fwdRed'[key] = v /\ key[1] = o
        BY <1>1, <1>5, <2>3 DEF TypeOK
      <3> QED
        BY <1>11, <2>2, <3>1 DEF ReductionTold
    <2>4. CASE key # <<o, k>>
      <3>1. fwdRed'[key] = fwdRed[key]
        BY <1>1, <1>5, <2>4 DEF TypeOK
      <3> QED
        BY <1>14, <2>1, <2>2, <3>1, ReductionToldStays
    <2> QED
      BY <2>3, <2>4
  <1>21. Forwards(M2, d)'
    BY <1>20 DEF Forwards, Key, Buf, Idx
  <1> QED
    BY <1>8, <1>16, <1>18, <1>19, <1>21 DEF Account

(* A scan's states: what each iteration leaves in them, and what it mixes. *)
ReadNow(d, values, n, r) == [j \in 1..n |-> Now(d, values[j], r)]
StatesBefore(S, n, r) == IF r = 0 THEN [j \in 1..n |-> Undef] ELSE S[r - 1]
MixedState(S, xs, n, r, j) ==
    MixAll(<<StatesBefore(S, n, r)[j], xs[j]>> \o StatesBefore(S, n, r) \o xs)
Scans(S, d, values, n) ==
    /\ S \in [Rs -> [1..n -> Value]]
    /\ \A r \in Rs : S[r] = Combined(Previous(S, <<>>, r), ReadNow(d, values, n, r), r)

(* Two states and a row of states and inputs make values. *)
LEMMA MixedType ==
    ASSUME NEW n \in Nat, NEW ys \in [1..n -> Value], NEW xs \in [1..n -> Value], NEW j \in 1..n
    PROVE  MixAll(<<ys[j], xs[j]>> \o ys \o xs) \in Value
  <1>1. ys \in Seq(Value) /\ xs \in Seq(Value)
    BY FunctionIsSeq
  <1>2. <<ys[j], xs[j]>> \in Seq(Value)
    OBVIOUS
  <1>3. <<ys[j], xs[j]>> \o ys \o xs \in Seq(Value)
    BY <1>1, <1>2
  <1> QED
    BY <1>3, MixAllType

(* The new states of a scan are values. *)
LEMMA CombinedType ==
    ASSUME NEW n \in Nat, NEW ys \in [1..n -> Value], NEW xs \in [1..n -> Value], NEW r
    PROVE  Combined(ys, xs, r) \in [1..n -> Value]
  <1>1. \A j \in 1..n : xs[j] \in Value /\ MixAll(<<ys[j], xs[j]>> \o ys \o xs) \in Value
    BY MixedType
  <1>2. DOMAIN xs = 1..n
    OBVIOUS
  <1>3. Combined(ys, xs, r) = [j \in 1..n |-> IF r = 0 THEN xs[j] ELSE MixAll(<<ys[j], xs[j]>> \o ys \o xs)]
    BY <1>2 DEF Combined
  <1> QED
    BY <1>1, <1>3

(* The first states are the first inputs. *)
LEMMA CombinedFirst ==
    ASSUME NEW ys, NEW zs, NEW xs
    PROVE  Combined(ys, xs, 0) = Combined(zs, xs, 0)
  BY DEF Combined

(* Every scan has states. *)
LEMMA ScansIs ==
    ASSUME NEW d \in History, NEW n \in Nat, NEW values, \A j \in 1..n : values[j] \in Var
    PROVE  \E S : Scans(S, d, values, n)
  <1>1. PICK N, y, X : /\ N = ReductionSize /\ y = [r \in Rs |-> ReadNow(d, values, n, r)]
                       /\ X = [1..n -> Value]
    OBVIOUS
  <1>2. N \in Nat /\ Rs = 0..(N - 1)
    BY <1>1, SizesAssumption DEF Rs
  <1>3. y \in [Rs -> X]
    <2>1. \A r \in Rs, j \in 1..n : Now(d, values[j], r) \in Value
      BY WorthType DEF Now, End
    <2> QED
      BY <1>1, <2>1 DEF ReadNow
  <1> DEFINE F == [k \in 1..N |-> [z \in X |-> Combined(z, y[k - 1], k - 1)]]
             a == [j \in 1..n |-> Undef]
  <1>4. F \in [1..N -> [X -> X]]
    <2>1. \A k \in 1..N : y[k - 1] \in X
      BY <1>2, <1>3
    <2>2. \A k \in 1..N : \A z \in X : Combined(z, y[k - 1], k - 1) \in X
      BY <1>1, <2>1, CombinedType
    <2> QED
      BY <2>2
  <1>a. a \in X
    BY <1>1, ValuesAssumption
  <1>5. PICK f : Solves(f, F, a, N, X)
    <2> HIDE DEF F, a
    <2> QED
      BY <1>2, <1>4, <1>a, RecursionExists
  <1>6. f \in [0..N -> X] /\ \A k \in 1..N : f[k] = Combined(f[k - 1], y[k - 1], k - 1)
    <2>1. f \in [0..N -> X] /\ \A k \in 1..N : f[k] = F[k][f[k - 1]]
      BY <1>5 DEF Solves
    <2>2. \A k \in 1..N : f[k - 1] \in X
      BY <1>2, <2>1
    <2> QED
      BY <2>1, <2>2
  <1> DEFINE S == [r \in Rs |-> f[r + 1]]
  <1>7. S \in [Rs -> X]
    BY <1>2, <1>6
  <1>8. ASSUME NEW r \in Rs
        PROVE  S[r] = Combined(Previous(S, <<>>, r), y[r], r)
    <2>1. r + 1 \in 1..N /\ (r + 1) - 1 = r /\ r \in Nat
      BY <1>2
    <2>2. S[r] = Combined(f[r], y[r], r)
      BY <1>6, <2>1
    <2>3. CASE r = 0
      <3> HIDE DEF S
      <3>1. Combined(f[r], y[r], 0) = Combined(Previous(S, <<>>, r), y[r], 0)
        BY CombinedFirst
      <3> QED
        BY <2>2, <2>3, <3>1
    <2>4. CASE r # 0
      <3>1. r - 1 \in Rs /\ (r - 1) + 1 = r
        BY <1>2, <2>1, <2>4
      <3>2. S[r - 1] = f[r]
        BY <3>1
      <3> HIDE DEF S
      <3> QED
        BY <2>2, <2>4, <3>2 DEF Previous
    <2> QED
      BY <2>3, <2>4
  <1> HIDE DEF S
  <1>9. Scans(S, d, values, n)
    <2>1. \A r \in Rs : y[r] = ReadNow(d, values, n, r)
      BY <1>1
    <2> QED
      BY <1>1, <1>7, <1>8, <2>1 DEF Scans
  <1> QED
    BY <1>9

(* The account of a scan. *)
Scanning(d, d2, S, values, n) ==
    /\ d2 \in History /\ \A v \in Known : d2[v] = d[v]
    /\ \A j \in 1..n, r \in Rs :
          /\ d2[ScanName(j)][r] = S[r][j] /\ d2[NextName(j)][r] = S[r][j]
          /\ d2[TempName(j)][r] = MixedState(S, ReadNow(d, values, n, r), n, r, j)

(* Some account says so. *)
LEMMA ScanningIs ==
    ASSUME TypeOK, NEW d \in History, NEW n \in Nat, NEW values, \A j \in 1..n : values[j] \in Var,
           NEW S, Scans(S, d, values, n)
    PROVE  \E d2 : Scanning(d, d2, S, values, n)
  <1>1. PICK cs, ct : cs = count.scan /\ ct = count.tmp
    OBVIOUS
  <1>2. cs \in Nat /\ ct \in Nat
    BY <1>1 DEF TypeOK
  <1>3. \A j \in 1..n : /\ ScanName(j) = <<"scan", (cs + j) - 1>> /\ NextName(j) = <<"next", (cs + j) - 1>>
                        /\ TempName(j) = <<"tmp", (ct + j) - 1>>
                        /\ (((cs + j) - 1) - cs) + 1 = j /\ (((ct + j) - 1) - ct) + 1 = j
    BY <1>1, <1>2 DEF ScanName, NextName, TempName
  <1>4. PICK R, T : R = {ScanName(j) : j \in 1..n} \cup {NextName(j) : j \in 1..n} /\ T = {TempName(j) : j \in 1..n}
    OBVIOUS
  <1>5. \A r \in Rs : StatesBefore(S, n, r) \in [1..n -> Value] /\ ReadNow(d, values, n, r) \in [1..n -> Value]
    <2> TAKE r \in Rs
    <2>1. r # 0 => r - 1 \in Rs
      BY SizesAssumption DEF Rs
    <2>2. StatesBefore(S, n, r) \in [1..n -> Value]
      BY <2>1, ValuesAssumption DEF StatesBefore, Scans
    <2>3. \A j \in 1..n : Now(d, values[j], r) \in Value
      BY WorthType DEF Now, End
    <2> QED
      BY <2>2, <2>3 DEF ReadNow
  <1>6. \A j \in 1..n, r \in Rs : MixedState(S, ReadNow(d, values, n, r), n, r, j) \in Value /\ S[r][j] \in Value
    <2> TAKE j \in 1..n, r \in Rs
    <2>1. PICK ys, xs : ys = StatesBefore(S, n, r) /\ xs = ReadNow(d, values, n, r)
      OBVIOUS
    <2>2. MixAll(<<ys[j], xs[j]>> \o ys \o xs) \in Value
      BY <1>5, <2>1, MixedType
    <2> QED
      BY <2>1, <2>2 DEF MixedState, Scans
  <1> DEFINE own(v, r) == S[r][(v[2] - cs) + 1]
             mix(v, r) == MixedState(S, ReadNow(d, values, n, r), n, r, (v[2] - ct) + 1)
             d2 == [v \in Var |-> [r \in Rs |-> IF v \in R THEN own(v, r) ELSE IF v \in T THEN mix(v, r) ELSE d[v][r]]]
  <1>7. \A j \in 1..n, r \in Rs : /\ own(ScanName(j), r) = S[r][j] /\ own(NextName(j), r) = S[r][j]
                                  /\ mix(TempName(j), r) = MixedState(S, ReadNow(d, values, n, r), n, r, j)
    <2> TAKE j \in 1..n, r \in Rs
    <2>1. ScanName(j)[2] = (cs + j) - 1 /\ NextName(j)[2] = (cs + j) - 1 /\ TempName(j)[2] = (ct + j) - 1
      BY <1>3
    <2> QED
      BY <1>3, <2>1
  <1>8. \A j \in 1..n : /\ ScanName(j) \in R /\ NextName(j) \in R /\ TempName(j) \in T /\ TempName(j) \notin R
                        /\ ScanName(j) \in Var /\ NextName(j) \in Var /\ TempName(j) \in Var
    <2> TAKE j \in 1..n
    <2>1. TempName(j) \notin R
      BY <1>3, <1>4
    <2>2. ScanName(j) \in Var /\ NextName(j) \in Var /\ TempName(j) \in Var
      BY ScanNamesNew
    <2> QED
      BY <1>4, <2>1, <2>2
  <1>9. \A v \in Known : v \notin R /\ v \notin T
    <2>1. \A j \in 1..n : ScanName(j) \notin Known /\ NextName(j) \notin Known /\ TempName(j) \notin Known
      BY ScanNamesNew
    <2> QED
      BY <1>4, <2>1
  <1>10. \A v \in R, r \in Rs : own(v, r) \in Value
    <2> HIDE DEF own
    <2> QED
      BY <1>4, <1>6, <1>7
  <1>11. \A v \in T, r \in Rs : mix(v, r) \in Value
    <2> HIDE DEF mix
    <2> QED
      BY <1>4, <1>6, <1>7
  <1> HIDE DEF own, mix
  <1>12. d2 \in History
    BY <1>10, <1>11 DEF History
  <1>13. \A v \in Known : d2[v] = d[v]
    <2>1. Known \subseteq Var
      BY KnownIs
    <2>2. \A v \in Known : d2[v] = [r \in Rs |-> d[v][r]]
      BY <1>9, <2>1
    <2>3. \A v \in Known : d[v] = [r \in Rs |-> d[v][r]]
      BY <2>1 DEF History
    <2> QED
      BY <2>2, <2>3
  <1>14. \A j \in 1..n, r \in Rs :
          /\ d2[ScanName(j)][r] = S[r][j] /\ d2[NextName(j)][r] = S[r][j]
          /\ d2[TempName(j)][r] = MixedState(S, ReadNow(d, values, n, r), n, r, j)
    BY <1>7, <1>8
  <1> HIDE DEF d2
  <1>15. Scanning(d, d2, S, values, n)
    BY <1>12, <1>13, <1>14 DEF Scanning
  <1> QED
    BY <1>15

(* What the statements of a scan find: the context of the next lemmas. *)
InScan(d, d2, S, values, n, t, added, ins, w, l) ==
    /\ Scanned(values, n, t, added) /\ Scans(S, d, values, n) /\ Scanning(d, d2, S, values, n)
    /\ values \in Seq(Var) /\ values # <<>> /\ n = Len(values) /\ d \in History
    /\ \A j \in 1..n : values[j] \in Known
    /\ w = Flushed \o t /\ l = Len(Flushed) /\ ins = InitsWith(added)

(* It is an account of what the scan adds. *)
LEMMA ScanAdding ==
    ASSUME TypeOK, NEW d, NEW d2, NEW S, NEW values, NEW n, NEW t, NEW added, NEW ins, NEW w, NEW l,
           InScan(d, d2, S, values, n, t, added, ins, w, l)
    PROVE  Adding(d, d2, added, t, w, l, n + n + n) /\ Initialized(added) = {ScanName(j) : j \in 1..n}
  <1>1. /\ n \in Nat \ {0} /\ DOMAIN t = 1..(n + n + n) /\ DOMAIN added = 1..n
        /\ t \in Seq(Stmt) /\ added \in Seq(Stmt)
    BY DEF InScan, Scanned
  <1>2. \A j \in 1..n : ScanName(j) \notin Known /\ NextName(j) \notin Known /\ TempName(j) \notin Known
    BY ScanNamesNew
  <1>3. \A j \in 1..n : added[j].op = "uninit" /\ added[j].dst = ScanName(j)
    <2>1. \A j \in 1..n : added[j] = UninitOf(j)
      BY DEF InScan, Scanned
    <2> QED
      BY <2>1, LocalFields DEF UninitOf
  <1>4. Initialized(added) = {ScanName(j) : j \in 1..n}
    <2>1. Declares(added, "init") = {}
      BY <1>1, <1>3 DEF Declares
    <2>2. Declares(added, "uninit") = {ScanName(j) : j \in 1..n}
      BY <1>1, <1>3 DEF Declares
    <2> QED
      BY <2>1, <2>2 DEF Initialized
  <1>5. Apart(t, Known)
    <2>1. ASSUME NEW i \in DOMAIN t
          PROVE  t[i].dst \notin Known
      <3>1. PICK j \in 1..n : t[i] \in {CombineOf(values, j), PickOf(values, j), MoveOf(j)}
        BY ScanStmtIs DEF InScan
      <3>2. CombineOf(values, j).dst = TempName(j) /\ PickOf(values, j).dst = NextName(j) /\ MoveOf(j).dst = ScanName(j)
        BY ScanStmtSound DEF InScan
      <3> QED
        BY <1>2, <3>1, <3>2
    <2> QED
      BY <2>1 DEF Apart
  <1>6. Len(t) = n + n + n
    BY <1>1
  <1>7. \A v \in Known : d2[v] = d[v]
    BY DEF InScan, Scanning
  <1> QED
    BY <1>1, <1>2, <1>4, <1>5, <1>6, <1>7 DEF Adding, InScan

(* Its inputs are worth what the LoopBody holds of them. *)
LEMMA ScanInputs ==
    ASSUME TypeOK, ShapeInv, status = "building", NEW d, NEW d2, NEW S, NEW values, NEW n, NEW t, NEW added,
           NEW ins, NEW w, NEW l, InScan(d, d2, S, values, n, t, added, ins, w, l),
           NEW j \in 1..n, NEW i \in 1..(n + n + n), NEW m, m = l + i, NEW r \in Rs
    PROVE  Worth(d2, ins, w, m, values[j], r) = ReadNow(d, values, n, r)[j]
  <1>1. PICK k, v : k = n + n + n /\ v = values[j]
    OBVIOUS
  <1>2. Adding(d, d2, added, t, w, l, k)
    BY <1>1, ScanAdding
  <1>3. Within(i, k, l, m)
    BY <1>1 DEF Within, InScan, Scanned
  <1>4. v \in Known /\ ins = InitsWith(added)
    BY <1>1 DEF InScan
  <1>5. Worth(d2, InitsWith(added), w, m, v, r) = Now(d, v, r)
    BY <1>2, <1>3, <1>4, TailNow
  <1> QED
    BY <1>1, <1>4, <1>5 DEF ReadNow

(* Its states are worth what the iteration before left in them, until they *)
(* are assigned.                                                           *)
LEMMA ScanStates ==
    ASSUME TypeOK, ShapeInv, status = "building", active, NEW d, NEW d2, NEW S, NEW values, NEW n, NEW t, NEW added,
           NEW ins, NEW w, NEW l, InScan(d, d2, S, values, n, t, added, ins, w, l),
           NEW j \in 1..n, NEW i \in 1..n, NEW m, m = l + i, NEW r \in Rs
    PROVE  Worth(d2, ins, w, m, ScanName(j), r) = StatesBefore(S, n, r)[j]
  <1>1. PICK v, seq, k : v = ScanName(j) /\ seq = Flushed /\ k = n + n + n
    OBVIOUS
  <1>2. n \in Nat \ {0} /\ t \in Seq(Stmt) /\ DOMAIN t = 1..k /\ Len(t) = k /\ added \in Seq(Stmt)
    BY <1>1 DEF InScan, Scanned
  <1>3. v \in Var /\ v \notin Known /\ v[1] = "scan" /\ v # None
    BY <1>1, ScanNamesNew, NamesAssumption
  <1>4. v \in Initialized(ins)
    <2>1. v \in Initialized(added)
      BY <1>1, ScanAdding
    <2>2. inits \in Seq(Stmt) /\ ins = inits \o added
      BY DEF InitsWith, InScan, TypeOK
    <2> QED
      BY <1>2, <2>1, <2>2, InitializedConcat
  <1>5. ~Assigned(w, m, v)
    <2>1. SUFFICES ASSUME NEW q \in DOMAIN w, q < m, w[q].dst = v
                   PROVE  FALSE
      BY DEF Assigned
    <2>2. seq \in Seq(Stmt) /\ w = seq \o t /\ l = Len(seq)
      BY <1>1, PhaseSectionType DEF InScan
    <2>3. Joined(Stmt, w, seq, t, l, k)
      BY <1>2, <2>2, ConcatAt
    <2>4. l \in Nat /\ DOMAIN w = 1..(l + k)
      BY <2>2, <2>3 DEF Joined
    <2>5. CASE q < l + 1
      <3>1. ~Assigned(w, l + 1, v)
        BY <1>2, <1>3, NewUnassigned DEF InScan
      <3> QED
        BY <2>1, <2>5, <3>1 DEF Assigned
    <2>6. CASE ~(q < l + 1)
      <3>1. PICK h : h = q - l
        OBVIOUS
      <3>2. h \in 1..n /\ q = l + h /\ h \in 1..k
        BY <1>2, <2>1, <2>4, <2>6, <1>1, <3>1
      <3>3. w[q] = t[h] /\ t[h] = CombineOf(values, h)
        BY <2>3, <3>2 DEF Joined, InScan, Scanned
      <3>4. t[h].dst = TempName(h)
        BY <3>2, <3>3, ScanStmtSound DEF InScan
      <3>5. TempName(h)[1] = "tmp"
        BY DEF TempName
      <3> QED
        BY <1>3, <2>1, <3>3, <3>4, <3>5
    <2> QED
      BY <2>5, <2>6
  <1>6. Worth(d2, ins, w, m, v, r) =
           IF r # 0 THEN d2[v][r - 1] ELSE IF v[1] = "acc" THEN Unit ELSE Undef
    BY <1>4, <1>5 DEF Worth
  <1>7. CASE r = 0
    BY <1>1, <1>3, <1>6, <1>7 DEF StatesBefore
  <1>8. CASE r # 0
    <2>1. r - 1 \in Rs
      BY <1>8, SizesAssumption DEF Rs
    <2>2. d2[v][r - 1] = S[r - 1][j]
      BY <1>1, <2>1 DEF InScan, Scanning
    <2> QED
      BY <1>1, <1>6, <1>8, <2>2 DEF StatesBefore
  <1> QED
    BY <1>7, <1>8

(* What it has assigned is worth what this iteration gave it. *)
Ago(t, n, i, j, l, m, v) ==
    i \in 1..(n + n + n) /\ j \in 1..(n + n + n) /\ j < i /\ m = l + i /\ v = t[j].dst

(* A local assigned earlier in the turn is worth what the turn gave it. *)
LEMMA ScanAssigned ==
    ASSUME TypeOK, NEW d, NEW d2, NEW S, NEW values, NEW n, NEW t, NEW added,
           NEW ins, NEW w, NEW l, InScan(d, d2, S, values, n, t, added, ins, w, l),
           NEW i, NEW j, NEW m, NEW v, Ago(t, n, i, j, l, m, v), NEW r
    PROVE  Worth(d2, ins, w, m, v, r) = d2[v][r]
  <1>1. PICK seq, k : seq = Flushed /\ k = n + n + n
    OBVIOUS
  <1>2. n \in Nat \ {0} /\ t \in Seq(Stmt) /\ DOMAIN t = 1..k /\ Len(t) = k
    BY <1>1 DEF InScan, Scanned
  <1>3. TailOf(w, seq, t, l, k)
    BY <1>1, <1>2, PhaseSectionType DEF TailOf, InScan
  <1>4. Earlier(j, i, k) /\ m = l + i /\ v = t[j].dst
    BY <1>1, <1>2 DEF Earlier, Ago
  <1>5. Assigned(w, m, t[j].dst)
    BY <1>3, <1>4, TailAssigned
  <1> QED
    BY <1>4, <1>5 DEF Worth

(* The combine of a state is right. *)
LEMMA CombineRight ==
    ASSUME TypeOK, ShapeInv, status = "building", active, NEW d, NEW d2, NEW S, NEW values, NEW n, NEW t, NEW added,
           NEW ins, NEW w, NEW l, InScan(d, d2, S, values, n, t, added, ins, w, l),
           NEW j \in 1..n, NEW M, NEW p, NEW r \in Rs
    PROVE  Right(M, d2, p, ins, w, l + j, r)
  <1>1. PICK m, args, ys, xs, two, most, both :
           /\ m = l + j /\ args = CombineArgs(values, j)
           /\ ys = StatesBefore(S, n, r) /\ xs = ReadNow(d, values, n, r)
           /\ two = <<ys[j], xs[j]>> /\ most = two \o ys /\ both = most \o xs
    OBVIOUS
  <1>2. /\ n \in Nat \ {0} /\ t \in Seq(Stmt) /\ DOMAIN t = 1..(n + n + n) /\ Len(t) = n + n + n
        /\ t[j] = CombineOf(values, j) /\ j \in 1..(n + n + n)
    BY DEF InScan, Scanned
  <1>3. w[m] = t[j]
    <2>1. PICK seq, k : seq = Flushed /\ k = n + n + n
      OBVIOUS
    <2>2. Joined(Stmt, w, seq, t, l, k)
      BY <1>2, <2>1, PhaseSectionType, ConcatAt DEF InScan
    <2> QED
      BY <1>1, <1>2, <2>1, <2>2 DEF Joined
  <1>4. t[j].op = "combine" /\ t[j].dst = TempName(j) /\ t[j].args = args
    BY <1>1, <1>2, ScanStmtSound DEF InScan
  <1>5. CombineReads(values, n, j, args)
    BY <1>1, ScanStmtFields DEF InScan
  <1>6. \A i \in 1..n : /\ Worth(d2, ins, w, m, ScanName(i), r) = ys[i]
                        /\ Worth(d2, ins, w, m, values[i], r) = xs[i]
    <2> TAKE i \in 1..n
    <2>1. Worth(d2, ins, w, m, ScanName(i), r) = ys[i]
      BY <1>1, ScanStates
    <2>3. m = l + j /\ j \in 1..(n + n + n)
      BY <1>1, <1>2
    <2>2. Worth(d2, ins, w, m, values[i], r) = xs[i]
      <3>1. Worth(d2, ins, w, m, values[i], r) = ReadNow(d, values, n, r)[i]
        BY <2>3, ScanInputs
      <3> QED
        BY <1>1, <3>1
    <2> QED
      BY <2>1, <2>2
  <1>7. DOMAIN ys = 1..n /\ DOMAIN xs = 1..n /\ ys \in Seq(Value) /\ xs \in Seq(Value) /\ Len(ys) = n /\ Len(xs) = n
    <2>1. r # 0 => r - 1 \in Rs
      BY SizesAssumption DEF Rs
    <2>2. ys \in [1..n -> Value]
      BY <1>1, <2>1, ValuesAssumption DEF StatesBefore, InScan, Scans
    <2>3. xs \in [1..n -> Value]
      <3>1. \A i \in 1..n : Now(d, values[i], r) \in Value
        BY WorthType DEF Now, End, InScan
      <3> QED
        BY <1>1, <3>1 DEF ReadNow
    <2> QED
      BY <1>2, <2>2, <2>3, FunctionIsSeq
  <1>8. two \in Seq(Value) /\ Len(two) = 2 /\ two[1] = ys[j] /\ two[2] = xs[j]
    BY <1>1, <1>7
  <1>9. Joined(Value, most, two, ys, 2, n)
    BY <1>1, <1>7, <1>8, ConcatAt
  <1>10. Joined(Value, both, most, xs, 2 + n, n)
    <2>1. most \in Seq(Value) /\ Len(most) = 2 + n
      BY <1>9 DEF Joined
    <2> QED
      BY <1>1, <1>7, <2>1, ConcatAt
  <1>11. DOMAIN both = 1..(2 + n + n)
    BY <1>10 DEF Joined
  <1>12. DOMAIN args = 1..(2 + n + n) /\ args[1] = ScanName(j) /\ args[2] = values[j]
         /\ \A i \in 1..n : args[2 + i] = ScanName(i) /\ args[(2 + n) + i] = values[i]
    BY <1>5 DEF CombineReads
  <1>13. both[1] = ys[j] /\ both[2] = xs[j] /\ \A i \in 1..n : both[2 + i] = ys[i] /\ both[(2 + n) + i] = xs[i]
    <2>1. \A i \in 1..(2 + n) : both[i] = most[i]
      BY <1>10 DEF Joined
    <2>2. \A i \in 1..n : both[(2 + n) + i] = xs[i]
      BY <1>10 DEF Joined
    <2>3. \A i \in 1..n : most[2 + i] = ys[i]
      BY <1>9 DEF Joined
    <2>4. most[1] = two[1] /\ most[2] = two[2]
      BY <1>9 DEF Joined
    <2>5. \A i \in 1..n : 2 + i \in 1..(2 + n)
      BY <1>2
    <2>6. 1 \in 1..(2 + n) /\ 2 \in 1..(2 + n)
      BY <1>2
    <2> QED
      BY <1>8, <2>1, <2>2, <2>3, <2>4, <2>5, <2>6
  <1>14. \A a \in 1..(2 + n + n) : Worth(d2, ins, w, m, args[a], r) = both[a]
    <2> TAKE a \in 1..(2 + n + n)
    <2>1. CASE a = 1
      BY <1>6, <1>12, <1>13, <2>1
    <2>2. CASE a = 2
      BY <1>6, <1>12, <1>13, <2>2
    <2>3. CASE \E i \in 1..n : a = 2 + i
      BY <1>6, <1>12, <1>13, <2>3
    <2>4. CASE \E i \in 1..n : a = (2 + n) + i
      BY <1>6, <1>12, <1>13, <2>4
    <2>5. a # 1 /\ a # 2 => \/ a - 2 \in 1..n /\ a = 2 + (a - 2)
                            \/ a - (2 + n) \in 1..n /\ a = (2 + n) + (a - (2 + n))
      BY <1>2
    <2> QED
      BY <2>1, <2>2, <2>3, <2>4, <2>5
  <1>15. Worths(d2, ins, w, m, r) = both
    <2>1. Worths(d2, ins, w, m, r) = [a \in 1..(2 + n + n) |-> Worth(d2, ins, w, m, args[a], r)]
      BY <1>3, <1>4, <1>12 DEF Worths
    <2>2. both = [a \in 1..(2 + n + n) |-> both[a]]
      BY <1>10, <1>11 DEF Joined
    <2> QED
      BY <1>14, <2>1, <2>2
  <1>16. Told(M, d2, p, ins, w, m, r) = MixAll(both)
    BY <1>3, <1>4, <1>15 DEF Told, Outcome
  <1>17. d2[TempName(j)][r] = MixAll(both)
    BY <1>1 DEF InScan, Scanning, MixedState
  <1> QED
    BY <1>1, <1>3, <1>4, <1>16, <1>17 DEF Right, Writes

(* The new state is what the definition of a scan says. *)
LEMMA ScanState ==
    ASSUME NEW S, NEW d, NEW values, NEW n \in Nat, Scans(S, d, values, n), NEW j \in 1..n, NEW r \in Rs,
           NEW xs, xs = ReadNow(d, values, n, r)
    PROVE  S[r][j] = IF r = 0 THEN xs[j] ELSE MixedState(S, xs, n, r, j)
  <1>1. S[r] = Combined(Previous(S, <<>>, r), xs, r) /\ DOMAIN xs = 1..n
    BY DEF Scans, ReadNow
  <1>2. CASE r = 0
    BY <1>1, <1>2 DEF Combined
  <1>3. CASE r # 0
    BY <1>1, <1>3 DEF Combined, Previous, MixedState, StatesBefore
  <1> QED
    BY <1>2, <1>3

(* The pick and the move of a state are right. *)
LEMMA PickRight ==
    ASSUME TypeOK, ShapeInv, status = "building", active, NEW d, NEW d2, NEW S, NEW values, NEW n, NEW t, NEW added,
           NEW ins, NEW w, NEW l, InScan(d, d2, S, values, n, t, added, ins, w, l),
           NEW j \in 1..n, NEW i, i = j + n, NEW M, NEW p, NEW r \in Rs
    PROVE  Right(M, d2, p, ins, w, l + i, r)
  <1>1. PICK m, xs, v : m = l + i /\ xs = ReadNow(d, values, n, r) /\ v = TempName(j)
    OBVIOUS
  <1>2. /\ n \in Nat \ {0} /\ t \in Seq(Stmt) /\ DOMAIN t = 1..(n + n + n) /\ Len(t) = n + n + n
        /\ t[i] = PickOf(values, j) /\ i \in 1..(n + n + n)
        /\ t[j] = CombineOf(values, j) /\ j \in 1..(n + n + n) /\ j < i
    BY DEF InScan, Scanned
  <1>3. w[m] = t[i]
    <2>1. PICK seq, k : seq = Flushed /\ k = n + n + n
      OBVIOUS
    <2>2. Joined(Stmt, w, seq, t, l, k)
      BY <1>2, <2>1, PhaseSectionType, ConcatAt DEF InScan
    <2> QED
      BY <1>1, <1>2, <2>1, <2>2 DEF Joined
  <1>4. t[i].op = "pick" /\ t[i].dst = NextName(j) /\ t[i].args = <<values[j], v>>
    BY <1>1, <1>2, ScanStmtSound DEF InScan
  <1>5. Ago(t, n, i, j, l, m, v)
    <2>1. t[j].dst = v
      BY <1>1, <1>2, LocalFields DEF CombineOf
    <2> QED
      BY <1>1, <1>2, <2>1 DEF Ago
  <1>6. Worth(d2, ins, w, m, values[j], r) = xs[j]
    BY <1>1, <1>2, ScanInputs
  <1>7. Worth(d2, ins, w, m, v, r) = d2[v][r]
    BY <1>5, ScanAssigned
  <1>8. Worths(d2, ins, w, m, r)[1] = xs[j] /\ Worths(d2, ins, w, m, r)[2] = d2[v][r]
    BY <1>3, <1>4, <1>6, <1>7 DEF Worths
  <1>9. Told(M, d2, p, ins, w, m, r) = IF r = 0 THEN xs[j] ELSE d2[v][r]
    BY <1>3, <1>4, <1>8 DEF Told, Outcome
  <1>10. S[r][j] = IF r = 0 THEN xs[j] ELSE MixedState(S, xs, n, r, j)
    BY <1>1, <1>2, ScanState DEF InScan
  <1>11. d2[v][r] = MixedState(S, xs, n, r, j) /\ d2[NextName(j)][r] = S[r][j]
    BY <1>1 DEF InScan, Scanning
  <1> QED
    BY <1>1, <1>3, <1>4, <1>9, <1>10, <1>11 DEF Right, Writes

(* Then the move. *)
LEMMA MoveRight ==
    ASSUME TypeOK, ShapeInv, status = "building", active, NEW d, NEW d2, NEW S, NEW values, NEW n, NEW t, NEW added,
           NEW ins, NEW w, NEW l, InScan(d, d2, S, values, n, t, added, ins, w, l),
           NEW j \in 1..n, NEW i, i = j + n + n, NEW M, NEW p, NEW r \in Rs
    PROVE  Right(M, d2, p, ins, w, l + i, r)
  <1>1. PICK m, v, h : m = l + i /\ v = NextName(j) /\ h = j + n
    OBVIOUS
  <1>2. /\ n \in Nat \ {0} /\ t \in Seq(Stmt) /\ DOMAIN t = 1..(n + n + n) /\ Len(t) = n + n + n
        /\ t[i] = MoveOf(j) /\ i \in 1..(n + n + n)
        /\ t[h] = PickOf(values, j) /\ h \in 1..(n + n + n) /\ h < i
    BY <1>1 DEF InScan, Scanned
  <1>3. w[m] = t[i]
    <2>1. PICK seq, k : seq = Flushed /\ k = n + n + n
      OBVIOUS
    <2>2. Joined(Stmt, w, seq, t, l, k)
      BY <1>2, <2>1, PhaseSectionType, ConcatAt DEF InScan
    <2> QED
      BY <1>1, <1>2, <2>1, <2>2 DEF Joined
  <1>4. t[i].op = "move" /\ t[i].dst = ScanName(j) /\ t[i].args = <<v>>
    BY <1>1, <1>2, ScanStmtSound, SMTT(60) DEF InScan
  <1>5. Ago(t, n, i, h, l, m, v)
    <2>1. t[h].dst = v
      BY <1>1, <1>2, LocalFields DEF PickOf
    <2> QED
      BY <1>1, <1>2, <2>1 DEF Ago
  <1>6. Worth(d2, ins, w, m, v, r) = d2[v][r]
    BY <1>5, ScanAssigned
  <1>7. Worths(d2, ins, w, m, r)[1] = d2[v][r]
    BY <1>3, <1>4, <1>6 DEF Worths
  <1>8. Told(M, d2, p, ins, w, m, r) = d2[v][r]
    BY <1>3, <1>4, <1>7 DEF Told, Outcome
  <1>9. d2[v][r] = S[r][j] /\ d2[ScanName(j)][r] = S[r][j]
    BY <1>1 DEF InScan, Scanning
  <1> QED
    BY <1>1, <1>3, <1>4, <1>8, <1>9 DEF Right, Writes

(* All of them are. *)
LEMMA ScanGained ==
    ASSUME TypeOK, ShapeInv, status = "building", active, NEW d, NEW d2, NEW S, NEW values, NEW n, NEW t, NEW added,
           NEW ins, NEW w, NEW l, InScan(d, d2, S, values, n, t, added, ins, w, l), NEW M, NEW p
    PROVE  Gained(M, d2, p, added, t)
  <1>1. ASSUME NEW i \in DOMAIN t, NEW r \in Rs
        PROVE  Right(M, d2, p, ins, w, l + i, r)
    <2>1. PICK j \in 1..n : i = j \/ i = j + n \/ i = j + n + n
      <3>1. Scanned(values, n, t, added)
        BY DEF InScan
      <3>2. \E j \in 1..n : \/ i = j /\ t[i] = CombineOf(values, j)
                            \/ i = j + n /\ t[i] = PickOf(values, j)
                            \/ i = j + n + n /\ t[i] = MoveOf(j)
        BY <3>1, ScanStmtIs
      <3> QED
        BY <3>2
    <2>2. CASE i = j
      BY <2>2, CombineRight
    <2>3. CASE i = j + n
      BY <2>3, PickRight
    <2>4. CASE i = j + n + n
      BY <2>4, MoveRight
    <2> QED
      BY <2>1, <2>2, <2>3, <2>4
  <1>2. \A i \in DOMAIN t : \A r \in Turns(active) : Right(M, d2, p, ins, w, l + i, r)
    BY <1>1 DEF Turns
  <1> QED
    BY <1>2 DEF Gained, InScan

(* The LoopBody of a scan.                                                 *)
StatesFrom(S, d, c) == \A r \in Rs : S[r] = Combined(Previous(S, <<>>, r), Chosen(Held(d, r), c.is), r)
StatesNext(S, d2, vs) == \A r \in Rs : S[r] = [i \in DOMAIN vs |-> Now(d2, vs[i], r)']

(* The body stays right with its scan. *)
LEMMA CalledScans ==
    ASSUME TypeOK, ShapeInv, BodiesInv, child.mode = "body", child'.mode = "scanned", active, active',
           NEW c, c.op = "scan", CallFits(Current, Closed, c), Records(c),
           NEW M, NEW d, NEW d2, NEW p, Called(M, d, p), Agrees(M, d, M, d2), NowSame(d, d2),
           NEW S, StatesFrom(S, d, c),
           NEW vs \in Seq(Var), child'.vals = child.vals \o vs, StatesNext(S, d2, vs)
    PROVE  Called(M, d2, p)'
  <1>1. PICK l, w, body : l = Len(Current.calls) /\ w = WithCall(Current, c) /\ body = Current
    OBVIOUS
  <1>2. /\ body \in Body /\ l \in Nat /\ body.inLoop = active /\ child.mode # "idle"
        /\ \E W, A, S0 : BodyRight(M, p, body, W, A, S0) /\ Linked(d, W, A)
    BY <1>1, CurrentCalled
  <1>3. PICK W, A, S0 : BodyRight(M, p, body, W, A, S0) /\ Linked(d, W, A)
    BY <1>2
  <1>4. PICK x, W2 : x = [r \in Rs |-> Held(d2, r)'] /\ W2 = Wider(W, l, x)
    OBVIOUS
  <1>5. WiderBy(W2, W, l, x, active)
    BY <1>2, <1>4, WiderIs
  <1>6. c \in CallSet /\ Extends(w, body, c, l)
    <2>1. c \in CallSet
      BY DEF CallFits
    <2> QED
      BY <1>1, <1>2, <2>1, WithCallIs
  <1>7. \A r \in Turns(active) : r \in Rs
    BY Zero DEF Turns
  <1>8. ASSUME NEW r \in Turns(active)
        PROVE  CallRight(M, p, W2, A, S, w.calls, l + 1, r)
    <2>1. w.calls[l + 1] = c
      BY <1>6 DEF Extends
    <2>2. W2[l + 1][r] = Held(d, r) /\ W2[(l + 1) + 1][r] = Held(d2, r)'
      BY <1>1, <1>3, <1>4, <1>5, <1>7, <1>8 DEF WiderBy, Linked
    <2>3. Held(d2, r)' = Held(d, r) \o S[r]
      <3>1. PICK held : held = [i \in DOMAIN vs |-> Now(d2, vs[i], r)']
        OBVIOUS
      <3>2. Held(d2, r)' = Held(d, r) \o held
        <4>1. r \in Rs
          BY <1>7, <1>8
        <4>2. /\ TypeOK /\ ShapeInv /\ NowSame(d, d2) /\ vs \in Seq(Var)
              /\ child'.vals = child.vals \o vs
          OBVIOUS
        <4> QED
          BY ONLY <3>1, <4>1, <4>2, HeldMore
      <3>3. held = S[r]
        BY <1>7, <1>8, <3>1 DEF StatesNext
      <3> QED
        BY <3>2, <3>3
    <2>4. W2[(l + 1) + 1][r] = Appended(M, S, W2, c, l + 1, r)
      BY <2>2, <2>3 DEF Appended
    <2>5. S[r] = Combined(Previous(S, <<>>, r), Chosen(W2[l + 1][r], c.is), r)
      BY <1>7, <1>8, <2>2 DEF StatesFrom
    <2> QED
      BY <2>1, <2>4, <2>5 DEF CallRight
  <1>9. CallAdds(M, p, w, W2, A, S, l)
    <2>1. \A r \in Turns(body.inLoop) : CallRight(M, p, W2, A, S, w.calls, l + 1, r)
      BY <1>2, <1>8
    <2>2. c.op \notin WriteOp
      BY DEF WriteOp
    <2> QED
      BY <1>3, <1>6, <2>1, <2>2, CallAddsIs
  <1>10. Linked(d2, W2, A)'
    <2>1. Current' = w /\ Len(w.calls) + 1 = l + 2
      <3>1. bodies \in Seq(Body) /\ bodies # <<>>
        BY <1>2 DEF BodiesInv, Body
      <3>2. Current' = w
        BY <1>1, <1>6, <3>1, RecordsIs
      <3> QED
        BY <1>2, <1>6, <3>2 DEF Extends
    <2>2. \A r \in Turns(active)' : W2[l + 2][r] = Held(d2, r)'
      BY <1>4, <1>5, <1>7 DEF WiderBy, Turns
    <2> QED
      BY <2>1, <2>2 DEF Linked
  <1>11. SameTill(W, W2, l, active) /\ BodyRight(M, p, Current, W, A, S0)
    BY <1>1, <1>3, <1>5 DEF WiderBy
  <1> QED
    BY <1>1, <1>2, <1>9, <1>10, <1>11, CalledMore

(* scan. *)
LEMMA ScanAccount ==
    ASSUME MemoryInv, TypeOK', NamesInv, ShapeInv, BodiesInv, NEW is \in Positions(MaxStates), is # <<>>,
           Scan(is), Records(Call("scan", None, None, is)),
           NEW p, NEW M, NEW d, Account(M, d, p)
    PROVE  \E d2 : Account(M, d2, p)'
  <1>1. TypeOK /\ IInv /\ status = "building" /\ active /\ child.mode # "idle" /\ child.mode = "body"
    <2>1. child.mode = "body" /\ InLoop
      BY DEF Scan
    <2> QED
      BY <2>1, ChildWrites DEF MemoryInv
  <1>2. PICK values, n, u, c, none : /\ values = Operands(is) /\ n = Len(values) /\ u = ScanUpdate(values)
                                     /\ c = Call("scan", None, None, is) /\ none = <<>>
    OBVIOUS
  <1>3. PICK t, added, vs, ins, w, l : /\ t = ScanStmts(u) /\ added = u.inits /\ vs = u.states
                                       /\ ins = InitsWith(added) /\ w = Flushed \o t /\ l = Len(Flushed)
    OBVIOUS
  <1>4. /\ values \in Seq(Var) /\ values # <<>> /\ Len(is) = n /\ DOMAIN values = 1..n /\ DOMAIN is = 1..n
        /\ \A a \in 1..n : values[a] = child.vals[is[a]] /\ is[a] \in DOMAIN child.vals /\ values[a] \in Known
    <2>1. /\ values \in Seq(Var) /\ Len(values) = Len(is) /\ DOMAIN values = DOMAIN is
          /\ is \in Seq(DOMAIN child.vals)
          /\ \A a \in DOMAIN is : values[a] = child.vals[is[a]] /\ is[a] \in DOMAIN child.vals
      BY <1>1, <1>2, OperandsHeld, BoundsAssumption
    <2>2. values # <<>>
      BY <2>1
    <2>3. \A i \in DOMAIN child.vals : child.vals[i] \in Known
      BY DEF ShapeInv, ValuesKnown
    <2>4. DOMAIN values = 1..n
      BY <1>2, <2>1
    <2> QED
      BY <1>2, <2>1, <2>2, <2>3, <2>4
  <1>5. Scanned(values, n, t, added) /\ vs = ScanNamesTo(n)
    BY <1>1, <1>2, <1>3, <1>4, ScanIs
  <1>6. n \in Nat \ {0} /\ t \in Seq(Stmt) /\ DOMAIN t = 1..(n + n + n) /\ added \in Seq(Stmt) /\ DOMAIN added = 1..n
    BY <1>5 DEF Scanned
  <1>7. /\ inits' = inits \o added /\ block' = Flushed \o t /\ bindings' = <<>>
        /\ child'.vals = child.vals \o vs /\ child'.mode = "scanned"
        /\ UNCHANGED <<active, outer, status, fins, fwd, fwdRed, written>>
    BY <1>1, <1>2, <1>3 DEF Scan, schedule, builder, TypeOK, ChildOK
  <1>8. d \in History /\ RowFits(M, p) /\ Emitted(M, d, p) /\ Called(M, d, p) /\ Forwards(M, d)
    BY DEF Account
  <1>9. PICK S : Scans(S, d, values, n)
    <2>1. \A j \in 1..n : values[j] \in Var
      BY <1>4
    <2> QED
      BY <1>6, <1>8, <2>1, ScansIs
  <1>10. PICK d2 : Scanning(d, d2, S, values, n)
    <2>1. \A j \in 1..n : values[j] \in Var
      BY <1>4
    <2> QED
      BY <1>1, <1>6, <1>8, <1>9, <2>1, ScanningIs
  <1>11. InScan(d, d2, S, values, n, t, added, ins, w, l)
    BY <1>2, <1>3, <1>4, <1>5, <1>8, <1>9, <1>10 DEF InScan
  <1>12. Gains(added, t, none)
    <2>1. Apart(t, Known) /\ Initialized(added) \cap Known = {}
      <3>1. Adding(d, d2, added, t, w, l, n + n + n)
        BY <1>1, <1>11, ScanAdding
      <3> QED
        BY <3>1 DEF Adding
    <2>2. fins' = fins \o none /\ none \in Seq(Stmt)
      BY <1>1, <1>2, <1>7, NothingMore DEF TypeOK
    <2>3. Open' = Grown(Open, added, t, none)
      BY <1>1, <1>6, <1>7, <2>2, OpenGrows
    <2> QED
      BY <1>6, <2>1, <2>2, <2>3 DEF Gains
  <1>13. d2 \in History /\ \A v \in Known : d2[v] = d[v]
    BY <1>10 DEF Scanning
  <1>14. NowSame(d, d2) /\ Agrees(M, d, M, d2)
    BY <1>1, <1>12, <1>13, NowAll DEF Agrees, Agree
  <1>15. Emitted(M, d2, p)'
    <2>1. Gained(M, d2, p, added, t)
      BY <1>1, <1>11, ScanGained
    <2>2. \A j \in DOMAIN none : FinRight(M, d2, p, none[j])
      BY <1>2
    <2> QED
      BY <1>1, <1>7, <1>8, <1>12, <1>14, <2>1, <2>2, EmittedGains
  <1>16. vs \in Seq(Var) /\ DOMAIN vs = 1..n
    <2>1. \A j \in 1..n : ScanName(j) \in Var
      BY <1>1, ScanNamesNew
    <2>2. vs \in [1..n -> Var]
      BY <1>5, <2>1 DEF ScanNamesTo
    <2> QED
      BY <1>6, <2>2, FunctionIsSeq
  <1>17. \A j \in 1..n : (\E q \in DOMAIN t : t[q].dst = vs[j]) /\ vs[j] = ScanName(j)
    <2> TAKE j \in 1..n
    <2>1. t[j + n + n] = MoveOf(j) /\ j + n + n \in DOMAIN t
      BY <1>5, <1>6 DEF Scanned
    <2>2. vs[j] = ScanName(j)
      BY <1>5 DEF ScanNamesTo
    <2>3. MoveOf(j).dst = ScanName(j)
      BY LocalFields DEF MoveOf
    <2> QED
      BY <2>1, <2>2, <2>3
  <1>18. \A r \in Rs : S[r] = [i \in DOMAIN vs |-> Now(d2, vs[i], r)']
    <2> TAKE r \in Rs
    <2>1. ASSUME NEW i \in 1..n
          PROVE  Now(d2, vs[i], r)' = S[r][i]
      <3>1. PICK v : v = vs[i]
        OBVIOUS
      <3>2. \E q \in DOMAIN t : t[q].dst = v
        BY <1>17, <3>1
      <3>3. Now(d2, v, r)' = d2[v][r]
        BY <1>1, <1>12, <3>2, NewNow
      <3>4. d2[v][r] = S[r][i]
        BY <1>10, <1>17, <3>1 DEF Scanning
      <3> QED
        BY <3>1, <3>3, <3>4
    <2>2. S[r] = [i \in 1..n |-> S[r][i]]
      BY <1>9 DEF Scans
    <2> QED
      BY <1>16, <2>1, <2>2
  <1>19. Called(M, d2, p)'
    <2>1. CallFits(Current, Closed, c) /\ c.op = "scan" /\ c.is = is /\ Records(c)
      BY <1>1, <1>2, ScanFits
    <2>2. StatesFrom(S, d, c)
      <3>1. \A r \in Rs : Chosen(Held(d, r), is) = ReadNow(d, values, n, r)
        BY <1>4 DEF Chosen, Held, ReadNow
      <3> QED
        BY <1>9, <2>1, <3>1 DEF Scans, StatesFrom
    <2>3. StatesNext(S, d2, vs)
      BY <1>18 DEF StatesNext
    <2>4. active' /\ child'.mode = "scanned" /\ child'.vals = child.vals \o vs
      BY <1>1, <1>7
    <2> QED
      BY <1>1, <1>8, <1>14, <1>16, <2>1, <2>2, <2>3, <2>4, CalledScans
  <1>20. RowFits(M, p)' /\ Forwards(M, d2)'
    <2>1. RowFits(M, p)'
      BY <1>7, <1>8 DEF RowFits
    <2> QED
      BY <1>7, <1>8, <1>14, <2>1, ForwardsRest
  <1> QED
    BY <1>13, <1>15, <1>19, <1>20 DEF Account

-----------------------------------------------------------------------------
(* The accounts of the steps between children.                             *)
(* A section without statements is right. *)
LEMMA BlankRight ==
    ASSUME NEW M, NEW d, NEW p, NEW loop
    PROVE  SectionRight(M, d, p, Blank(loop))
  <1>1. \A i \in DOMAIN <<>> : FALSE
    OBVIOUS
  <1>2. PICK sec : sec = Blank(loop)
    OBVIOUS
  <1>3. sec.body = <<>> /\ sec.fins = <<>> /\ sec.inits = <<>>
    BY <1>2 DEF Blank
  <1>4. LoopRight(M, d, p, sec.inits, sec.body) /\ StraightRight(M, d, p, sec.body)
    BY <1>1, <1>3 DEF LoopRight, StraightRight
  <1>5. \A i \in DOMAIN sec.fins : M[<<sec.fins[i].buf, 0>>] = d[sec.fins[i].args[1]][Last1] /\ Untouched(M, p, sec.fins[i].buf)
    BY <1>1, <1>3
  <1> QED
    BY <1>2, <1>4, <1>5 DEF SectionRight

(* The open phase as it was. *)
LEMMA OpenRests ==
    ASSUME UNCHANGED <<phase, active>>
    PROVE  Open' = Open /\ \A d, v, r : Now(d, v, r)' = Now(d, v, r)
  <1>1. Open' = Open
    BY DEF Open, Flushed, phase
  <1> QED
    BY <1>1 DEF Now

(* The tables as they were. *)
LEMMA ForwardsStay ==
    ASSUME NEW M, NEW d, Forwards(M, d), UNCHANGED <<phase, active, fwd, fwdRed, written>>
    PROVE  Forwards(M, d)'
  <1>1. \A v, r : Now(d, v, r)' = Now(d, v, r)
    BY OpenRests
  <1>0. SUFFICES ASSUME NEW key \in Key
                 PROVE  StoreTold(M, d, key)' /\ ReductionTold(M, d, key)'
    BY DEF Forwards, Key, Buf, Idx
  <1>2. StoreTold(M, d, key) /\ ReductionTold(M, d, key)
    BY DEF Forwards
  <1>3. StoreTold(M, d, key)'
    BY <1>1, <1>2 DEF StoreTold, Turns
  <1>4. ReductionTold(M, d, key)'
    BY <1>2 DEF ReductionTold
  <1> QED
    BY <1>3, <1>4

(* No LoopBody is being replayed, before or after. *)
LEMMA CalledRests ==
    ASSUME NEW M, NEW d, NEW p, Called(M, d, p), UNCHANGED bodies, child'.mode = "idle"
    PROVE  Called(M, d, p)'
  <1>1. \A W, A : Linked(d, W, A)'
    BY DEF Linked
  <1> QED
    BY <1>1 DEF Called

(* A marker. *)
LEMMA MarkerAccount ==
    ASSUME MemoryInv, TypeOK', Marker, NextPhase(enabled'), UNCHANGED bodies,
           NEW p, NEW M, NEW d, Account(M, d, p)
    PROVE  Account(M, d, p)'
  <1>1. d \in History /\ RowFits(M, p) /\ Emitted(M, d, p) /\ Called(M, d, p) /\ Forwards(M, d)
    BY DEF Account
  <1>2. /\ child = Idle /\ status = "building" /\ IInv
        /\ UNCHANGED <<written, child, status, fwdRed>>
    BY DEF Marker, MemoryInv
  <1>3. Open' = Blank(active')
    <2>1. block' = <<>> /\ bindings' = <<>> /\ inits' = <<>> /\ fins' = <<>>
      BY <1>2 DEF NextPhase, EntersNewPhase, IInv, EmptyUntilOpened, phase
    <2>2. Flushed' = <<>>
      BY <2>1 DEF Flushed
    <2> QED
      BY <2>1, <2>2 DEF Open, Blank
  <1>4. \A key \in Key : fwd'[key] = None
    BY <1>2 DEF NextPhase, EntersNewPhase, ForwardedAtPhaseStart, IInv, EmptyUntilOpened
  <1>5. Emitted(M, d, p)'
    <2>1. SectionRight(M, d, p, Open)'
      <3>1. PICK open, loop : open = Open' /\ loop = active'
        OBVIOUS
      <3>2. SectionRight(M, d, p, open)
        BY <1>3, <3>1, BlankRight
      <3> QED
        BY <3>1, <3>2
    <2>2. CASE opened
      <3>1. outer' = Append(outer, Open)
        BY <1>2, <2>2, PhaseIsOpen DEF NextPhase, EntersNewPhase
      <3>2. PICK secs, sec, n : secs = outer /\ sec = Open /\ n = Len(secs)
        OBVIOUS
      <3>3. secs \in Seq(Section) /\ n \in Nat /\ DOMAIN secs = 1..n
        BY <1>2, <3>2 DEF IInv, TypeOK
      <3>4. /\ DOMAIN Append(secs, sec) = 1..(n + 1)
            /\ \A m \in 1..(n + 1) : Append(secs, sec)[m] = IF m = n + 1 THEN sec ELSE secs[m]
        BY <3>2, <3>3
      <3>5. \A m \in 1..(n + 1) : SectionRight(M, d, p, Append(secs, sec)[m])
        BY <1>1, <1>2, <3>2, <3>3, <3>4 DEF Emitted
      <3>6. \A m \in DOMAIN outer' : SectionRight(M, d, p, outer'[m])
        BY <3>1, <3>2, <3>4, <3>5
      <3> QED
        BY <2>1, <3>6 DEF Emitted
    <2>3. CASE ~opened
      <3>1. outer' = outer
        BY <2>3 DEF NextPhase, EntersNewPhase
      <3> QED
        BY <1>1, <2>1, <3>1 DEF Emitted
    <2> QED
      BY <2>2, <2>3
  <1>6. Called(M, d, p)'
    BY <1>1, <1>2, CalledRests DEF Idle
  <1>7. Forwards(M, d)'
    BY <1>1, <1>2, <1>4 DEF Forwards, StoreTold, ReductionTold
  <1>8. RowFits(M, p)'
    BY <1>1, <1>2 DEF RowFits
  <1> QED
    BY <1>1, <1>5, <1>6, <1>7, <1>8 DEF Account

(* The last phase is appended. *)
LEMMA FinishAccount ==
    ASSUME MemoryInv, Finish, UNCHANGED bodies, NEW p, NEW M, NEW d, Account(M, d, p)
    PROVE  Account(M, d, p)'
  <1>1. d \in History /\ RowFits(M, p) /\ Emitted(M, d, p) /\ Called(M, d, p) /\ Forwards(M, d)
    BY DEF Account
  <1>2. /\ child = Idle /\ status = "building" /\ IInv /\ status' = "done"
        /\ UNCHANGED <<written, child, phase, active, fwd, fwdRed>>
        /\ outer' = IF opened THEN Append(outer, PhaseSection) ELSE outer
    BY DEF Finish, MemoryInv, schedule, handler
  <1>3. Emitted(M, d, p)'
    <2>1. PICK secs, sec, n : secs = outer /\ sec = Open /\ n = Len(secs)
      OBVIOUS
    <2>2. secs \in Seq(Section) /\ n \in Nat /\ DOMAIN secs = 1..n
      BY <1>2, <2>1 DEF IInv, TypeOK
    <2>3. /\ DOMAIN Append(secs, sec) = 1..(n + 1)
          /\ \A m \in 1..(n + 1) : Append(secs, sec)[m] = IF m = n + 1 THEN sec ELSE secs[m]
      BY <2>1, <2>2
    <2>4. \A m \in 1..(n + 1) : SectionRight(M, d, p, Append(secs, sec)[m])
      BY <1>1, <1>2, <2>1, <2>2, <2>3 DEF Emitted
    <2>5. outer' = IF opened THEN Append(secs, sec) ELSE secs
      BY <1>2, <2>1, PhaseIsOpen
    <2>6. \A m \in DOMAIN secs : SectionRight(M, d, p, secs[m])
      BY <1>1, <2>1 DEF Emitted
    <2>7. \A m \in DOMAIN outer' : SectionRight(M, d, p, outer'[m])
      BY <2>3, <2>4, <2>5, <2>6
    <2> QED
      BY <1>2, <2>7 DEF Emitted
  <1>4. Called(M, d, p)'
    BY <1>1, <1>2, CalledRests DEF Idle
  <1>5. Forwards(M, d)'
    BY <1>1, <1>2, ForwardsStay
  <1>6. RowFits(M, p)'
    BY <1>1, <1>2 DEF RowFits
  <1> QED
    BY <1>1, <1>3, <1>4, <1>5, <1>6 DEF Account

(* A new body. *)
LEMMA StartAccount ==
    ASSUME TypeOK, BodiesInv, NEW o \in Outputs, StartChild(o),
           bodies' = Append(bodies, [inLoop |-> InLoop, out |-> o, calls |-> <<>>]),
           NEW p, NEW M, NEW d, Account(M, d, p)
    PROVE  Account(M, d, p)'
  <1>1. d \in History /\ RowFits(M, p) /\ Emitted(M, d, p) /\ Called(M, d, p) /\ Forwards(M, d)
    BY DEF Account
  <1>2. /\ UNCHANGED <<written, phase, active, fwd, fwdRed, outer, status>>
        /\ child'.vals = <<>>
    BY DEF StartChild, Idle, schedule, handler
  <1>3. Emitted(M, d, p)'
    BY <1>1, <1>2, OpenRests DEF Emitted
  <1>4. Forwards(M, d)'
    BY <1>1, <1>2, ForwardsStay
  <1>5. RowFits(M, p)'
    BY <1>1, <1>2 DEF RowFits
  <1>6. PICK bs, new, l : bs = bodies /\ new = [inLoop |-> InLoop, out |-> o, calls |-> <<>>] /\ l = Len(bs)
    OBVIOUS
  <1>7. new.calls = <<>> /\ bs \in Seq(Body) /\ l \in Nat /\ DOMAIN bs = 1..l /\ new \in Body
    BY <1>6 DEF BodiesInv, Body, TypeOK, InLoop
  <1>8. /\ bodies' = Append(bs, new) /\ DOMAIN bodies' = 1..(l + 1) /\ Len(bodies') = l + 1
        /\ bodies'[l + 1] = new /\ \A n \in 1..l : bodies'[n] = bs[n]
    BY <1>6, <1>7
  <1>9. PICK W, A, S : /\ W = [j \in {1} |-> [r \in Rs |-> <<>>]]
                       /\ A = [r \in Rs |-> Unit] /\ S = [r \in Rs |-> <<>>]
    OBVIOUS
  <1>10. BodyRight(M, p, new, W, A, S)
    <2>1. \A r \in Turns(new.inLoop) : r \in Rs
      BY Zero DEF Turns
    <2>2. \A j \in DOMAIN new.calls : FALSE
      BY <1>7
    <2> QED
      BY <1>9, <2>1, <2>2 DEF BodyRight
  <1>11. Linked(d, W, A)'
    <2>1. \A r : Held(d, r)' = <<>>
      <3>1. DOMAIN child'.vals = {}
        BY <1>2
      <3> QED
        BY <3>1 DEF Held
    <2>2. Current' = new
      BY <1>8 DEF Current
    <2>3. \A r \in Turns(active)' : W[Len(new.calls) + 1][r] = <<>>
      BY <1>7, <1>9, Zero DEF Turns
    <2>4. child'.mode = "body"
      BY DEF StartChild, Idle
    <2> QED
      BY <2>1, <2>2, <2>3, <2>4 DEF Linked
  <1>12. Called(M, d, p)'
    <2>1. ASSUME NEW n \in 1..l
          PROVE  \E W2, A2, S2 : BodyRight(M, p, bs[n], W2, A2, S2)
      BY <1>1, <1>6, <1>7, <2>1 DEF Called
    <2>2. \A n \in 1..l : n # Len(bodies')
      BY <1>7, <1>8
    <2>3. \A n \in DOMAIN bodies' : n = l + 1 \/ n \in 1..l
      BY <1>7, <1>8
    <2>4. ASSUME NEW n \in DOMAIN bodies'
          PROVE  \E W2, A2, S2 : BodyRight(M, p, bodies'[n], W2, A2, S2) /\ (n = Len(bodies') => Linked(d, W2, A2)')
      <3>1. CASE n = l + 1
        BY <1>8, <1>10, <1>11, <3>1
      <3>2. CASE n \in 1..l
        <4>1. PICK W2, A2, S2 : BodyRight(M, p, bs[n], W2, A2, S2)
          BY <2>1, <3>2
        <4> QED
          BY <1>8, <2>2, <3>2, <4>1
      <3> QED
        BY <2>3, <2>4, <3>1, <3>2
    <2> QED
      BY <2>4 DEF Called
  <1> QED
    BY <1>1, <1>3, <1>4, <1>5, <1>12 DEF Account

(* Nothing happens. *)
LEMMA RestAccount ==
    ASSUME UNCHANGED execVars, NEW p, NEW M, NEW d, Account(M, d, p)
    PROVE  Account(M, d, p)'
  <1>1. UNCHANGED <<written, phase, active, fwd, fwdRed, outer, status, child, bodies>>
    BY DEF execVars, vars, schedule, builder, handler
  <1>2. d \in History /\ RowFits(M, p) /\ Emitted(M, d, p) /\ Called(M, d, p) /\ Forwards(M, d)
    BY DEF Account
  <1>3. Emitted(M, d, p)'
    BY <1>1, <1>2, OpenRests DEF Emitted
  <1>4. Forwards(M, d)'
    BY <1>1, <1>2, ForwardsStay
  <1>5. RowFits(M, p)'
    BY <1>1, <1>2 DEF RowFits
  <1>6. Called(M, d, p)'
    <2>1. \A v, r : Now(d, v, r)' = Now(d, v, r)
      BY <1>1, OpenRests
    <2>2. \A r : Held(d, r)' = Held(d, r)
      BY <1>1, <2>1 DEF Held
    <2>3. \A W, A : Linked(d, W, A)' <=> Linked(d, W, A)
      BY <1>1, <2>2 DEF Linked, Turns, Current
    <2> QED
      BY <1>1, <1>2, <2>3 DEF Called
  <1> QED
    BY <1>2, <1>3, <1>4, <1>5, <1>6 DEF Account

(* Some account fits the point p. *)
Accounted(p) == \E M, d : Account(M, d, p)

(* An account after a step is one that fits. *)
LEMMA AccountedIs ==
    ASSUME NEW p, NEW M, NEW d, Account(M, d, p)'
    PROVE  Accounted(p)'
  BY DEF Accounted

(* At first every account does that keeps the memory. *)
LEMMA FirstAccount ==
    ASSUME ExecInit, NEW p \in Points
    PROVE  Accounted(p)
  <1>1. /\ bodies = <<>> /\ child.mode = "idle" /\ \A o \in Outputs : written[o] = "no"
        /\ outer = <<>> /\ block = <<>> /\ bindings = <<>> /\ inits = <<>> /\ fins = <<>>
        /\ \A key \in Key : fwd[key] = None /\ fwdRed[key] = None
    BY DEF ExecInit, Init, Idle
  <1> DEFINE M == [a \in Cells |-> Initially(p, a)]
             d == [v \in Var |-> [r \in Rs |-> Unit]]
  <1>2. d \in History
    BY ValuesAssumption DEF History
  <1>3. M \in Row
    <2>1. \A a \in Cells : Initially(p, a) \in Value
      BY ValuesAssumption DEF Cells, Initially
    <2> QED
      BY <2>1 DEF Row
  <1>4. RowFits(M, p)
    <2>1. \A o \in Outputs, t \in Rs : <<o, t>> \in Cells
      BY DEF Cells, Buf
    <2> QED
      BY <1>3, <2>1 DEF RowFits, InputsKept
  <1>5. Open = Blank(active)
    BY <1>1 DEF Open, Blank, Flushed
  <1>6. Emitted(M, d, p)
    BY <1>1, <1>5, BlankRight DEF Emitted
  <1>7. Called(M, d, p)
    BY <1>1 DEF Called
  <1>8. Forwards(M, d)
    BY <1>1 DEF Forwards, StoreTold, ReductionTold
  <1> QED
    BY <1>2, <1>4, <1>6, <1>7, <1>8 DEF Account, Accounted

(* Every step that does not raise leaves an account that fits. *)
LEMMA StepAccount ==
    ASSUME MemoryInv, NamesInv, ShapeInv, BodiesInv, TypeOK', [ExecNext]_execVars, status' # "failed",
           NEW p \in Points, Accounted(p)
    PROVE  Accounted(p)'
  <1>0. IInv /\ TypeOK
    BY DEF MemoryInv, IInv
  <1> PICK M, d : Account(M, d, p)
    BY DEF Accounted
  <1>1. ASSUME NEW o \in Outputs, StartChild(o),
               bodies' = Append(bodies, [inLoop |-> InLoop, out |-> o, calls |-> <<>>])
        PROVE  Accounted(p)'
    BY <1>0, <1>1, StartAccount, AccountedIs
  <1>2. ASSUME NEW b \in Buf, NEW k \in Idx, LoadForwarded(b, k), Records(Call("load", b, k, <<>>))
        PROVE  Accounted(p)'
    BY <1>2, LoadForwardedAccount, AccountedIs
  <1>3. ASSUME NEW b \in Buf, NEW k \in Idx, LoadMemory(b, k), Records(Call("load", b, k, <<>>))
        PROVE  Accounted(p)'
    <2>1. \E d2 : Account(M, d2, p)'
      BY <1>3, LoadMemoryAccount
    <2> QED
      BY <2>1, AccountedIs
  <1>4. ASSUME NEW is \in Positions(MaxArgs), Compute(is), Records(Call("compute", None, None, is))
        PROVE  Accounted(p)'
    <2>1. \E d2 : Account(M, d2, p)'
      BY <1>0, <1>4, ComputeAccount
    <2> QED
      BY <2>1, AccountedIs
  <1>5. ASSUME NEW i \in DOMAIN child.vals, NEW k \in Idx, NEW op \in {"store", "atomic"},
               Store(i, k, op), Records(Call(op, child.out, k, <<i>>))
        PROVE  Accounted(p)'
    <2>1. \E M2 : Account(M2, d, p)'
      BY <1>5, StoreAccount
    <2> QED
      BY <2>1, AccountedIs
  <1>6. ASSUME NEW i \in DOMAIN child.vals, Reduction(i), Records(Call("reduction", None, None, <<i>>))
        PROVE  Accounted(p)'
    <2>1. \E d2 : Account(M, d2, p)'
      BY <1>6, ReductionAccount
    <2> QED
      BY <2>1, AccountedIs
  <1>7. ASSUME NEW k \in RowIdx, StoreReduction(k), Records(Call("store_reduction", child.out, k, <<>>))
        PROVE  Accounted(p)'
    <2>1. \E M2 : Account(M2, d, p)'
      BY <1>7, StoreReductionAccount
    <2> QED
      BY <2>1, AccountedIs
  <1>8. ASSUME NEW is \in Positions(MaxStates), is # <<>>, Scan(is), Records(Call("scan", None, None, is))
        PROVE  Accounted(p)'
    <2>1. \E d2 : Account(M, d2, p)'
      BY <1>8, ScanAccount
    <2> QED
      BY <2>1, AccountedIs
  <1>9. ASSUME DisableReduction \/ EnableReduction, UNCHANGED bodies
        PROVE  Accounted(p)'
    <2>1. Marker /\ NextPhase(enabled')
      BY <1>9 DEF DisableReduction, EnableReduction
    <2> QED
      BY <1>9, <2>1, MarkerAccount, AccountedIs
  <1>10. ASSUME Finish, UNCHANGED bodies
         PROVE  Accounted(p)'
    BY <1>10, FinishAccount, AccountedIs
  <1>11. ASSUME UNCHANGED execVars
         PROVE  Accounted(p)'
    BY <1>11, RestAccount, AccountedIs
  <1>12. ~Raise /\ \A i \in DOMAIN child.vals : ~RaiseInReduction(i)
    BY RaisingFails DEF Fails
  <1> QED
    BY <1>1, <1>2, <1>3, <1>4, <1>5, <1>6, <1>7, <1>8, <1>9, <1>10, <1>11, <1>12
       DEF ExecNext, execVars, Stopped

-----------------------------------------------------------------------------
(* The invariant of the execution.                                         *)

(* What a finished region has written is written by its sections. *)
DoneWrites ==
    status = "done" =>
        \A o \in Outputs : written[o] # "no" => \E m \in DOMAIN outer : SectionWrites(outer[m], o)

(* Finishing leaves every write in a section. *)
LEMMA FinishWrites ==
    ASSUME MemoryInv, Finish
    PROVE  DoneWrites'
  <1>0. IInv /\ TypeOK
    BY DEF MemoryInv, IInv
  <1>1. UNCHANGED written /\ outer' = IF opened THEN Append(outer, PhaseSection) ELSE outer
    BY DEF Finish, schedule
  <1>2. PhaseSection = Open /\ PhaseSection \in Section
    BY <1>0, PhaseIsOpen, PhaseSectionType
  <1> SUFFICES ASSUME NEW o \in Outputs, written[o] # "no"
               PROVE  \E m \in DOMAIN outer' : SectionWrites(outer'[m], o)
    BY <1>1 DEF DoneWrites
  <1>3. \/ WritesOf(block, o) # {} \/ WritesOf(fins, o) # {}
        \/ \E m \in DOMAIN outer : SectionWrites(outer[m], o)
    BY DEF MemoryInv, StoresPlaced
  <1>4. CASE \E m \in DOMAIN outer : SectionWrites(outer[m], o)
    <2> PICK m \in DOMAIN outer : SectionWrites(outer[m], o)
      BY <1>4
    <2>1. m \in DOMAIN outer' /\ outer'[m] = outer[m]
      BY <1>0, <1>1, <1>2 DEF TypeOK
    <2> QED
      BY <2>1
  <1>5. CASE WritesOf(block, o) # {} \/ WritesOf(fins, o) # {}
    <2>1. opened
      BY <1>0, <1>5 DEF IInv, EmptyUntilOpened, WritesOf
    <2>2. block \in Seq(Stmt) /\ bindings \in Seq(Stmt) /\ outer \in Seq(Section)
      BY <1>0 DEF TypeOK
    <2>3. WritesOf(Flushed, o) # {} \/ WritesOf(fins, o) # {}
      BY <1>5, <2>2, WritesConcat DEF Flushed
    <2>4. SectionWrites(Open, o)
      BY <2>3 DEF SectionWrites, Open
    <2>5. Len(outer) + 1 \in DOMAIN outer' /\ outer'[Len(outer) + 1] = Open
      BY <1>1, <1>2, <2>1, <2>2
    <2> QED
      BY <2>4, <2>5
  <1> QED
    BY <1>3, <1>4, <1>5

(* A region that is done or has failed stays as it is. *)
LEMMA StoppedStays ==
    ASSUME NamesInv, status # "building", [Next]_vars
    PROVE  UNCHANGED vars
  <1>1. child = Idle /\ child.mode = "idle" /\ child.vals = <<>>
    BY DEF NamesInv, Idle
  <1> QED
    BY <1>1 DEF Next, StartChild, LoadForwarded, LoadMemory, Compute, Store, Reduction, StoreReduction, Scan,
       DisableReduction, EnableReduction, Marker, Finish, Raise, RaiseInReduction, Stopped

(* The inductive invariant: a region that has not failed has an account at *)
(* every point.                                                            *)
ExecInv ==
    /\ MemoryInv
    /\ NamesInv
    /\ status # "failed" => ShapeInv /\ BodiesInv /\ \A p \in Points : Accounted(p)
    /\ DoneWrites

(* It holds at first. *)
LEMMA InitExec == ExecInit => ExecInv
  <1> SUFFICES ASSUME ExecInit PROVE ExecInv
    OBVIOUS
  <1>1. Init /\ status = "building"
    BY DEF ExecInit, Init
  <1> QED
    BY <1>1, InitMemory, InitNamesInv, FirstShape, FirstBodies, FirstAccount DEF ExecInv, DoneWrites

(* A step of the execution is a step of the builder. *)
LEMMA ExecSteps == [ExecNext]_execVars => [Next]_vars
  BY DEF ExecNext, execVars, Next

(* Every step keeps it. *)
LEMMA StepExec ==
    ASSUME ExecInv, [ExecNext]_execVars
    PROVE  ExecInv'
  <1>1. [Next]_vars
    BY ExecSteps
  <1>2. MemoryInv' /\ NamesInv'
    BY <1>1, StepMemory, StepNames DEF ExecInv
  <1>3. TypeOK'
    BY <1>2 DEF MemoryInv, IInv
  <1>4. ASSUME status' # "failed"
        PROVE  ShapeInv' /\ BodiesInv' /\ \A p \in Points : Accounted(p)'
    <2>1. status # "failed"
      <3>1. CASE status = "building"
        BY <3>1
      <3>2. CASE status # "building"
        BY <1>1, <1>4, <3>2, StoppedStays DEF ExecInv, vars, builder
      <3> QED
        BY <3>1, <3>2
    <2>2. MemoryInv /\ NamesInv /\ ShapeInv /\ BodiesInv /\ \A p \in Points : Accounted(p)
      BY <2>1 DEF ExecInv
    <2>3. ShapeInv'
      BY <1>1, <1>3, <1>4, <2>2, StepShape
    <2>4. BodiesInv'
      BY <1>4, <2>2, StepBodies
    <2>5. ASSUME NEW p \in Points
          PROVE  Accounted(p)'
      <3>1. Accounted(p)
        BY <2>2
      <3> QED
        BY <1>3, <1>4, <2>2, <3>1, StepAccount
    <2> QED
      BY <2>3, <2>4, <2>5
  <1>5. DoneWrites'
    <2>1. CASE status = "building"
      <3>1. CASE Finish
        BY <3>1, FinishWrites DEF ExecInv
      <3>2. CASE ~Finish
        <4>1. status' # "done"
          BY <1>1, <2>1, <3>2, RaisingFails, ZenonT(60) DEF Next, vars, builder, StartChild, LoadForwarded, LoadMemory,
             Compute, Store, Reduction, StoreReduction, Scan, DisableReduction, EnableReduction, Marker, Fails, Stopped
        <4> QED
          BY <4>1 DEF DoneWrites
      <3> QED
        BY <3>1, <3>2
    <2>2. CASE status # "building"
      <3>1. UNCHANGED vars
        BY <1>1, <2>2, StoppedStays DEF ExecInv
      <3> QED
        BY <3>1 DEF ExecInv, DoneWrites, vars, schedule, builder
    <2> QED
      BY <2>1, <2>2
  <1>6. Points' = Points
    BY DEF Points
  <1> QED
    BY <1>2, <1>4, <1>5, <1>6 DEF ExecInv

-----------------------------------------------------------------------------
(* A finished region.                                                      *)

(* The locals that a section keeps are among those it declares. *)
LEMMA KeptDeclared ==
    ASSUME NEW before, NEW K, NEW B, NEW sec, Fits(before, K, B, sec),
           NEW base, BodyReads(sec.body, sec.inits, base), NEW v \in Var,
           \/ v \in Kept(sec) \/ v \in Initialized(sec.inits)
           \/ v \in AssignedBy(sec.body, Len(sec.body) + 1)
    PROVE  v \in Names(Declarations(sec))
  <1>1. v \in Initialized(sec.inits) \/ \E j \in DOMAIN sec.body : sec.body[j].dst = v
    BY DEF Kept, AssignedBy
  <1> QED
    BY <1>1, SectionAssigns

(* The sections of a finished region, apart from values. *)
LEMMA FinishedShaped ==
    ASSUME MemoryInv, NamesInv, ShapeInv, NEW n \in DOMAIN outer
    PROVE  Shaped(outer, n)
  <1>0. TypeOK /\ outer \in Seq(Section) /\ DOMAIN outer = 1..Len(outer)
    BY DEF MemoryInv, IInv, TypeOK
  <1> DEFINE before == WrittenBefore(outer, n)
             base == ExportsBefore(outer, n)
  <1>1. \A m \in DOMAIN outer :
           /\ Fits(WrittenBefore(outer, m), Known, Reached, outer[m])
           /\ BodyReads(outer[m].body, outer[m].inits, ExportsBefore(outer, m))
           /\ FinReads(outer[m].fins, outer[m].inits, ExportsBefore(outer, m))
           /\ DOMAIN outer[m].body = 1..Len(outer[m].body) /\ Len(outer[m].body) \in Nat
    <2>0. \A m \in DOMAIN outer : outer[m] \in Section
      BY <1>0
    <2>1. \A m \in DOMAIN outer : outer[m].body \in Seq(Stmt)
      BY <2>0 DEF Section
    <2> QED
      BY <2>1 DEF ShapeInv, SectionsFit, MemoryInv, IInv, ReadsSettled, SectionsSettled
  <1>2. base \subseteq Base(outer, n)
    <2>1. \A m \in DOMAIN outer : Exports(outer[m]) \subseteq Kept(outer[m])
      BY <1>1, ExportsKept
    <2> QED
      BY <2>1 DEF ExportsBefore, Base
  <1> DEFINE sec == outer[n]
  <1>3. /\ Fits(before, Known, Reached, sec)
        /\ BodyReads(sec.body, sec.inits, base) /\ FinReads(sec.fins, sec.inits, base)
        /\ DOMAIN sec.body = 1..Len(sec.body) /\ Len(sec.body) \in Nat
    BY <1>1
  <1>4. ProperSection(sec) /\ sec.loop \in BOOLEAN /\ (~sec.loop => sec.inits = <<>> /\ sec.fins = <<>>)
    BY <1>3 DEF Fits, InitsSound, BodySound, FinsSound, ProperSection
  <1>5. \A i \in DOMAIN sec.inits : InitShape(sec.inits[i])
    BY <1>3 DEF Fits, InitsSound
  <1>6. \A i \in DOMAIN sec.fins : FinShape(sec.fins[i], sec.inits, Base(outer, n))
    <2> SUFFICES ASSUME NEW i \in DOMAIN sec.fins
                 PROVE  FinShape(sec.fins[i], sec.inits, Base(outer, n))
      OBVIOUS
    <2>1. sec.fins[i].op = "store" /\ sec.fins[i].dst = None /\ sec.fins[i].idx \in RowIdx
      BY <1>3 DEF Fits, FinsSound
    <2>2. ArgsOf(sec.fins[i]) \subseteq base \cup Declares(sec.inits, "init")
      BY <1>3 DEF FinReads
    <2> QED
      BY <1>2, <2>1, <2>2 DEF FinShape, Initialized
  <1>7. BodyShaped(outer, n, sec.inits, sec.body, sec.loop)
    <2> SUFFICES ASSUME NEW i \in DOMAIN sec.body
                 PROVE  BodyShape(outer, n, sec.inits, sec.body, i, sec.loop)
      BY DEF BodyShaped
    <2> DEFINE seq == sec.body
    <2>1. seq[i].op \notin {"init", "uninit"} /\ (Writes(seq[i]) => seq[i].dst = None /\ Sits(seq[i], sec.loop))
      BY <1>3 DEF Fits, BodySound
    <2>2. GivenBefore(seq, i) \subseteq AssignedBy(seq, i)
      BY DEF GivenBefore, AssignedBy, Gives, Writes
    <2>3. /\ ArgsOf(seq[i]) \subseteq Base(outer, n) \cup Initialized(sec.inits) \cup AssignedBy(seq, i)
          /\ seq[i].op = "update" => seq[i].dst \in Initialized(sec.inits)
      BY <1>2, <1>3, <2>2 DEF BodyReads, Initialized
    <2>4. seq[i].op = "load" =>
             \/ seq[i].buf \in Inputs \cup before
             \/ Sits(seq[i], sec.loop) /\ \E j \in WritesOf(seq, seq[i].buf) : j < i
      <3> SUFFICES ASSUME seq[i].op = "load", seq[i].buf \notin Inputs \cup before
                   PROVE  Sits(seq[i], sec.loop) /\ \E j \in WritesOf(seq, seq[i].buf) : j < i
        OBVIOUS
      <3>1. Sits(seq[i], sec.loop)
        BY <1>3 DEF Fits, LoadPlaced
      <3>2. seq[i].buf \in Buf
        BY <1>4 DEF ProperSection, ProperAll, Proper
      <3>3. \/ seq[i].buf \in RegionInputs \cap Inputs
            \/ \E j \in WritesOf(seq, seq[i].buf) : j < i
            \/ \E m \in DOMAIN outer : m < n /\ SectionWrites(outer[m], seq[i].buf)
        BY DEF MemoryInv, LoadsDefined
      <3> QED
        BY <3>1, <3>2, <3>3 DEF WrittenBefore
    <2>5. seq[i].op = "atomic" =>
             /\ seq[i].buf \notin before
             /\ \A j \in WritesOf(seq, seq[i].buf) : j >= i
      BY <1>3 DEF Fits
    <2> QED
      BY <2>1, <2>3, <2>4, <2>5 DEF BodyShape
  <1>8. Initialized(sec.inits) \subseteq AssignedBy(sec.body, Len(sec.body) + 1)
    BY <1>3 DEF Fits
  <1>9. Base(outer, n) \cap (Initialized(sec.inits) \cup AssignedBy(sec.body, Len(sec.body) + 1)) = {}
    <2> SUFFICES ASSUME NEW v \in Base(outer, n),
                        v \in Initialized(sec.inits) \/ v \in AssignedBy(sec.body, Len(sec.body) + 1)
                 PROVE  FALSE
      OBVIOUS
    <2> PICK m \in DOMAIN outer : m < n /\ v \in Kept(outer[m])
      BY DEF Base
    <2>0. v \in Var
      BY DEF Base
    <2>1. v \in SectionNames(m)
      <3>1. Fits(WrittenBefore(outer, m), Known, Reached, outer[m])
        BY <1>1
      <3>2. BodyReads(outer[m].body, outer[m].inits, ExportsBefore(outer, m))
        BY <1>1
      <3> QED
        BY <2>0, <3>1, <3>2, KeptDeclared DEF SectionNames
    <2>2. v \in SectionNames(n)
      BY <1>3, <2>0, KeptDeclared DEF SectionNames
    <2>3. m # n
      BY <1>0
    <2> QED
      BY <2>1, <2>2, <2>3 DEF NamesInv, SectionsNamed
  <1> QED
    BY <1>4, <1>5, <1>6, <1>7, <1>8, <1>9 DEF Shaped

(* The rows of the accounts, one per point, as one memory. *)
FinOf(MM) == [a \in Addr |-> MM[a[2]][<<a[1], a[3]>>]]

(* MM has the row of an account for every point. *)
Rows(MM) == \A p \in Points : \E d : Account(MM[p], d, p)

(* Choosing an account at every point. *)
LEMMA RowsExist ==
    ASSUME \A p \in Points : Accounted(p)
    PROVE  \E MM : Rows(MM)
  <1> DEFINE MM == [p \in Points |-> CHOOSE M : \E d : Account(M, d, p)]
  <1>1. ASSUME NEW p \in Points
        PROVE  \E d : Account(MM[p], d, p)
    <2>1. \E M : \E d : Account(M, d, p)
      BY DEF Accounted
    <2>2. MM[p] = CHOOSE M : \E d : Account(M, d, p)
      OBVIOUS
    <2> HIDE DEF MM
    <2> QED
      BY <2>1, <2>2
  <1>2. Rows(MM)
    BY <1>1 DEF Rows
  <1> QED
    BY <1>2

(* The row of that memory at a point is the account's. *)
LEMMA RowOfFin ==
    ASSUME NEW MM, Rows(MM), NEW p \in Points
    PROVE  RowOf(FinOf(MM), p) = MM[p] /\ RowFits(MM[p], p)
  <1>1. MM[p] \in Row /\ RowFits(MM[p], p)
    BY DEF Rows, Account, RowFits
  <1>2. MM[p] = [c \in Cells |-> MM[p][c]]
    BY <1>1 DEF Row
  <1>3. ASSUME NEW c \in Cells
        PROVE  RowOf(FinOf(MM), p)[c] = MM[p][c]
    <2>1. <<c[1], p, c[2]>> \in Addr /\ <<c[1], c[2]>> = c
      BY DEF Addr, Cells
    <2>2. FinOf(MM)[<<c[1], p, c[2]>>] = MM[p][<<c[1], c[2]>>]
      BY <2>1 DEF FinOf
    <2> QED
      BY <2>1, <2>2 DEF RowOf
  <1>4. RowOf(FinOf(MM), p) = [c \in Cells |-> RowOf(FinOf(MM), p)[c]]
    BY DEF RowOf
  <1> QED
    BY <1>1, <1>2, <1>3, <1>4

(* An address that no child writes keeps its initial value. *)
LEMMA FinKeeps ==
    ASSUME NEW MM, Rows(MM), NEW a \in Addr, a[1] \in Inputs \/ written[a[1]] = "no"
    PROVE  FinOf(MM)[a] = InitialMemory[a]
  <1> DEFINE c == <<a[1], a[3]>>
  <1>1. a[1] \in Buf /\ a[2] \in Points /\ a[3] \in Rs /\ a = <<a[1], a[2], a[3]>> /\ c \in Cells
    BY DEF Addr, Cells
  <1>2. RowFits(MM[a[2]], a[2])
    BY <1>1, RowOfFin
  <1>3. MM[a[2]][c] = Initially(a[2], c)
    BY <1>1, <1>2 DEF RowFits, InputsKept, Buf
  <1> QED
    BY <1>1, <1>3 DEF FinOf, Initially

(* Running the region leaves it. *)
LEMMA RegionIsFin ==
    ASSUME ExecInv, status = "done", NEW MM, Rows(MM)
    PROVE  RunRegion = FinOf(MM)
  <1>0. outer \in Seq(Section)
    BY DEF ExecInv, MemoryInv, IInv, TypeOK
  <1>1. \A n \in DOMAIN outer : Shaped(outer, n)
    BY FinishedShaped DEF ExecInv
  <1>2. \A p \in Points : \E d : RegionAccount(MM[p], d, p, outer)
    <2> SUFFICES ASSUME NEW p \in Points
                 PROVE  \E d : RegionAccount(MM[p], d, p, outer)
      OBVIOUS
    <2> PICK d : Account(MM[p], d, p)
      BY DEF Rows
    <2>1. InputsKept(MM[p], p) /\ \A n \in DOMAIN outer : SectionRight(MM[p], d, p, outer[n])
      BY DEF Account, RowFits, Emitted
    <2>2. ASSUME NEW b \in Buf
          PROVE  \/ \E n \in DOMAIN outer : SectionWrites(outer[n], b)
                 \/ \A t \in Rs : MM[p][<<b, t>>] = Initially(p, <<b, t>>)
      <3>1. CASE b \in Inputs
        BY <2>1, <3>1 DEF InputsKept, Cells
      <3>2. CASE b \in Outputs /\ written[b] = "no"
        BY <3>2 DEF Account, RowFits
      <3>3. CASE b \in Outputs /\ written[b] # "no"
        BY <3>3 DEF ExecInv, DoneWrites
      <3> QED
        BY <3>1, <3>2, <3>3 DEF Buf
    <2> QED
      BY <2>1, <2>2 DEF RegionAccount
  <1>3. \A b \in Buf, q \in Points, t \in Rs : RunRegion[<<b, q, t>>] = MM[q][<<b, t>>]
    BY <1>0, <1>1, <1>2, RegionFollows
  <1>4. RunRegion \in [Addr -> Value]
    <2>1. \A n \in DOMAIN outer : ProperSection(outer[n])
      BY <1>1 DEF Shaped
    <2> PICK f \in [0..PointwiseSize -> Mem] : RunRegion = f[PointwiseSize]
      BY <1>0, <2>1, RunRegionIs
    <2>2. RunRegion \in Mem
      BY Sizes
    <2> QED
      BY <2>2 DEF Mem, Addr
  <1>5. ASSUME NEW a \in Addr
        PROVE  RunRegion[a] = MM[a[2]][<<a[1], a[3]>>]
    <2>1. a[1] \in Buf /\ a[2] \in Points /\ a[3] \in Rs /\ a = <<a[1], a[2], a[3]>>
      BY DEF Addr
    <2> QED
      BY <1>3, <2>1
  <1> QED
    BY <1>4, <1>5 DEF FinOf

(* Running the LoopBodies leaves it. *)
LEMMA BodiesAreFin ==
    ASSUME ExecInv, status = "done", NEW MM, Rows(MM)
    PROVE  RunBodies = FinOf(MM)
  <1> DEFINE Fin == FinOf(MM)
             outs == OutsBefore(bodies, Len(bodies) + 1)
  <1>0. BodiesInv /\ child.mode = "idle" /\ bodies \in Seq(Body)
    BY DEF ExecInv, NamesInv, Idle, BodiesInv, Body
  <1>1. \E n \in Nat : DOMAIN bodies = 1..n /\ Len(bodies) = n
    BY <1>0
  <1>2. \A n \in DOMAIN bodies : BodyTrue(Fin, bodies[n], OutsBefore(bodies, n))
    <2> SUFFICES ASSUME NEW n \in DOMAIN bodies
                 PROVE  BodyTrue(Fin, bodies[n], OutsBefore(bodies, n))
      OBVIOUS
    <2>1. /\ BodyCalls(bodies[n], OutsBefore(bodies, n)) /\ bodies[n].out \notin OutsBefore(bodies, n)
          /\ Written(bodies[n])
      BY <1>0 DEF BodiesInv, Finished
    <2>2. OutsBefore(bodies, n) \subseteq Outputs
      <3>1. \A m \in DOMAIN bodies : bodies[m] \in Body
        BY <1>0
      <3> QED
        BY <3>1 DEF OutsBefore, Body
    <2>3. ASSUME NEW p \in Points
          PROVE  \E W, A, S : BodyReady(Fin, bodies[n], OutsBefore(bodies, n), p, W, A, S)
      <3> PICK d : Account(MM[p], d, p)
        BY DEF Rows
      <3>1. RowOf(Fin, p) = MM[p] /\ InputsKept(MM[p], p)
        BY RowOfFin DEF RowFits
      <3> PICK W, A, S : BodyRight(MM[p], p, bodies[n], W, A, S)
        BY DEF Account, Called
      <3>2. BodyReady(Fin, bodies[n], OutsBefore(bodies, n), p, W, A, S)
        BY <2>1, <2>2, <3>1 DEF BodyReady
      <3> QED
        BY <3>2
    <2> QED
      BY <2>1, <2>3 DEF BodyTrue
  <1>3. RunBodies = Filled(Fin, AddrOf(outs))
    BY <1>1, <1>2, BodiesFollow DEF BodiesTrue
  <1>4. ASSUME NEW a \in Addr, a \notin AddrOf(outs)
        PROVE  Fin[a] = InitialMemory[a]
    <2>1. a[1] \in Buf /\ a[1] \notin outs
      BY <1>4 DEF Addr, AddrOf
    <2>2. CASE a[1] \in Outputs /\ written[a[1]] # "no"
      <3> PICK n \in DOMAIN bodies : bodies[n].out = a[1]
        BY <1>0, <2>2 DEF BodiesInv
      <3>1. n < Len(bodies) + 1
        BY <1>1
      <3> QED
        BY <2>1, <3>1 DEF OutsBefore
    <2>3. CASE a[1] \in Inputs \/ written[a[1]] = "no"
      BY <2>3, FinKeeps
    <2> QED
      BY <2>1, <2>2, <2>3 DEF Buf
  <1>5. \A a \in Addr : Filled(Fin, AddrOf(outs))[a] = Fin[a]
    BY <1>4, FilledIs
  <1>6. Fin = [a \in Addr |-> Fin[a]]
    BY DEF FinOf
  <1>7. Filled(Fin, AddrOf(outs)) = [a \in Addr |-> Filled(Fin, AddrOf(outs))[a]]
    BY DEF Filled
  <1> HIDE DEF Fin, outs
  <1>8. Filled(Fin, AddrOf(outs)) = Fin
    BY <1>5, <1>6, <1>7
  <1> QED
    BY <1>3, <1>8 DEF Fin

(* A region with the invariant computes what its children compute. *)
LEMMA ExecComputes == ExecInv => RegionComputesSchedule
  <1> SUFFICES ASSUME ExecInv, status = "done"
               PROVE  RunRegion = RunBodies
    BY DEF RegionComputesSchedule
  <1>1. \A p \in Points : Accounted(p)
    BY DEF ExecInv
  <1> PICK MM : Rows(MM)
    BY <1>1, RowsExist
  <1> QED
    BY RegionIsFin, BodiesAreFin

(* The fused region computes what its children compute: for every schedule *)
(* and every LoopBodies, of any length, over an iteration space of any     *)
(* size, whatever the operations compute, running the emitted statements   *)
(* leaves in memory exactly what running the children unfused, one after   *)
(* another, leaves.                                                        *)
THEOREM RegionIsItsChildren == ExecSpec => []RegionComputesSchedule
  <1>1. ExecInit => ExecInv
    BY InitExec
  <1>2. ExecInv /\ [ExecNext]_execVars => ExecInv'
    BY StepExec
  <1>3. ExecInv => RegionComputesSchedule
    BY ExecComputes
  <1> QED
    BY <1>1, <1>2, <1>3, PTL DEF ExecSpec
=============================================================================
