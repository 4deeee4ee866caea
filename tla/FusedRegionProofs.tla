-------------------------- MODULE FusedRegionProofs --------------------------
(***************************************************************************)
(* Proofs about FusedRegion: what is read is final, phases follow the      *)
(* schedule; then what a region reads from memory and what it forwards     *)
(* instead; then the names of locals.                                      *)
(***************************************************************************)
EXTENDS FusedRegion, WellFoundedInduction, SequenceTheorems, TLAPS

-----------------------------------------------------------------------------
(* Induction and recursion. *)

(* A set of natural numbers has a least element. *)
LEMMA LeastNumber ==
    ASSUME NEW T \in SUBSET Nat, T # {}
    PROVE  \E m \in T : \A k \in T : ~(k < m)
  <1>1. \E m \in T : \A k \in T : ~ (<<k, m>> \in OpToRel(<, Nat))
    BY NatLessThanWellFounded, WFMin, Zenon
  <1>2. \A x, y \in Nat : x < y => <<x, y>> \in OpToRel(<, Nat)
    BY Zenon DEF OpToRel
  <1> QED
    BY <1>1, <1>2, Zenon

(* Recursion along 1..n has a solution.                                    *)
Solves(f, F, a, n, X) ==
    f \in [0..n -> X] /\ f[0] = a /\ \A k \in 1..n : f[k] = F[k][f[k - 1]]

(* A recursion over 1..n has a solution. *)
LEMMA RecursionExists ==
    ASSUME NEW X, NEW n \in Nat, NEW a \in X, NEW F \in [1..n -> [X -> X]]
    PROVE  \E f : Solves(f, F, a, n, X)
  <1> DEFINE Partial(m, f) == Solves(f, F, a, m, X)
             T == {m \in 0..n : ~\E f : Partial(m, f)}
  <1> USE DEF Solves
  <1>1. Partial(0, [k \in 0..0 |-> a])
    OBVIOUS
  <1>2. ASSUME NEW m \in 1..n, NEW f, Partial(m - 1, f)
        PROVE  \E g : Partial(m, g)
    <2> DEFINE y == F[m][f[m - 1]]
               g == [k \in 0..m |-> IF k = m THEN y ELSE f[k]]
    <2>1. m - 1 \in 0..(m - 1) /\ m - 1 \in Nat /\ f[m - 1] \in X
      BY <1>2
    <2>2. y \in X
      BY <2>1
    <2>3. \A k \in 0..(m - 1) : g[k] = f[k] /\ g[k] \in X
      BY <1>2
    <2>4. g[m] = y
      OBVIOUS
    <2> HIDE DEF y
    <2>5. g \in [0..m -> X]
      BY <2>2, <1>2
    <2>6. \A k \in 1..m : g[k] = F[k][g[k - 1]]
      <3>1. TAKE k \in 1..m
      <3>2. CASE k = m
        BY <3>2, <2>1, <2>3, <2>4 DEF y
      <3>3. CASE k # m
        <4>1. k \in 1..(m - 1) /\ k - 1 \in 0..(m - 1) /\ k \in 0..(m - 1)
          BY <3>3
        <4>2. f[k] = F[k][f[k - 1]]
          BY <4>1, <1>2
        <4> QED
          BY <4>1, <4>2, <2>3
      <3> QED
        BY <3>2, <3>3
    <2>7. g[0] = a
      BY <1>2, <2>3
    <2> QED
      BY <2>5, <2>6, <2>7
  <1> HIDE DEF Partial, Solves
  <1>3. T = {}
    <2>1. SUFFICES ASSUME T # {} PROVE FALSE
      OBVIOUS
    <2>2. T \in SUBSET Nat
      OBVIOUS
    <2>3. PICK m \in T : \A k \in T : ~(k < m)
      <3> HIDE DEF T
      <3> QED
        BY <2>1, <2>2, LeastNumber
    <2>4. m # 0
      BY <1>1
    <2>5. m - 1 \in 0..n /\ m \in 1..n /\ m - 1 < m
      BY <2>4
    <2>6. m - 1 \notin T
      BY <2>3, <2>5
    <2>7. PICK f : Partial(m - 1, f)
      BY <2>5, <2>6
    <2>8. \E g : Partial(m, g)
      BY <2>5, <2>7, <1>2
    <2> QED
      BY <2>3, <2>8
  <1>4. PICK f : Partial(n, f)
    <2>1. n \in 0..n
      OBVIOUS
    <2> QED
      BY <1>3, <2>1
  <1> QED
    BY <1>4 DEF Partial

(* Two solutions of one recursion agree.                                   *)
LEMMA RecursionUnique ==
    ASSUME NEW n \in Nat, NEW f, NEW g, f[0] = g[0],
           \A k \in 1..n : f[k - 1] = g[k - 1] => f[k] = g[k]
    PROVE  \A k \in 0..n : f[k] = g[k]
  <1> DEFINE T == {k \in 0..n : f[k] # g[k]}
  <1>1. SUFFICES ASSUME T # {} PROVE FALSE
    OBVIOUS
  <1>2. T \in SUBSET Nat
    OBVIOUS
  <1>3. PICK m \in T : \A k \in T : ~(k < m)
    <2> HIDE DEF T
    <2> QED
      BY <1>1, <1>2, LeastNumber
  <1>4. m \in 1..n /\ m - 1 \in 0..n /\ m - 1 < m
    OBVIOUS
  <1>5. m - 1 \notin T
    BY <1>3, <1>4
  <1> QED
    BY <1>4, <1>5

(* What holds at 0 and passes from each number to the next holds up to n.  *)
LEMMA UpTo ==
    ASSUME NEW n \in Nat, NEW T, 0 \in T, \A k \in 1..n : k - 1 \in T => k \in T
    PROVE  \A k \in 0..n : k \in T
  <1> DEFINE R == {k \in 0..n : k \notin T}
  <1>1. SUFFICES ASSUME R # {} PROVE FALSE
    OBVIOUS
  <1>2. R \in SUBSET Nat
    OBVIOUS
  <1>3. PICK m \in R : \A k \in R : ~(k < m)
    <2> HIDE DEF R
    <2> QED
      BY <1>1, <1>2, LeastNumber
  <1>4. m \in 1..n /\ m - 1 \in 0..n /\ m - 1 < m
    OBVIOUS
  <1>5. m - 1 \notin R
    BY <1>3, <1>4
  <1> QED
    BY <1>4, <1>5

-----------------------------------------------------------------------------
(* Sequences. *)

(* A function on 1..n is a sequence. *)
LEMMA FunctionIsSeq ==
    ASSUME NEW S, NEW n \in Nat, NEW e \in [1..n -> S]
    PROVE  e \in Seq(S) /\ Len(e) = n
  BY SeqDef, SMT

(* The statement constructors build statements. *)
LEMMA StatementTypes ==
    /\ \A op \in Op, v \in Var, args \in Seq(Var) : Local(op, v, args) \in Stmt
    /\ \A v \in Var, b \in Buf, k \in Idx : LoadOf(v, b, k) \in Stmt
    /\ \A op \in {"store", "atomic"}, b \in Buf, k \in Idx, v \in Var :
          StoreStmts(op, b, k, v) \in Seq(Stmt)
  <1>1. <<>> \in Seq(Var) /\ <<>> \in Seq(Stmt)
    BY EmptySeq
  <1>2. ASSUME NEW op \in Op, NEW v \in Var, NEW args \in Seq(Var)
        PROVE  Local(op, v, args) \in Stmt
    BY DEF Local, Stmt
  <1>3. ASSUME NEW v \in Var, NEW b \in Buf, NEW k \in Idx
        PROVE  LoadOf(v, b, k) \in Stmt
    BY <1>1 DEF LoadOf, Stmt, Op
  <1>4. ASSUME NEW op \in {"store", "atomic"}, NEW b \in Buf, NEW k \in Idx, NEW v \in Var
        PROVE  StoreStmts(op, b, k, v) \in Seq(Stmt)
    <2>1. <<v>> \in Seq(Var)
      OBVIOUS
    <2>2. StoreTo(op, b, k, v) \in Stmt
      BY <2>1 DEF StoreTo, Stmt, Op
    <2>3. <<StoreTo(op, b, k, v)>> \in Seq(Stmt)
      BY <2>2
    <2> QED
      BY <1>1, <2>3 DEF StoreStmts
  <1> QED
    BY <1>2, <1>3, <1>4

(* The operands a LoopBody names are locals. *)
LEMMA OperandsType ==
    ASSUME TypeOK, NEW n \in Nat, NEW is \in Positions(n)
    PROVE  Operands(is) \in Seq(Var) /\ Len(Operands(is)) = Len(is) /\ Len(is) \in Nat
  <1>1. PICK m \in 0..n : is \in [1..m -> DOMAIN child.vals]
    BY DEF Positions
  <1>2. \A i \in DOMAIN child.vals : child.vals[i] \in Var
    BY DEF TypeOK, ChildOK
  <1>3. Operands(is) \in [1..m -> Var]
    BY <1>1, <1>2 DEF Operands
  <1>4. Len(is) = m
    BY <1>1, FunctionIsSeq
  <1> QED
    BY <1>1, <1>3, <1>4, FunctionIsSeq

(* The sequences of a scan update are well typed. *)
LEMMA ScanUpdateType ==
    ASSUME TypeOK, NEW values \in Seq(Var), values # <<>>
    PROVE  LET u == ScanUpdate(values) IN
           /\ u.states \in [1..Len(values) -> Var]
           /\ u.inits \in [1..Len(values) -> Stmt]
           /\ u.combines \in [1..Len(values) -> Stmt]
           /\ u.picks \in [1..Len(values) -> Stmt]
           /\ u.moves \in [1..Len(values) -> Stmt]
  <1> DEFINE n == Len(values)
             state(j) == <<"scan", count.scan + j - 1>>
             next(j) == <<"next", count.scan + j - 1>>
             temp(j) == <<"tmp", count.tmp + j - 1>>
             states == [j \in 1..n |-> state(j)]
  <1>1. n \in Nat /\ \A j \in 1..n : values[j] \in Var
    OBVIOUS
  <1>2. count.scan \in Nat /\ count.tmp \in Nat
    BY DEF TypeOK
  <1>3. \A j \in 1..n : state(j) \in Var /\ next(j) \in Var /\ temp(j) \in Var
    BY <1>2 DEF Var
  <1>4. states \in [1..n -> Var] /\ states \in Seq(Var)
    BY <1>1, <1>3, FunctionIsSeq
  <1>5. \A j \in 1..n :
           /\ <<state(j), values[j]>> \o states \o values \in Seq(Var)
           /\ <<values[j], temp(j)>> \in Seq(Var)
           /\ <<next(j)>> \in Seq(Var)
           /\ <<>> \in Seq(Var)
    <2> SUFFICES ASSUME NEW j \in 1..n
                 PROVE  /\ <<state(j), values[j]>> \o states \o values \in Seq(Var)
                        /\ <<values[j], temp(j)>> \in Seq(Var)
                        /\ <<next(j)>> \in Seq(Var)
                        /\ <<>> \in Seq(Var)
      OBVIOUS
    <2>0. state(j) \in Var /\ next(j) \in Var /\ temp(j) \in Var /\ values[j] \in Var
      BY <1>1, <1>3
    <2> HIDE DEF state, next, temp, states
    <2>1. <<state(j), values[j]>> \in Seq(Var) /\ <<values[j], temp(j)>> \in Seq(Var)
      BY <2>0
    <2>2. <<state(j), values[j]>> \o states \in Seq(Var)
      BY <2>1, <1>4, ConcatProperties
    <2>3. <<state(j), values[j]>> \o states \o values \in Seq(Var)
      BY <2>2, ConcatProperties
    <2> QED
      BY <2>0, <2>1, <2>3
  <1>6. \A j \in 1..n :
           /\ Local("uninit", state(j), <<>>) \in Stmt
           /\ Local("combine", temp(j), <<state(j), values[j]>> \o states \o values) \in Stmt
           /\ Local("pick", next(j), <<values[j], temp(j)>>) \in Stmt
           /\ Local("move", state(j), <<next(j)>>) \in Stmt
    <2> HIDE DEF state, next, temp, states
    <2>1. {"uninit", "combine", "pick", "move"} \subseteq Op
      BY DEF Op
    <2> QED
      BY <1>3, <1>5, <2>1, StatementTypes
  <1> HIDE DEF n
  <1> QED
    BY <1>4, <1>6 DEF ScanUpdate, n

-----------------------------------------------------------------------------
(* Type correctness. *)

(* The section that closes a phase is well typed. *)
LEMMA PhaseSectionType ==
    ASSUME TypeOK
    PROVE  PhaseSection \in Section /\ Flushed \in Seq(Stmt)
  <1>1. Flushed \in Seq(Stmt)
    BY ConcatProperties DEF TypeOK, Flushed
  <1>2. <<>> \in Seq(Stmt)
    BY EmptySeq
  <1> QED
    BY <1>1, <1>2 DEF PhaseSection, Section, TypeOK

(* The initial state is well typed.                                        *)
LEMMA TypeInit == Init => TypeOK
  <1> SUFFICES ASSUME Init PROVE TypeOK
    OBVIOUS
  <1>1. /\ <<>> \in Seq(Stmt) /\ <<>> \in Seq(Section) /\ <<>> \in Seq(Var)
        /\ {} \subseteq Outputs /\ {} \subseteq Buf
    BY EmptySeq
  <1>2. ChildOK
    BY <1>1 DEF Init, ChildOK, Idle
  <1>3. [key \in Key |-> None] \in [Key -> Var \cup {None}]
    OBVIOUS
  <1> QED
    BY <1>1, <1>2, <1>3 DEF Init, TypeOK

(* Every step keeps the state well typed.                                  *)
LEMMA TypeStep == TypeOK /\ [Next]_vars => TypeOK'
  <1> SUFFICES ASSUME TypeOK, [Next]_vars PROVE TypeOK'
    OBVIOUS
  <1> USE NamesAssumption, BoundsAssumption
  <1>0. /\ PhaseSection \in Section
        /\ Flushed \in Seq(Stmt)
        /\ \A i \in DOMAIN child.vals : child.vals[i] \in Var
        /\ NextTemp \in Var
        /\ <<>> \in Seq(Stmt) /\ <<>> \in Seq(Var)
    BY PhaseSectionType, EmptySeq DEF TypeOK, ChildOK, NextTemp, Var
  <1>c. ASSUME child' = Idle PROVE ChildOK'
    BY <1>c, EmptySeq DEF ChildOK, Idle
  <1>r. ASSUME NEW v \in Var, Returns(v), child.mode \in {"body", "scanned"}
        PROVE  ChildOK'
    <2>1. Append(child.vals, v) \in Seq(Var)
      BY AppendProperties DEF TypeOK, ChildOK
    <2>2. /\ child.ops + 1 \in Nat
          /\ child.out \in Outputs \cup {None} /\ child.out # None
      BY <1>r DEF TypeOK, ChildOK
    <2>3. child' = [out |-> child.out, vals |-> Append(child.vals, v),
                    ops |-> child.ops + 1, mode |-> child.mode]
      BY <1>r DEF Returns, TypeOK, ChildOK
    <2> QED
      BY <1>r, <2>1, <2>2, <2>3 DEF ChildOK
  <1>n. \A m, n \in Nat : count.tmp + m \in Nat /\ count.acc + m \in Nat
                           /\ count.scan + n \in Nat
    BY DEF TypeOK
  <1>t. [count EXCEPT !.tmp = @ + 1] \in [tmp: Nat, acc: Nat, scan: Nat]
    BY <1>n DEF TypeOK
  <1>1. ASSUME NEW o \in Outputs, StartChild(o) PROVE TypeOK'
    <2>1. ChildOK'
      BY <1>0, <1>1 DEF StartChild, Idle, ChildOK, Buf
    <2> QED
      BY <1>1, <2>1 DEF TypeOK, StartChild, schedule, handler, phase
  <1>2. ASSUME NEW b \in Buf, NEW k \in Idx, LoadForwarded(b, k) PROVE TypeOK'
    <2>1. <<b, k>> \in Key
      BY DEF Key
    <2>2. Forwarded(<<b, k>>) \in Var
      BY <1>2, <2>1 DEF LoadForwarded, Forwarded, TypeOK
    <2>3. ChildOK'
      BY <1>2, <1>r, <2>2 DEF LoadForwarded
    <2> QED
      BY <1>2, <2>3 DEF TypeOK, LoadForwarded, schedule, builder, handler, phase
  <1>3. ASSUME NEW b \in Buf, NEW k \in Idx, LoadMemory(b, k) PROVE TypeOK'
    <2>1. Append(bindings, LoadOf(NextTemp, b, k)) \in Seq(Stmt)
      BY <1>0, StatementTypes, AppendProperties DEF TypeOK
    <2>2. ChildOK'
      BY <1>0, <1>3, <1>r DEF LoadMemory
    <2> QED
      BY <1>3, <1>t, <2>1, <2>2 DEF TypeOK, LoadMemory, schedule, builder
  <1>4. ASSUME NEW is \in Positions(MaxArgs), Compute(is) PROVE TypeOK'
    <2>1. Local("calc", NextTemp, Operands(is)) \in Stmt
      BY <1>0, OperandsType, StatementTypes DEF Op
    <2>2. Append(bindings, Local("calc", NextTemp, Operands(is))) \in Seq(Stmt)
      BY <2>1, AppendProperties DEF TypeOK
    <2>3. ChildOK'
      BY <1>0, <1>4, <1>r DEF Compute
    <2> QED
      BY <1>4, <1>t, <2>2, <2>3 DEF TypeOK, Compute, schedule, builder
  <1>5. ASSUME NEW i \in DOMAIN child.vals, NEW k \in Idx,
               NEW op \in {"store", "atomic"}, Store(i, k, op)
        PROVE  TypeOK'
    <2>1. child.out \in Outputs /\ child.out \in Buf
      BY <1>5 DEF Store, TypeOK, ChildOK, Buf
    <2>2. Flushed \o StoreStmts(op, child.out, k, child.vals[i]) \in Seq(Stmt)
      BY <1>0, <2>1, StatementTypes, ConcatProperties
    <2>3. ForwardedBy(child.out, k, child.vals[i]) \in [Key -> Var \cup {None}]
      BY <1>0, <2>1 DEF ForwardedBy, TypeOK
    <2> QED
      BY <1>0, <1>5, <1>c, <2>1, <2>2, <2>3 DEF TypeOK, Store, builder
  <1>6. ASSUME NEW i \in DOMAIN child.vals, Reduction(i) PROVE TypeOK'
    <2> DEFINE acc == <<"acc", count.acc>>
    <2>1. acc \in Var
      BY DEF TypeOK, Var
    <2>2. /\ <<child.vals[i]>> \in Seq(Var)
          /\ <<acc>> \in Seq(Var)
      BY <1>0, <2>1
    <2> HIDE DEF acc
    <2>3. /\ Local("init", acc, <<>>) \in Stmt
          /\ Local("update", acc, <<child.vals[i]>>) \in Stmt
      BY <1>0, <2>1, <2>2, StatementTypes DEF Op
    <2>4. /\ Append(inits, Local("init", acc, <<>>)) \in Seq(Stmt)
          /\ Append(Flushed, Local("update", acc, <<child.vals[i]>>)) \in Seq(Stmt)
      BY <1>0, <2>3, AppendProperties DEF TypeOK
    <2>5. /\ inits' = Append(inits, Local("init", acc, <<>>))
          /\ block' = Append(Flushed, Local("update", acc, <<child.vals[i]>>))
          /\ child' = [child EXCEPT !.vals = <<acc>>, !.mode = "reduced"]
          /\ child.mode = "body"
          /\ bindings' = <<>>
          /\ count' = [count EXCEPT !.acc = @ + 1]
          /\ UNCHANGED <<schedule, builder, fins, fwd, fwdRed, reads>>
      BY <1>6 DEF Reduction, acc
    <2>6. ChildOK'
      BY <2>2, <2>5 DEF ChildOK, TypeOK
    <2>7. [count EXCEPT !.acc = @ + 1] \in [tmp: Nat, acc: Nat, scan: Nat]
      BY <1>n DEF TypeOK
    <2> QED
      BY <1>0, <2>4, <2>5, <2>6, <2>7 DEF TypeOK, schedule, builder
  <1>7. ASSUME NEW k \in RowIdx, StoreReduction(k) PROVE TypeOK'
    <2>1. child.out \in Outputs /\ child.out \in Buf /\ k \in Idx
      BY <1>7 DEF StoreReduction, TypeOK, ChildOK, Buf, Idx
    <2>2. child.vals[1] \in Var
      BY <1>0, <1>7 DEF StoreReduction, TypeOK, ChildOK
    <2>3. fins \o StoreStmts("store", child.out, k, child.vals[1]) \in Seq(Stmt)
      BY <2>1, <2>2, StatementTypes, ConcatProperties DEF TypeOK
    <2>4. ReductionForwardedBy(child.out, k, child.vals[1]) \in [Key -> Var \cup {None}]
      BY <2>1, <2>2 DEF ReductionForwardedBy, TypeOK
    <2> QED
      BY <1>0, <1>7, <1>c, <2>1, <2>3, <2>4 DEF TypeOK, StoreReduction, builder
  <1>8. ASSUME NEW is \in Positions(MaxStates), is # <<>>, Scan(is) PROVE TypeOK'
    <2> DEFINE values == Operands(is)
               u == ScanUpdate(values)
               n == Len(values)
    <2>1. values \in Seq(Var) /\ values # <<>> /\ n = Len(is) /\ n \in Nat
      BY <1>8, OperandsType, EmptySeq DEF Positions
    <2>2. /\ u.states \in Seq(Var) /\ u.inits \in Seq(Stmt)
          /\ u.combines \in Seq(Stmt) /\ u.picks \in Seq(Stmt)
          /\ u.moves \in Seq(Stmt)
      BY <2>1, ScanUpdateType, FunctionIsSeq
    <2> HIDE DEF u
    <2>3. ScanStmts(u) \in Seq(Stmt)
      BY <2>2, ConcatProperties DEF ScanStmts
    <2>4. /\ inits \o u.inits \in Seq(Stmt)
          /\ Flushed \o ScanStmts(u) \in Seq(Stmt)
          /\ child.vals \o u.states \in Seq(Var)
      BY <1>0, <2>2, <2>3, ConcatProperties DEF TypeOK, ChildOK
    <2>5. /\ inits' = inits \o u.inits
          /\ block' = Flushed \o ScanStmts(u)
          /\ child' = [child EXCEPT !.vals = @ \o u.states, !.mode = "scanned"]
          /\ child.mode = "body"
          /\ bindings' = <<>>
          /\ count' = [count EXCEPT !.tmp = @ + Len(is), !.scan = @ + Len(is)]
          /\ UNCHANGED <<schedule, builder, fins, fwd, fwdRed, reads>>
      BY <1>8 DEF Scan, u
    <2> HIDE DEF values, n
    <2>6. Len(is) \in Nat
      BY <2>1
    <2>7. ChildOK'
      BY <2>4, <2>5 DEF ChildOK, TypeOK
    <2>8. [count EXCEPT !.tmp = @ + Len(is), !.scan = @ + Len(is)]
             \in [tmp: Nat, acc: Nat, scan: Nat]
      BY <2>6, <1>n DEF TypeOK
    <2> QED
      BY <1>0, <2>4, <2>5, <2>7, <2>8 DEF TypeOK, schedule, builder
  <1>9. ASSUME NEW reductionActive \in BOOLEAN, NextPhase(reductionActive), Marker,
               enabled' \in BOOLEAN
        PROVE  TypeOK'
    <2>1. ForwardedAtPhaseStart \in [Key -> Var \cup {None}]
      BY DEF ForwardedAtPhaseStart
    <2>2. Append(outer, PhaseSection) \in Seq(Section)
      BY <1>0, AppendProperties DEF TypeOK
    <2>c. ChildOK'
      BY <1>9 DEF Marker, TypeOK, ChildOK
    <2>m. markers' \in Nat /\ notReady' \subseteq Outputs
      BY <1>9 DEF Marker, TypeOK
    <2>3. CASE EntersNewPhase
      BY <1>0, <1>9, <2>c, <2>m, <2>1, <2>2, <2>3 DEF TypeOK, NextPhase, Marker
    <2>4. CASE ~EntersNewPhase
      BY <1>9, <2>c, <2>m, <2>4 DEF TypeOK, NextPhase, Marker, phase
    <2> QED
      BY <2>3, <2>4
  <1>10. CASE DisableReduction
    BY <1>9, <1>10 DEF DisableReduction
  <1>11. CASE EnableReduction
    BY <1>9, <1>11 DEF EnableReduction
  <1>12. CASE Finish
    <2>1. Append(outer, PhaseSection) \in Seq(Section)
      BY <1>0, AppendProperties DEF TypeOK
    <2> QED
      BY <1>12, <2>1 DEF TypeOK, ChildOK, Finish, schedule, handler, phase
  <1>13. CASE Raise
    BY <1>13, <1>c DEF TypeOK, Raise, Fails, schedule, handler, phase
  <1>14. ASSUME NEW i \in DOMAIN child.vals, RaiseInReduction(i) PROVE TypeOK'
    <2> DEFINE acc == <<"acc", count.acc>>
    <2>1. acc \in Var
      BY DEF TypeOK, Var
    <2> HIDE DEF acc
    <2>2. Local("init", acc, <<>>) \in Stmt
      BY <2>1, EmptySeq, StatementTypes DEF Op
    <2>3. Append(inits, Local("init", acc, <<>>)) \in Seq(Stmt)
      BY <2>2, AppendProperties DEF TypeOK
    <2>4. /\ inits' = Append(inits, Local("init", acc, <<>>))
          /\ block' = Flushed
          /\ bindings' = <<>>
          /\ count' = [count EXCEPT !.acc = @ + 1]
          /\ child' = Idle /\ status' = "failed"
          /\ UNCHANGED <<schedule, active, opened, outer, fins, fwd, fwdRed, reads>>
      BY <1>14 DEF RaiseInReduction, Fails, acc
    <2>5. [count EXCEPT !.acc = @ + 1] \in [tmp: Nat, acc: Nat, scan: Nat]
      BY <1>n DEF TypeOK
    <2> QED
      BY <1>0, <1>c, <2>3, <2>4, <2>5 DEF TypeOK, schedule
  <1>15. CASE UNCHANGED vars
    BY <1>15 DEF TypeOK, ChildOK, vars, schedule, builder, handler, phase
  <1> QED
    BY <1>1, <1>2, <1>3, <1>4, <1>5, <1>6, <1>7, <1>8, <1>10, <1>11, <1>12, <1>13,
       <1>14, <1>15 DEF Next, Stopped

(* The type invariant of the builder and the handler holds in every state, *)
(* whatever the buffers, the index keys and the bounds.                    *)
THEOREM TypeCorrect == Spec => []TypeOK
  BY TypeInit, TypeStep, PTL DEF Spec

-----------------------------------------------------------------------------
(* The inductive invariant behind ReadsSettled.  The locals that a LoopBody *)
(* or a forwarding table holds are exactly what could leak into a statement *)
(* later, so each of them must already have a settled value where the next  *)
(* statement will stand; a reduced value must wait for its marker.          *)

Settled == Exported \cup Given(Flushed)

ChildHolds ==
    /\ child.mode \in {"body", "scanned"} => \A i \in DOMAIN child.vals : child.vals[i] \in Settled
    /\ child.mode = "reduced" => child.vals[1] \in Declares(inits, "init")

ForwardedHolds ==
    \A key \in Key : fwd[key] # None => fwd[key] \in Exported \cup Given(block)

ReductionHolds ==
    \A key \in Key : fwdRed[key] # None =>
        /\ key[1] \in Outputs /\ key[2] \in RowIdx
        /\ \/ fwdRed[key] \in Exported
           \/ key[1] \in notReady /\ fwdRed[key] \in Declares(inits, "init")

EmptyUntilOpened ==
    /\ child.mode # "idle" => opened
    /\ ~opened => /\ block = <<>> /\ bindings = <<>> /\ inits = <<>> /\ fins = <<>>
                  /\ \A key \in Key : fwd[key] = None

IInv ==
    /\ TypeOK
    /\ ReadsSettled
    /\ PhaseFollowsSchedule
    /\ ChildHolds
    /\ ForwardedHolds
    /\ ReductionHolds
    /\ EmptyUntilOpened

-----------------------------------------------------------------------------
(* What concatenation does to the locals given, declared and read. *)

(* The elements of a concatenation. *)
LEMMA ConcatElements ==
    ASSUME NEW s \in Seq(Stmt), NEW t \in Seq(Stmt)
    PROVE  /\ s \o t \in Seq(Stmt)
           /\ DOMAIN s = 1..Len(s) /\ Len(s) \in Nat
           /\ DOMAIN t = 1..Len(t) /\ Len(t) \in Nat
           /\ DOMAIN (s \o t) = 1..(Len(s) + Len(t))
           /\ \A i \in DOMAIN s : (s \o t)[i] = s[i] /\ i \in DOMAIN (s \o t)
           /\ \A i \in DOMAIN t :
                 (s \o t)[i + Len(s)] = t[i] /\ i + Len(s) \in DOMAIN (s \o t)
           /\ \A i \in DOMAIN (s \o t) : i \notin DOMAIN s =>
                 i - Len(s) \in DOMAIN t /\ (s \o t)[i] = t[i - Len(s)]
  BY ConcatProperties, LenProperties

(* A concatenation gives the locals its parts give.                        *)
LEMMA GivenConcat ==
    ASSUME NEW s \in Seq(Stmt), NEW t \in Seq(Stmt)
    PROVE  Given(s \o t) = Given(s) \cup Given(t)
  <1>1. Given(s) \cup Given(t) \subseteq Given(s \o t)
    <2>1. ASSUME NEW i \in DOMAIN s, Gives(s[i])
          PROVE  s[i].dst \in Given(s \o t)
      <3>1. (s \o t)[i] = s[i] /\ i \in DOMAIN (s \o t)
        BY ConcatElements
      <3> QED
        BY <2>1, <3>1 DEF Given
    <2>2. ASSUME NEW i \in DOMAIN t, Gives(t[i])
          PROVE  t[i].dst \in Given(s \o t)
      <3>1. (s \o t)[i + Len(s)] = t[i] /\ i + Len(s) \in DOMAIN (s \o t)
        BY ConcatElements
      <3> QED
        BY <2>2, <3>1 DEF Given
    <2> QED
      BY <2>1, <2>2 DEF Given
  <1>2. Given(s \o t) \subseteq Given(s) \cup Given(t)
    <2> SUFFICES ASSUME NEW i \in DOMAIN (s \o t), Gives((s \o t)[i])
                 PROVE  (s \o t)[i].dst \in Given(s) \cup Given(t)
      BY DEF Given
    <2>1. CASE i \in DOMAIN s
      BY <2>1, ConcatElements DEF Given
    <2>2. CASE i \notin DOMAIN s
      BY <2>2, ConcatElements DEF Given
    <2> QED
      BY <2>1, <2>2
  <1> QED
    BY <1>1, <1>2

(* A concatenation declares the locals its parts declare.                  *)
LEMMA DeclaresConcat ==
    ASSUME NEW s \in Seq(Stmt), NEW t \in Seq(Stmt), NEW op
    PROVE  Declares(s \o t, op) = Declares(s, op) \cup Declares(t, op)
  <1>1. Declares(s, op) \cup Declares(t, op) \subseteq Declares(s \o t, op)
    <2>1. ASSUME NEW i \in DOMAIN s, s[i].op = op
          PROVE  s[i].dst \in Declares(s \o t, op)
      <3>1. (s \o t)[i] = s[i] /\ i \in DOMAIN (s \o t)
        BY ConcatElements
      <3> QED
        BY <2>1, <3>1 DEF Declares
    <2>2. ASSUME NEW i \in DOMAIN t, t[i].op = op
          PROVE  t[i].dst \in Declares(s \o t, op)
      <3>1. (s \o t)[i + Len(s)] = t[i] /\ i + Len(s) \in DOMAIN (s \o t)
        BY ConcatElements
      <3> QED
        BY <2>2, <3>1 DEF Declares
    <2> QED
      BY <2>1, <2>2 DEF Declares
  <1>2. Declares(s \o t, op) \subseteq Declares(s, op) \cup Declares(t, op)
    <2> SUFFICES ASSUME NEW i \in DOMAIN (s \o t), (s \o t)[i].op = op
                 PROVE  (s \o t)[i].dst \in Declares(s, op) \cup Declares(t, op)
      BY DEF Declares
    <2>1. CASE i \in DOMAIN s
      BY <2>1, ConcatElements DEF Declares
    <2>2. CASE i \notin DOMAIN s
      BY <2>2, ConcatElements DEF Declares
    <2> QED
      BY <2>1, <2>2
  <1> QED
    BY <1>1, <1>2

(* Reads that are settled stay settled when more is known.                 *)
LEMMA BodyReadsMonotone ==
    ASSUME NEW s \in Seq(Stmt), NEW ini, NEW ini2, NEW base, NEW base2,
           BodyReads(s, ini, base),
           Declares(ini, "init") \subseteq Declares(ini2, "init"),
           Declares(ini, "uninit") \subseteq Declares(ini2, "uninit"),
           base \subseteq base2
    PROVE  BodyReads(s, ini2, base2)
  BY DEF BodyReads

(* A block may be extended by statements whose reads are settled by it.    *)
LEMMA BodyReadsConcat ==
    ASSUME NEW s \in Seq(Stmt), NEW t \in Seq(Stmt), NEW ini, NEW base,
           BodyReads(s, ini, base),
           BodyReads(t, ini, base \cup Given(s))
    PROVE  BodyReads(s \o t, ini, base)
  <1> DEFINE st == s \o t
             extra(x) == IF x.op = "combine" THEN Declares(ini, "uninit") ELSE {}
  <1> SUFFICES ASSUME NEW i \in DOMAIN st
               PROVE  /\ ArgsOf(st[i]) \subseteq
                             base \cup GivenBefore(st, i) \cup extra(st[i])
                      /\ st[i].op = "update" => st[i].dst \in Declares(ini, "init")
                      /\ st[i].op = "move" => st[i].dst \in Declares(ini, "uninit")
    BY DEF BodyReads
  <1>1. CASE i \in DOMAIN s
    <2>1. st[i] = s[i]
      BY <1>1, ConcatElements
    <2>2. GivenBefore(s, i) \subseteq GivenBefore(st, i)
      BY ConcatElements DEF GivenBefore
    <2>3. /\ ArgsOf(s[i]) \subseteq base \cup GivenBefore(s, i) \cup extra(s[i])
          /\ s[i].op = "update" => s[i].dst \in Declares(ini, "init")
          /\ s[i].op = "move" => s[i].dst \in Declares(ini, "uninit")
      BY <1>1 DEF BodyReads
    <2> QED
      BY <2>1, <2>2, <2>3
  <1>2. CASE i \notin DOMAIN s
    <2> DEFINE j == i - Len(s)
    <2>1. j \in DOMAIN t /\ st[i] = t[j]
      BY <1>2, ConcatElements
    <2>2. Given(s) \subseteq GivenBefore(st, i)
      <3>1. \A h \in DOMAIN s : h < i /\ st[h] = s[h] /\ h \in DOMAIN st
        BY <1>2, ConcatElements
      <3> QED
        BY <3>1 DEF Given, GivenBefore
    <2>3. GivenBefore(t, j) \subseteq GivenBefore(st, i)
      <3>1. \A h \in DOMAIN t : h < j =>
              h + Len(s) < i /\ st[h + Len(s)] = t[h] /\ h + Len(s) \in DOMAIN st
        BY <1>2, ConcatElements
      <3> QED
        BY <3>1 DEF GivenBefore
    <2>4. /\ ArgsOf(t[j]) \subseteq
                (base \cup Given(s)) \cup GivenBefore(t, j) \cup extra(t[j])
          /\ t[j].op = "update" => t[j].dst \in Declares(ini, "init")
          /\ t[j].op = "move" => t[j].dst \in Declares(ini, "uninit")
      BY <2>1 DEF BodyReads
    <2> QED
      BY <2>1, <2>2, <2>3, <2>4
  <1> QED
    BY <1>1, <1>2

(* One statement appended.                                                 *)
LEMMA AppendGiven ==
    ASSUME NEW s \in Seq(Stmt), NEW x \in Stmt
    PROVE  /\ Given(Append(s, x)) = Given(s) \cup (IF Gives(x) THEN {x.dst} ELSE {})
           /\ \A op : Declares(Append(s, x), op) =
                         Declares(s, op) \cup (IF x.op = op THEN {x.dst} ELSE {})
  <1>1. <<x>> \in Seq(Stmt) /\ DOMAIN <<x>> = {1} /\ <<x>>[1] = x
    OBVIOUS
  <1>2. Append(s, x) = s \o <<x>>
    BY AppendIsConcat
  <1>3. Given(<<x>>) = IF Gives(x) THEN {x.dst} ELSE {}
    BY <1>1 DEF Given
  <1>4. ASSUME NEW op PROVE Declares(<<x>>, op) = IF x.op = op THEN {x.dst} ELSE {}
    BY <1>1 DEF Declares
  <1>5. Given(s \o <<x>>) = Given(s) \cup Given(<<x>>)
    BY <1>1, GivenConcat
  <1>6. ASSUME NEW op PROVE Declares(s \o <<x>>, op) = Declares(s, op) \cup Declares(<<x>>, op)
    BY <1>1, DeclaresConcat
  <1> QED
    BY <1>2, <1>3, <1>4, <1>5, <1>6

(* A block stays settled when one settled statement is appended.           *)
LEMMA AppendBodyReads ==
    ASSUME NEW s \in Seq(Stmt), NEW x \in Stmt, NEW ini, NEW base,
           BodyReads(s, ini, base),
           ArgsOf(x) \subseteq base \cup Given(s),
           x.op = "update" => x.dst \in Declares(ini, "init"),
           x.op = "move" => x.dst \in Declares(ini, "uninit")
    PROVE  BodyReads(Append(s, x), ini, base)
  <1>1. <<x>> \in Seq(Stmt) /\ DOMAIN <<x>> = {1} /\ <<x>>[1] = x
    OBVIOUS
  <1>2. Append(s, x) = s \o <<x>>
    BY AppendIsConcat
  <1>3. BodyReads(<<x>>, ini, base \cup Given(s))
    BY <1>1 DEF BodyReads
  <1> QED
    BY <1>1, <1>2, <1>3, BodyReadsConcat

-----------------------------------------------------------------------------
(* The sections already closed. *)

(* Appending a settled section exports its accumulators, or its locals.    *)
LEMMA SectionAppended ==
    ASSUME NEW secs \in Seq(Section), NEW sec \in Section,
           SectionsSettled(secs),
           BodyReads(sec.body, sec.inits, ExportsBefore(secs, Len(secs) + 1)),
           FinReads(sec.fins, sec.inits, ExportsBefore(secs, Len(secs) + 1))
    PROVE  LET new == Append(secs, sec) IN
           /\ ExportsBefore(new, Len(new) + 1) =
                 ExportsBefore(secs, Len(secs) + 1) \cup (Exports(sec) \cap Var)
           /\ SectionsSettled(new)
  <1> DEFINE N == Len(secs) + 1
             new == Append(secs, sec)
  <1>1. /\ N \in Nat \ {0} /\ DOMAIN secs = 1..(N - 1) /\ DOMAIN new = 1..N
        /\ Len(new) = N
        /\ new[N] = sec
        /\ \A n \in 1..(N - 1) : new[n] = secs[n]
    BY AppendProperties, LenProperties
  <1> HIDE DEF new
  <1>2. \A n \in 1..N : ExportsBefore(new, n) = ExportsBefore(secs, n)
    <2> SUFFICES ASSUME NEW n \in 1..N
                 PROVE  \A v \in Var : (\E m \in DOMAIN new : m < n /\ v \in Exports(new[m]))
                                  <=> (\E m \in DOMAIN secs : m < n /\ v \in Exports(secs[m]))
      BY DEF ExportsBefore
    <2>1. \A m \in DOMAIN new : m < n => m \in DOMAIN secs /\ new[m] = secs[m]
      BY <1>1
    <2>2. \A m \in DOMAIN secs : m \in DOMAIN new /\ new[m] = secs[m]
      BY <1>1
    <2> QED
      BY <2>1, <2>2
  <1>3. ExportsBefore(new, N + 1) = ExportsBefore(secs, N) \cup (Exports(sec) \cap Var)
    <2>1. ASSUME NEW v \in Var
          PROVE  (\E m \in DOMAIN new : m < N + 1 /\ v \in Exports(new[m]))
                   <=> \/ \E m \in DOMAIN secs : m < N /\ v \in Exports(secs[m])
                       \/ v \in Exports(sec)
      <3>1. \A m \in DOMAIN new : m = N \/ (m \in DOMAIN secs /\ m < N /\ new[m] = secs[m])
        BY <1>1
      <3>2. \A m \in DOMAIN secs : m \in DOMAIN new /\ new[m] = secs[m] /\ m < N + 1
        BY <1>1
      <3>3. N \in DOMAIN new /\ N < N + 1
        BY <1>1
      <3> QED
        BY <1>1, <3>1, <3>2, <3>3
    <2> QED
      BY <2>1 DEF ExportsBefore
  <1>4. SectionsSettled(new)
    <2> SUFFICES ASSUME NEW n \in 1..N
                 PROVE  /\ BodyReads(new[n].body, new[n].inits, ExportsBefore(new, n))
                        /\ FinReads(new[n].fins, new[n].inits, ExportsBefore(new, n))
      BY <1>1 DEF SectionsSettled
    <2>1. CASE n \in 1..(N - 1)
      BY <1>1, <1>2, <2>1 DEF SectionsSettled
    <2>2. CASE n = N
      BY <1>1, <1>2, <2>2
    <2> QED
      BY <1>1, <2>1, <2>2
  <1> QED
    BY <1>1, <1>3, <1>4 DEF new

(* What the builder appends when a phase closes.                           *)
LEMMA PhaseClosed ==
    ASSUME TypeOK, ReadsSettled, PhaseFollowsSchedule,
           outer' = Append(outer, PhaseSection)
    PROVE  /\ Exported' = Exported \cup (Exports(PhaseSection) \cap Var)
           /\ SectionsSettled(outer')
           /\ active => Exports(PhaseSection) = Declares(inits, "init")
  <1>1. /\ PhaseSection.body = Flushed
        /\ PhaseSection.inits = inits
        /\ PhaseSection.fins = fins
        /\ active => PhaseSection.loop
    BY DEF PhaseSection, PhaseFollowsSchedule, InLoop
  <1>2. outer \in Seq(Section) /\ PhaseSection \in Section
    BY PhaseSectionType DEF TypeOK
  <1>3. /\ BodyReads(PhaseSection.body, PhaseSection.inits, Exported)
        /\ FinReads(PhaseSection.fins, PhaseSection.inits, Exported)
        /\ SectionsSettled(outer)
    BY <1>1 DEF ReadsSettled, PhaseSettled
  <1>4. active => Exports(PhaseSection) = Declares(inits, "init")
    BY <1>1 DEF Exports
  <1>5. LET new == Append(outer, PhaseSection) IN
        /\ ExportsBefore(new, Len(new) + 1) = Exported \cup (Exports(PhaseSection) \cap Var)
        /\ SectionsSettled(new)
    BY <1>2, <1>3, SectionAppended DEF Exported
  <1> QED
    BY <1>4, <1>5 DEF Exported

-----------------------------------------------------------------------------
(* The inductive step, one lemma per group of actions.                     *)

(* A value handed to the LoopBody is settled if the handler's new value is. *)
LEMMA ReturnsHolds ==
    ASSUME IInv, NEW v \in Var, Returns(v), child.mode \in {"body", "scanned"},
           UNCHANGED <<inits, outer>>,
           Settled \subseteq Settled', v \in Settled'
    PROVE  ChildHolds' /\ child'.mode = child.mode
  <1>1. child \in [out: Outputs \cup {None}, vals: Seq(Var), ops: Nat,
                   mode: {"idle", "body", "scanned", "reduced"}]
    BY DEF IInv, TypeOK, ChildOK
  <1>2. child'.vals = Append(child.vals, v) /\ child'.mode = child.mode
    BY <1>1 DEF Returns
  <1>3. \A i \in DOMAIN child'.vals : child'.vals[i] = v \/
            (i \in DOMAIN child.vals /\ child'.vals[i] = child.vals[i])
    BY <1>1, <1>2, AppendProperties, LenProperties
  <1> QED
    BY <1>2, <1>3 DEF IInv, ChildHolds

(* load, when the value is forwarded, keeps the invariant.                 *)
LEMMA LoadForwardedKeeps ==
    ASSUME IInv, TypeOK', NEW b \in Buf, NEW k \in Idx, LoadForwarded(b, k)
    PROVE  IInv'
  <1> DEFINE v == Forwarded(<<b, k>>)
  <1>1. <<b, k>> \in Key /\ <<b, k>>[1] = b /\ <<b, k>>[2] = k
    BY DEF Key
  <1>2. UNCHANGED <<schedule, builder, handler>> /\ v # None /\ Returns(v) /\ Readable(b, k)
        /\ child.mode \in {"body", "scanned"}
    BY DEF LoadForwarded
  <1>3. v \in Exported \cup Given(block)
    <2>1. CASE fwd[<<b, k>>] # None
      BY <1>1, <1>2, <2>1 DEF Forwarded, IInv, ForwardedHolds
    <2>2. CASE fwd[<<b, k>>] = None
      <3>1. v = fwdRed[<<b, k>>] /\ v # None
        BY <1>2, <2>2 DEF Forwarded
      <3>2. /\ b \in Outputs /\ k \in RowIdx
            /\ v \in Exported \/ b \in notReady
        BY <1>1, <3>1 DEF IInv, ReductionHolds
      <3>3. b \notin notReady
        BY <1>2, <3>2, NamesAssumption DEF Readable
      <3> QED
        BY <3>2, <3>3
    <2> QED
      BY <2>1, <2>2
  <1>4. v \in Var
    BY <1>1, <1>2 DEF Forwarded, IInv, TypeOK
  <1>5. Given(block) \subseteq Given(Flushed)
    BY GivenConcat DEF IInv, TypeOK, Flushed
  <1>6. UNCHANGED <<outer, block, bindings, inits, fins, fwd, fwdRed, notReady, hasRed,
                    enabled, active, opened>>
    BY <1>2 DEF schedule, builder, handler, phase
  <1>7. Settled' = Settled /\ Exported' = Exported /\ Flushed' = Flushed
    BY <1>6 DEF Settled, Exported, Flushed
  <1> HIDE DEF v
  <1>8. ChildHolds' /\ child'.mode = child.mode
    BY <1>2, <1>3, <1>4, <1>5, <1>6, <1>7, ReturnsHolds DEF Settled
  <1>9. ReadsSettled' /\ PhaseFollowsSchedule'
    BY <1>6, <1>7 DEF IInv, ReadsSettled, PhaseSettled, PhaseFollowsSchedule, InLoop
  <1>10. ForwardedHolds' /\ ReductionHolds' /\ EmptyUntilOpened'
    BY <1>6, <1>7, <1>8 DEF IInv, ForwardedHolds, ReductionHolds, EmptyUntilOpened
  <1> QED
    BY <1>8, <1>9, <1>10 DEF IInv

(* Binding an expression over settled values to a new temporary.           *)
LEMMA BindKeeps ==
    ASSUME IInv, TypeOK', NEW x \in Stmt, x.op \in {"load", "calc"}, x.dst = NextTemp,
           ArgsOf(x) \subseteq Settled,
           child.mode \in {"body", "scanned"},
           bindings' = Append(bindings, x),
           Returns(NextTemp),
           UNCHANGED <<schedule, builder, block, inits, fins, fwd, fwdRed>>
    PROVE  IInv'
  <1>1. UNCHANGED <<outer, block, inits, fins, fwd, fwdRed, notReady, hasRed,
                    enabled, active, opened>>
    BY DEF schedule, builder
  <1>2. /\ block \in Seq(Stmt) /\ bindings \in Seq(Stmt)
        /\ Flushed \in Seq(Stmt) /\ NextTemp \in Var
    BY ConcatProperties DEF IInv, TypeOK, Flushed, NextTemp, Var
  <1>3. Flushed' = Append(Flushed, x)
    <2>1. <<x>> \in Seq(Stmt)
      OBVIOUS
    <2>2. bindings' = bindings \o <<x>>
      BY <1>2, AppendIsConcat
    <2>3. block \o (bindings \o <<x>>) = (block \o bindings) \o <<x>>
      BY <1>2, <2>1, ConcatAssociative
    <2> QED
      BY <1>1, <1>2, <2>2, <2>3, AppendIsConcat DEF Flushed
  <1>4. Exported' = Exported
    BY <1>1 DEF Exported
  <1>5. Given(Flushed') = Given(Flushed) \cup {NextTemp}
    BY <1>2, <1>3, AppendGiven DEF Gives
  <1>6. Settled' = Settled \cup {NextTemp}
    BY <1>4, <1>5 DEF Settled
  <1>7. ChildHolds' /\ child'.mode = child.mode
    BY <1>1, <1>2, <1>6, ReturnsHolds
  <1>8. BodyReads(Append(Flushed, x), inits, Exported)
    <2>1. BodyReads(Flushed, inits, Exported)
      BY DEF IInv, ReadsSettled, PhaseSettled
    <2> QED
      BY <1>2, <2>1, AppendBodyReads DEF Settled
  <1>9. ReadsSettled' /\ PhaseFollowsSchedule'
    BY <1>1, <1>3, <1>4, <1>8 DEF IInv, ReadsSettled, PhaseSettled, PhaseFollowsSchedule, InLoop
  <1>10. ForwardedHolds' /\ ReductionHolds'
    BY <1>1, <1>4 DEF IInv, ForwardedHolds, ReductionHolds
  <1>11. EmptyUntilOpened'
    <2>1. opened
      BY DEF IInv, EmptyUntilOpened
    <2> QED
      BY <1>1, <1>7, <2>1 DEF EmptyUntilOpened
  <1> QED
    BY <1>7, <1>9, <1>10, <1>11 DEF IInv

(* load, when the value comes from memory, keeps the invariant.            *)
LEMMA LoadMemoryKeeps ==
    ASSUME IInv, TypeOK', NEW b \in Buf, NEW k \in Idx, LoadMemory(b, k)
    PROVE  IInv'
  <1> DEFINE x == LoadOf(NextTemp, b, k)
  <1>1. NextTemp \in Var
    BY DEF IInv, TypeOK, NextTemp, Var
  <1>2. x \in Stmt
    BY <1>1, StatementTypes
  <1>3. x.op = "load" /\ x.dst = NextTemp /\ ArgsOf(x) = {}
    BY DEF LoadOf, ArgsOf
  <1> HIDE DEF x
  <1> QED
    BY <1>2, <1>3, BindKeeps DEF LoadMemory, x

(* A scalar operation keeps the invariant.                                 *)
LEMMA ComputeKeeps ==
    ASSUME IInv, TypeOK', NEW is \in Positions(MaxArgs), Compute(is)
    PROVE  IInv'
  <1> DEFINE x == Local("calc", NextTemp, Operands(is))
  <1>1. NextTemp \in Var
    BY DEF IInv, TypeOK, NextTemp, Var
  <1>2. Operands(is) \in Seq(Var)
    BY OperandsType, BoundsAssumption DEF IInv
  <1>3. x \in Stmt
    BY <1>1, <1>2, StatementTypes DEF Op
  <1>4. x.op = "calc" /\ x.dst = NextTemp /\ x.args = Operands(is)
    BY DEF Local
  <1>5. \A a \in DOMAIN is : is[a] \in DOMAIN child.vals
    BY DEF Positions
  <1>6. ArgsOf(x) \subseteq Settled
    BY <1>4, <1>5 DEF ArgsOf, Operands, Compute, IInv, ChildHolds
  <1> HIDE DEF x
  <1> QED
    BY <1>3, <1>4, <1>6, BindKeeps DEF Compute, x

(* Extending the flushed block by settled statements, inside one phase.    *)
LEMMA ExtendKeeps ==
    ASSUME IInv, TypeOK', NEW t \in Seq(Stmt), NEW added \in Seq(Stmt),
           inits' = inits \o added,
           block' = Flushed \o t, bindings' = <<>>,
           BodyReads(t, inits', Exported \cup Given(Flushed)),
           UNCHANGED outer
    PROVE  /\ Exported' = Exported
           /\ Flushed' = block' /\ Given(block') = Given(Flushed) \cup Given(t)
           /\ Given(block) \subseteq Given(block')
           /\ Settled' = Settled \cup Given(t)
           /\ Declares(inits, "init") \subseteq Declares(inits', "init")
           /\ BodyReads(Flushed', inits', Exported')
  <1>1. /\ block \in Seq(Stmt) /\ bindings \in Seq(Stmt) /\ inits \in Seq(Stmt)
        /\ Flushed \in Seq(Stmt) /\ block' \in Seq(Stmt)
    BY ConcatProperties DEF IInv, TypeOK, Flushed
  <1>2. Exported' = Exported
    BY DEF Exported
  <1>3. Flushed' = block'
    BY <1>1, ConcatEmptySeq DEF Flushed
  <1>4. Given(block') = Given(Flushed) \cup Given(t)
    BY <1>1, GivenConcat
  <1>5. Given(Flushed) = Given(block) \cup Given(bindings)
    BY <1>1, GivenConcat DEF Flushed
  <1>6. Settled' = Settled \cup Given(t)
    BY <1>2, <1>3, <1>4 DEF Settled
  <1>7. \A op : Declares(inits, op) \subseteq Declares(inits', op)
    BY <1>1, DeclaresConcat
  <1>8. BodyReads(Flushed, inits', Exported)
    BY <1>1, <1>7, BodyReadsMonotone DEF IInv, ReadsSettled, PhaseSettled
  <1>9. BodyReads(Flushed \o t, inits', Exported)
    BY <1>1, <1>8, BodyReadsConcat
  <1> QED
    BY <1>2, <1>3, <1>4, <1>5, <1>6, <1>7, <1>9

(* store keeps the invariant.                                              *)
LEMMA StoreKeeps ==
    ASSUME IInv, TypeOK', NEW i \in DOMAIN child.vals, NEW k \in Idx,
           NEW op \in {"store", "atomic"}, Store(i, k, op)
    PROVE  IInv'
  <1> DEFINE v == child.vals[i]
             t == StoreStmts(op, child.out, k, v)
  <1>1. UNCHANGED <<hasRed, enabled, notReady, active, opened, outer, inits, fins, fwdRed>>
        /\ child.mode \in {"body", "scanned"} /\ child' = Idle
        /\ block' = Flushed \o t /\ bindings' = <<>>
        /\ fwd' = ForwardedBy(child.out, k, v)
    BY DEF Store, builder
  <1>2. child.out \in Outputs /\ child.out \in Buf /\ v \in Var /\ <<>> \in Seq(Stmt)
        /\ inits \in Seq(Stmt)
    BY <1>1, EmptySeq, SMTT(60) DEF IInv, TypeOK, ChildOK, Buf
  <1>3. v \in Settled
    BY <1>1 DEF IInv, ChildHolds
  <1>4. t \in Seq(Stmt)
    BY <1>2, StatementTypes
  <1>5. BodyReads(t, inits, Exported \cup Given(Flushed))
    <2>1. CASE t = <<>>
      BY <2>1 DEF BodyReads
    <2>2. CASE t = <<StoreTo(op, child.out, k, v)>>
      BY <1>3, <2>2 DEF BodyReads, StoreTo, ArgsOf, Settled
    <2> QED
      BY <2>1, <2>2 DEF StoreStmts
  <1>6. inits' = inits \o <<>>
    BY <1>1, <1>2, ConcatEmptySeq
  <1> HIDE DEF v, t
  <1>7. /\ Exported' = Exported
        /\ Flushed' = block' /\ Given(block') = Given(Flushed) \cup Given(t)
        /\ Given(block) \subseteq Given(block')
        /\ BodyReads(Flushed', inits', Exported')
    BY <1>1, <1>2, <1>4, <1>5, <1>6, ExtendKeeps
  <1>8. ReadsSettled' /\ PhaseFollowsSchedule'
    BY <1>1, <1>7 DEF IInv, ReadsSettled, PhaseSettled, PhaseFollowsSchedule, InLoop
  <1>9. ForwardedHolds'
    <2> SUFFICES ASSUME NEW key \in Key, fwd'[key] # None
                 PROVE  fwd'[key] \in Exported \cup Given(block')
      BY <1>7 DEF ForwardedHolds
    <2>1. fwd'[key] = fwd[key] \/ fwd'[key] = v
      BY <1>1 DEF ForwardedBy, IInv, TypeOK
    <2> QED
      BY <1>3, <1>7, <2>1 DEF IInv, ForwardedHolds, Settled
  <1>10. ChildHolds' /\ ReductionHolds'
    BY <1>1, <1>7 DEF IInv, ChildHolds, ReductionHolds, Idle
  <1>11. EmptyUntilOpened'
    BY <1>1 DEF IInv, EmptyUntilOpened
  <1> QED
    BY <1>8, <1>9, <1>10, <1>11 DEF IInv

(* reduction keeps the invariant.                                          *)
LEMMA ReductionKeeps ==
    ASSUME IInv, TypeOK', NEW i \in DOMAIN child.vals, Reduction(i)
    PROVE  IInv'
  <1> DEFINE acc == <<"acc", count.acc>>
             ini == Local("init", acc, <<>>)
             x == Local("update", acc, <<child.vals[i]>>)
  <1>1. UNCHANGED <<hasRed, enabled, notReady, active, opened, outer, fins, fwd, fwdRed>>
        /\ child.mode = "body" /\ InLoop
        /\ child' = [child EXCEPT !.vals = <<acc>>, !.mode = "reduced"]
        /\ block' = Append(Flushed, x) /\ bindings' = <<>>
        /\ inits' = Append(inits, ini)
    BY DEF Reduction, schedule, builder
  <1>2. acc \in Var /\ child.vals[i] \in Var
        /\ child \in [out: Outputs \cup {None}, vals: Seq(Var), ops: Nat,
                       mode: {"idle", "body", "scanned", "reduced"}]
    <2>1. count.acc \in Nat
      BY DEF IInv, TypeOK
    <2>2. acc \in Var
      BY <2>1 DEF Var
    <2>3. ChildOK
      BY DEF IInv, TypeOK
    <2> HIDE DEF acc, ini, x
    <2>4. /\ child \in [out: Outputs \cup {None}, vals: Seq(Var), ops: Nat,
                        mode: {"idle", "body", "scanned", "reduced"}]
          /\ child.vals \in Seq(Var)
      BY <2>3 DEF ChildOK
    <2> QED
      BY <2>2, <2>4
  <1> HIDE DEF acc
  <1>3. /\ ini \in Stmt /\ ini.op = "init" /\ ini.dst = acc /\ ini.args = <<>>
        /\ x \in Stmt /\ x.op = "update" /\ x.dst = acc /\ x.args = <<child.vals[i]>>
    <2>1. <<>> \in Seq(Var) /\ <<child.vals[i]>> \in Seq(Var)
      BY <1>2
    <2> QED
      BY <1>2, <2>1, StatementTypes DEF Op, Local
  <1> HIDE DEF ini, x
  <1>4. /\ inits \in Seq(Stmt) /\ Flushed \in Seq(Stmt)
        /\ <<ini>> \in Seq(Stmt) /\ <<x>> \in Seq(Stmt)
    BY <1>3, ConcatProperties DEF IInv, TypeOK, Flushed
  <1>5. inits' = inits \o <<ini>> /\ block' = Flushed \o <<x>>
    BY <1>1, <1>3, <1>4, AppendIsConcat
  <1>6. acc \in Declares(inits', "init")
    BY <1>1, <1>3, <1>4, AppendGiven
  <1>7. child.vals[i] \in Settled
    BY <1>1 DEF IInv, ChildHolds
  <1>8. BodyReads(<<x>>, inits', Exported \cup Given(Flushed))
    BY <1>3, <1>6, <1>7 DEF BodyReads, ArgsOf, Settled
  <1>9. /\ Exported' = Exported
        /\ Flushed' = block'
        /\ Given(block) \subseteq Given(block')
        /\ Declares(inits, "init") \subseteq Declares(inits', "init")
        /\ BodyReads(Flushed', inits', Exported')
    BY <1>1, <1>4, <1>5, <1>8, ExtendKeeps
  <1>10. ReadsSettled'
    <2>1. FinReads(fins', inits', Exported')
      BY <1>1, <1>9 DEF IInv, ReadsSettled, PhaseSettled, FinReads
    <2> QED
      BY <1>1, <1>9, <2>1 DEF IInv, ReadsSettled, PhaseSettled
  <1>11. PhaseFollowsSchedule'
    BY <1>1 DEF IInv, PhaseFollowsSchedule, InLoop
  <1>12. ChildHolds'
    <2>1. child'.mode = "reduced" /\ child'.vals[1] = acc
      BY <1>1, <1>2
    <2> QED
      BY <1>6, <2>1 DEF ChildHolds
  <1>13. ForwardedHolds' /\ ReductionHolds'
    BY <1>1, <1>9 DEF IInv, ForwardedHolds, ReductionHolds
  <1>14. EmptyUntilOpened'
    BY <1>1 DEF IInv, EmptyUntilOpened
  <1> QED
    BY <1>10, <1>11, <1>12, <1>13, <1>14 DEF IInv

(* store_reduction keeps the invariant.                                    *)
LEMMA StoreReductionKeeps ==
    ASSUME IInv, TypeOK', NEW k \in RowIdx, StoreReduction(k)
    PROVE  IInv'
  <1> DEFINE acc == child.vals[1]
             t == StoreStmts("store", child.out, k, acc)
  <1>1. UNCHANGED <<hasRed, enabled, active, opened, outer, inits, fwd>>
        /\ child.mode = "reduced" /\ child' = Idle
        /\ block' = Flushed /\ bindings' = <<>>
        /\ fins' = fins \o t
        /\ fwdRed' = ReductionForwardedBy(child.out, k, acc)
        /\ notReady' = notReady \cup {child.out}
    BY DEF StoreReduction, builder
  <1>2. /\ child.out \in Outputs /\ child.out \in Buf /\ k \in Idx
        /\ acc \in Var
        /\ acc \in Declares(inits, "init")
        /\ inits \in Seq(Stmt) /\ fins \in Seq(Stmt) /\ Flushed \in Seq(Stmt)
    <2>1. acc \in Var
      BY <1>1, ElementOfSeq DEF IInv, TypeOK, ChildOK
    <2> QED
      BY <1>1, <2>1, ConcatProperties DEF IInv, TypeOK, ChildOK, ChildHolds, Buf, Idx, Flushed
  <1>3. t \in Seq(Stmt)
    BY <1>2, StatementTypes
  <1>4. inits' = inits \o <<>> /\ block' = Flushed \o <<>> /\ <<>> \in Seq(Stmt)
    BY <1>1, <1>2, ConcatEmptySeq, EmptySeq
  <1>5. BodyReads(<<>>, inits', Exported \cup Given(Flushed))
    BY DEF BodyReads
  <1>6. /\ Exported' = Exported
        /\ Flushed' = block'
        /\ Given(block) \subseteq Given(block')
        /\ BodyReads(Flushed', inits', Exported')
    BY <1>1, <1>4, <1>5, ExtendKeeps
  <1>7. FinReads(t, inits, Exported)
    <2>1. CASE t = <<>>
      BY <2>1 DEF FinReads
    <2>2. CASE t = <<StoreTo("store", child.out, k, acc)>>
      BY <1>2, <2>2 DEF FinReads, StoreTo, ArgsOf
    <2> QED
      BY <2>1, <2>2 DEF StoreStmts
  <1> HIDE DEF t, acc
  <1>8. FinReads(fins \o t, inits, Exported)
    <2>1. FinReads(fins, inits, Exported)
      BY DEF IInv, ReadsSettled, PhaseSettled
    <2>2. \A n \in DOMAIN (fins \o t) :
             \/ n \in DOMAIN fins /\ (fins \o t)[n] = fins[n]
             \/ n - Len(fins) \in DOMAIN t /\ (fins \o t)[n] = t[n - Len(fins)]
      BY <1>2, <1>3, ConcatElements
    <2> QED
      BY <1>7, <2>1, <2>2 DEF FinReads
  <1>9. ReadsSettled'
    BY <1>1, <1>6, <1>8 DEF IInv, ReadsSettled, PhaseSettled
  <1>10. PhaseFollowsSchedule'
    <2>1. active
      BY <1>2 DEF IInv, PhaseFollowsSchedule, Declares
    <2> QED
      BY <1>1, <2>1 DEF IInv, PhaseFollowsSchedule, InLoop
  <1>11. ChildHolds' /\ ForwardedHolds'
    BY <1>1, <1>6 DEF IInv, ChildHolds, ForwardedHolds, Idle
  <1>12. ReductionHolds'
    <2> SUFFICES ASSUME NEW key \in Key, fwdRed'[key] # None
                 PROVE  /\ key[1] \in Outputs /\ key[2] \in RowIdx
                        /\ \/ fwdRed'[key] \in Exported
                           \/ key[1] \in notReady' /\ fwdRed'[key] \in Declares(inits', "init")
      BY <1>6 DEF ReductionHolds
    <2>1. CASE key = <<child.out, k>>
      BY <1>1, <1>2, <2>1 DEF ReductionForwardedBy, IInv, TypeOK, Key
    <2>2. CASE key # <<child.out, k>>
      BY <1>1, <2>2 DEF ReductionForwardedBy, IInv, TypeOK, ReductionHolds
    <2> QED
      BY <2>1, <2>2
  <1>13. EmptyUntilOpened'
    BY <1>1 DEF IInv, EmptyUntilOpened
  <1> QED
    BY <1>9, <1>10, <1>11, <1>12, <1>13 DEF IInv

(* The fields of a statement about locals.                                 *)
LEMMA LocalFields ==
    ASSUME NEW op, NEW dst, NEW args
    PROVE  /\ Local(op, dst, args).op = op
           /\ Local(op, dst, args).dst = dst
           /\ Local(op, dst, args).args = args
  BY DEF Local

(* A scan reads its own states only in its combines, selects from what     *)
(* they compute, and assigns what was selected.                            *)
LEMMA ScanReads ==
    ASSUME TypeOK, NEW values \in Seq(Var), values # <<>>, NEW ini, NEW base,
           \A j \in DOMAIN values : values[j] \in base,
           Declares(ScanUpdate(values).inits, "uninit") \subseteq Declares(ini, "uninit")
    PROVE  /\ ScanStmts(ScanUpdate(values)) \in Seq(Stmt)
           /\ BodyReads(ScanStmts(ScanUpdate(values)), ini, base)
           /\ \A j \in 1..Len(values) :
                 ScanUpdate(values).states[j] \in Given(ScanStmts(ScanUpdate(values)))
  <1> DEFINE n == Len(values)
             u == ScanUpdate(values)
             state(j) == <<"scan", count.scan + j - 1>>
             next(j) == <<"next", count.scan + j - 1>>
             temp(j) == <<"tmp", count.tmp + j - 1>>
             states == [j \in 1..n |-> state(j)]
  <1>1. n \in Nat /\ DOMAIN values = 1..n /\ values \in [1..n -> Var]
    BY LenProperties
  <1>2. /\ u.inits \in Seq(Stmt) /\ Len(u.inits) = n
        /\ u.combines \in Seq(Stmt) /\ Len(u.combines) = n
        /\ u.picks \in Seq(Stmt) /\ Len(u.picks) = n
        /\ u.moves \in Seq(Stmt) /\ Len(u.moves) = n
        /\ states \in Seq(Var) /\ Len(states) = n
    <2>1. u.states = states
      BY DEF ScanUpdate
    <2> HIDE DEF u, states
    <2> QED
      BY <1>1, <2>1, ScanUpdateType, FunctionIsSeq DEF u
  <1>3. \A j \in 1..n :
          /\ u.states[j] = state(j)
          /\ u.inits[j] = Local("uninit", state(j), <<>>)
          /\ u.combines[j] = Local("combine", temp(j),
                                   <<state(j), values[j]>> \o states \o values)
          /\ u.picks[j] = Local("pick", next(j), <<values[j], temp(j)>>)
          /\ u.moves[j] = Local("move", state(j), <<next(j)>>)
    BY DEF ScanUpdate
  <1> HIDE DEF u, n, state, next, temp, states
  <1>f. /\ \A j \in 1..n : u.inits[j].op = "uninit" /\ u.inits[j].dst = state(j)
        /\ \A j \in 1..n : u.combines[j].op = "combine" /\ u.combines[j].dst = temp(j)
                           /\ u.combines[j].args = <<state(j), values[j]>> \o states \o values
        /\ \A j \in 1..n : u.picks[j].op = "pick" /\ u.picks[j].dst = next(j)
                           /\ u.picks[j].args = <<values[j], temp(j)>>
        /\ \A j \in 1..n : u.moves[j].op = "move" /\ u.moves[j].dst = state(j)
                           /\ u.moves[j].args = <<next(j)>>
    <2> SUFFICES ASSUME NEW j \in 1..n
                 PROVE  /\ u.inits[j].op = "uninit" /\ u.inits[j].dst = state(j)
                        /\ u.combines[j].op = "combine" /\ u.combines[j].dst = temp(j)
                        /\ u.combines[j].args = <<state(j), values[j]>> \o states \o values
                        /\ u.picks[j].op = "pick" /\ u.picks[j].dst = next(j)
                        /\ u.picks[j].args = <<values[j], temp(j)>>
                        /\ u.moves[j].op = "move" /\ u.moves[j].dst = state(j)
                        /\ u.moves[j].args = <<next(j)>>
      OBVIOUS
    <2>1. u.inits[j] = Local("uninit", state(j), <<>>)
      BY <1>3
    <2> DEFINE cargs == <<state(j), values[j]>> \o states \o values
    <2>2. u.combines[j] = Local("combine", temp(j), cargs)
      BY <1>3
    <2> HIDE DEF cargs
    <2>3. u.picks[j] = Local("pick", next(j), <<values[j], temp(j)>>)
      BY <1>3
    <2>4. u.moves[j] = Local("move", state(j), <<next(j)>>)
      BY <1>3
    <2>5. u.inits[j].op = "uninit" /\ u.inits[j].dst = state(j)
      BY <2>1, LocalFields
    <2>6. u.picks[j].op = "pick" /\ u.picks[j].dst = next(j)
          /\ u.picks[j].args = <<values[j], temp(j)>>
      BY <2>3, LocalFields
    <2>7. u.moves[j].op = "move" /\ u.moves[j].dst = state(j)
          /\ u.moves[j].args = <<next(j)>>
      BY <2>4, LocalFields
    <2>8. u.combines[j].op = "combine" /\ u.combines[j].dst = temp(j)
          /\ u.combines[j].args = cargs
      BY <2>2, LocalFields
    <2> QED
      BY <2>5, <2>6, <2>7, <2>8 DEF cargs
  <1>4. \A j \in 1..n : state(j) \in Declares(ini, "uninit")
    <2>1. \A j \in 1..n : u.inits[j].op = "uninit" /\ u.inits[j].dst = state(j)
      BY <1>f
    <2>2. DOMAIN u.inits = 1..n
      BY <1>2
    <2> QED
      BY <2>1, <2>2 DEF Declares, u
  <1>5. \A j \in 1..n : ArgsOf(u.combines[j]) \subseteq base \cup Declares(ini, "uninit")
    <2> SUFFICES ASSUME NEW j \in 1..n
                 PROVE  ArgsOf(u.combines[j]) \subseteq base \cup Declares(ini, "uninit")
      OBVIOUS
    <2> DEFINE args == <<state(j), values[j]>> \o states \o values
               S == base \cup Declares(ini, "uninit")
    <2>1. state(j) \in S /\ values[j] \in S
      BY <1>1, <1>4
    <2>2. states \in Seq(S)
      <3>1. states \in [1..n -> S]
        BY <1>4 DEF states
      <3> HIDE DEF S
      <3> QED
        BY <1>1, <3>1, FunctionIsSeq
    <2>3. values \in Seq(S)
      <3>1. values \in [1..n -> S]
        BY <1>1
      <3> HIDE DEF S
      <3> QED
        BY <1>1, <3>1, FunctionIsSeq
    <2> HIDE DEF S
    <2>4. <<state(j), values[j]>> \in Seq(S)
      BY <2>1
    <2>5. args \in Seq(S)
      <3>1. <<state(j), values[j]>> \o states \in Seq(S)
        BY <2>2, <2>4, ConcatProperties
      <3> QED
        BY <2>3, <3>1, ConcatProperties
    <2>6. u.combines[j].args = args
      BY <1>f
    <2> HIDE DEF args
    <2>7. \A a \in DOMAIN args : args[a] \in S
      BY <2>5
    <2> QED
      BY <2>6, <2>7 DEF ArgsOf, S
  <1>6. /\ BodyReads(u.combines, ini, base)
        /\ \A j \in 1..n : temp(j) \in Given(u.combines)
    <2>1. \A j \in 1..n : u.combines[j].op = "combine" /\ u.combines[j].dst = temp(j)
      BY <1>f
    <2>2. DOMAIN u.combines = 1..n
      BY <1>2
    <2>3. BodyReads(u.combines, ini, base)
      BY <1>5, <2>1, <2>2 DEF BodyReads
    <2>4. \A j \in 1..n : temp(j) \in Given(u.combines)
      BY <2>1, <2>2 DEF Given, Gives
    <2> QED
      BY <2>3, <2>4
  <1>7. /\ BodyReads(u.picks, ini, base \cup Given(u.combines))
        /\ \A j \in 1..n : next(j) \in Given(u.picks)
    <2>1. \A j \in 1..n : /\ u.picks[j].op = "pick" /\ u.picks[j].dst = next(j)
                          /\ u.picks[j].args = <<values[j], temp(j)>>
      BY <1>f
    <2>2. DOMAIN u.picks = 1..n
      BY <1>2
    <2>3. \A j \in 1..n : ArgsOf(u.picks[j]) \subseteq base \cup Given(u.combines)
      BY <1>1, <1>6, <2>1 DEF ArgsOf
    <2>4. BodyReads(u.picks, ini, base \cup Given(u.combines))
      BY <2>1, <2>2, <2>3 DEF BodyReads
    <2>5. \A j \in 1..n : next(j) \in Given(u.picks)
      BY <2>1, <2>2 DEF Given, Gives
    <2> QED
      BY <2>4, <2>5
  <1>8. /\ BodyReads(u.moves, ini, base \cup Given(u.picks))
        /\ \A j \in 1..n : state(j) \in Given(u.moves)
    <2>1. \A j \in 1..n : /\ u.moves[j].op = "move" /\ u.moves[j].dst = state(j)
                          /\ u.moves[j].args = <<next(j)>>
      BY <1>f
    <2>2. DOMAIN u.moves = 1..n
      BY <1>2
    <2>3. \A j \in 1..n : ArgsOf(u.moves[j]) \subseteq base \cup Given(u.picks)
      BY <1>7, <2>1 DEF ArgsOf
    <2>4. BodyReads(u.moves, ini, base \cup Given(u.picks))
      BY <1>4, <2>1, <2>2, <2>3 DEF BodyReads
    <2>5. \A j \in 1..n : state(j) \in Given(u.moves)
      BY <2>1, <2>2 DEF Given, Gives
    <2> QED
      BY <2>4, <2>5
  <1>9. /\ u.combines \o u.picks \in Seq(Stmt)
        /\ Given(u.combines \o u.picks) = Given(u.combines) \cup Given(u.picks)
        /\ BodyReads(u.combines \o u.picks, ini, base)
    BY <1>2, <1>6, <1>7, ConcatProperties, GivenConcat, BodyReadsConcat
  <1>10. BodyReads(u.moves, ini, base \cup Given(u.combines \o u.picks))
    BY <1>2, <1>8, <1>9, BodyReadsMonotone
  <1>11. /\ ScanStmts(u) \in Seq(Stmt)
         /\ Given(u.moves) \subseteq Given(ScanStmts(u))
         /\ BodyReads(ScanStmts(u), ini, base)
    <2>1. ScanStmts(u) = (u.combines \o u.picks) \o u.moves
      BY DEF ScanStmts
    <2> DEFINE cp == u.combines \o u.picks
    <2>2. cp \in Seq(Stmt)
      BY <1>9
    <2> HIDE DEF cp
    <2>3. /\ cp \o u.moves \in Seq(Stmt)
          /\ Given(cp \o u.moves) = Given(cp) \cup Given(u.moves)
      BY <1>2, <2>2, ConcatProperties, GivenConcat
    <2>4. BodyReads(cp \o u.moves, ini, base)
      BY <1>2, <1>9, <1>10, <2>2, BodyReadsConcat DEF cp
    <2> QED
      BY <2>1, <2>3, <2>4 DEF cp
  <1> QED
    BY <1>3, <1>8, <1>11 DEF u, n

(* scan keeps the invariant.                                               *)
LEMMA ScanKeeps ==
    ASSUME IInv, TypeOK', NEW is \in Positions(MaxStates), is # <<>>, Scan(is)
    PROVE  IInv'
  <1> DEFINE values == Operands(is)
             u == ScanUpdate(values)
             t == ScanStmts(u)
  <1>1. UNCHANGED <<hasRed, enabled, notReady, active, opened, outer, fins, fwd, fwdRed>>
        /\ child.mode = "body" /\ InLoop
        /\ child' = [child EXCEPT !.vals = @ \o u.states, !.mode = "scanned"]
        /\ block' = Flushed \o t /\ bindings' = <<>>
        /\ inits' = inits \o u.inits
    BY DEF Scan, schedule, builder
  <1>2. values \in Seq(Var) /\ values # <<>>
        /\ \A j \in DOMAIN values : values[j] \in Settled
    <2>1. values \in Seq(Var) /\ Len(values) = Len(is) /\ is # <<>>
      BY OperandsType, BoundsAssumption DEF IInv
    <2>2. PICK m \in 0..MaxStates : is \in [1..m -> DOMAIN child.vals]
      BY DEF Positions
    <2>3. \A j \in DOMAIN is : is[j] \in DOMAIN child.vals
      BY <2>2
    <2>4. \A j \in DOMAIN values : values[j] \in Settled
      BY <1>1, <2>3 DEF Operands, IInv, ChildHolds
    <2>5. Len(is) # 0
      BY <2>2, FunctionIsSeq, BoundsAssumption
    <2> QED
      BY <2>1, <2>4, <2>5
  <1> HIDE DEF values
  <1>3. u.inits \in Seq(Stmt) /\ u.states \in Seq(Var) /\ Len(u.states) = Len(values)
        /\ inits \in Seq(Stmt) /\ Flushed \in Seq(Stmt)
    <2>1. Len(values) \in Nat /\ TypeOK
      BY <1>2 DEF IInv
    <2>2. u.inits \in [1..Len(values) -> Stmt] /\ u.states \in [1..Len(values) -> Var]
      BY <1>2, <2>1, ScanUpdateType
    <2> HIDE DEF u
    <2> QED
      BY <2>1, <2>2, FunctionIsSeq, ConcatProperties DEF TypeOK, Flushed
  <1>4. Declares(u.inits, "uninit") \subseteq Declares(inits', "uninit")
    BY <1>1, <1>3, DeclaresConcat
  <1>5. /\ t \in Seq(Stmt)
        /\ BodyReads(t, inits', Exported \cup Given(Flushed))
        /\ \A j \in 1..Len(values) : u.states[j] \in Given(t)
    BY <1>2, <1>4, ScanReads DEF IInv, Settled
  <1> HIDE DEF t, u
  <1>6. /\ Exported' = Exported
        /\ Flushed' = block'
        /\ Given(block) \subseteq Given(block')
        /\ Settled' = Settled \cup Given(t)
        /\ Declares(inits, "init") \subseteq Declares(inits', "init")
        /\ BodyReads(Flushed', inits', Exported')
    BY <1>1, <1>3, <1>5, ExtendKeeps
  <1>7. ReadsSettled'
    <2>1. FinReads(fins', inits', Exported')
      BY <1>1, <1>6 DEF IInv, ReadsSettled, PhaseSettled, FinReads
    <2> QED
      BY <1>1, <1>6, <2>1 DEF IInv, ReadsSettled, PhaseSettled
  <1>8. PhaseFollowsSchedule'
    BY <1>1 DEF IInv, PhaseFollowsSchedule, InLoop
  <1>9. ChildHolds'
    <2>1. child \in [out: Outputs \cup {None}, vals: Seq(Var), ops: Nat,
                     mode: {"idle", "body", "scanned", "reduced"}]
      BY DEF IInv, TypeOK, ChildOK
    <2>2. child'.mode = "scanned" /\ child'.vals = child.vals \o u.states
      BY <1>1, <2>1
    <2>3. \A i \in DOMAIN child'.vals :
            \/ i \in DOMAIN child.vals /\ child'.vals[i] = child.vals[i]
            \/ i - Len(child.vals) \in 1..Len(values)
               /\ child'.vals[i] = u.states[i - Len(child.vals)]
      BY <1>3, <2>1, <2>2, ConcatProperties, LenProperties
    <2>4. \A i \in DOMAIN child.vals : child.vals[i] \in Settled
      BY <1>1 DEF IInv, ChildHolds
    <2> QED
      BY <1>5, <1>6, <2>2, <2>3, <2>4 DEF ChildHolds
  <1>10. ForwardedHolds' /\ ReductionHolds'
    BY <1>1, <1>6 DEF IInv, ForwardedHolds, ReductionHolds
  <1>11. EmptyUntilOpened'
    BY <1>1 DEF IInv, EmptyUntilOpened
  <1> QED
    BY <1>7, <1>8, <1>9, <1>10, <1>11 DEF IInv

(* A marker closes the open phase, if it has a child, and opens the next.  *)
LEMMA MarkerKeeps ==
    ASSUME IInv, TypeOK', Marker, NextPhase(enabled'), enabled' \in BOOLEAN
    PROVE  IInv'
  <1>1. UNCHANGED <<hasRed, child, fwdRed>> /\ child = Idle /\ hasRed /\ notReady' = {}
    BY DEF Marker
  <1>2. active' = enabled'
    BY DEF NextPhase
  <1>3. /\ block' = <<>> /\ bindings' = <<>> /\ inits' = <<>> /\ fins' = <<>>
        /\ \A key \in Key : fwd'[key] = None
        /\ opened' = FALSE
    <2>1. CASE opened
      BY <2>1 DEF NextPhase, EntersNewPhase, ForwardedAtPhaseStart
    <2>2. CASE ~opened
      BY <2>2 DEF NextPhase, EntersNewPhase, phase, IInv, EmptyUntilOpened
    <2> QED
      BY <2>1, <2>2
  <1>4. /\ SectionsSettled(outer')
        /\ Exported \subseteq Exported'
        /\ Declares(inits, "init") \cap Var \subseteq Exported'
    <2>1. CASE opened
      <3>1. outer' = Append(outer, PhaseSection)
        BY <2>1 DEF NextPhase, EntersNewPhase
      <3>2. /\ Exported' = Exported \cup (Exports(PhaseSection) \cap Var)
            /\ SectionsSettled(outer')
            /\ active => Exports(PhaseSection) = Declares(inits, "init")
        BY <3>1, PhaseClosed DEF IInv
      <3>3. ~active => Declares(inits, "init") = {}
        BY DEF IInv, PhaseFollowsSchedule, Declares
      <3> QED
        BY <3>2, <3>3
    <2>2. CASE ~opened
      <3>1. outer' = outer /\ Exported' = Exported
        BY <2>2 DEF NextPhase, EntersNewPhase, Exported
      <3>2. Declares(inits, "init") = {}
        BY <2>2 DEF IInv, EmptyUntilOpened, Declares
      <3> QED
        BY <3>1, <3>2 DEF IInv, ReadsSettled
    <2> QED
      BY <2>1, <2>2
  <1>5. Flushed' = <<>>
    BY <1>3, ConcatEmptySeq, EmptySeq DEF Flushed
  <1>6. ReadsSettled'
    BY <1>3, <1>4, <1>5 DEF ReadsSettled, PhaseSettled, BodyReads, FinReads
  <1>7. PhaseFollowsSchedule'
    BY <1>1, <1>2, <1>3 DEF PhaseFollowsSchedule, InLoop
  <1>8. ChildHolds' /\ EmptyUntilOpened' /\ ForwardedHolds'
    BY <1>1, <1>3 DEF ChildHolds, EmptyUntilOpened, ForwardedHolds, Idle
  <1>9. ReductionHolds'
    <2> SUFFICES ASSUME NEW key \in Key, fwdRed[key] # None
                 PROVE  /\ key[1] \in Outputs /\ key[2] \in RowIdx
                        /\ fwdRed[key] \in Exported'
      BY <1>1 DEF ReductionHolds
    <2>1. fwdRed[key] \in Var
      BY DEF IInv, TypeOK
    <2> QED
      BY <1>4, <2>1 DEF IInv, ReductionHolds
  <1> QED
    BY <1>6, <1>7, <1>8, <1>9 DEF IInv

(* Starting a child opens the phase.                                       *)
LEMMA StartChildKeeps ==
    ASSUME IInv, TypeOK', NEW o \in Outputs, StartChild(o)
    PROVE  IInv'
  <1>1. UNCHANGED <<schedule, active, outer, status, handler>> /\ opened' = TRUE
        /\ child' = [out |-> o, vals |-> <<>>, ops |-> 0, mode |-> "body"]
    BY DEF StartChild, Idle
  <1>2. UNCHANGED <<outer, block, bindings, inits, fins, fwd, fwdRed, notReady, hasRed,
                    enabled, active>>
    BY <1>1 DEF schedule, handler, phase
  <1>3. Exported' = Exported /\ Flushed' = Flushed
    BY <1>2 DEF Exported, Flushed
  <1>4. ReadsSettled' /\ PhaseFollowsSchedule'
    BY <1>2, <1>3 DEF IInv, ReadsSettled, PhaseSettled, PhaseFollowsSchedule, InLoop
  <1>5. ChildHolds'
    BY <1>1 DEF ChildHolds
  <1>6. ForwardedHolds' /\ ReductionHolds' /\ EmptyUntilOpened'
    BY <1>1, <1>2, <1>3 DEF IInv, ForwardedHolds, ReductionHolds, EmptyUntilOpened
  <1> QED
    BY <1>4, <1>5, <1>6 DEF IInv

(* The last phase is appended; nothing is emitted after it.                *)
LEMMA FinishKeeps ==
    ASSUME IInv, TypeOK', Finish
    PROVE  IInv'
  <1>1. UNCHANGED <<schedule, child, active, opened, handler>> /\ child = Idle
        /\ outer' = IF opened THEN Append(outer, PhaseSection) ELSE outer
    BY DEF Finish
  <1>2. UNCHANGED <<block, bindings, inits, fins, fwd, fwdRed, notReady, hasRed, enabled,
                    active, opened, child>>
    BY <1>1 DEF schedule, handler, phase
  <1>3. SectionsSettled(outer') /\ Exported \subseteq Exported'
    <2>1. CASE opened
      BY <1>1, <2>1, PhaseClosed DEF IInv
    <2>2. CASE ~opened
      BY <1>1, <2>2 DEF IInv, ReadsSettled, Exported
    <2> QED
      BY <2>1, <2>2
  <1>4. Flushed' = Flushed /\ Flushed \in Seq(Stmt)
    BY <1>2, ConcatProperties DEF Flushed, IInv, TypeOK
  <1>5. BodyReads(Flushed', inits', Exported')
    BY <1>2, <1>3, <1>4, BodyReadsMonotone DEF IInv, ReadsSettled, PhaseSettled
  <1>6. FinReads(fins', inits', Exported')
    BY <1>2, <1>3 DEF IInv, ReadsSettled, PhaseSettled, FinReads
  <1>7. ReadsSettled' /\ PhaseFollowsSchedule'
    BY <1>2, <1>3, <1>5, <1>6 DEF IInv, ReadsSettled, PhaseSettled, PhaseFollowsSchedule, InLoop
  <1>8. ChildHolds' /\ ForwardedHolds' /\ ReductionHolds' /\ EmptyUntilOpened'
    BY <1>1, <1>2, <1>3 DEF IInv, ChildHolds, ForwardedHolds, ReductionHolds,
                            EmptyUntilOpened, Idle
  <1> QED
    BY <1>7, <1>8 DEF IInv

(* reduction raises after it has begun: what it leaves behind is settled.  *)
LEMMA RaiseInReductionKeeps ==
    ASSUME IInv, TypeOK', NEW i \in DOMAIN child.vals, RaiseInReduction(i)
    PROVE  IInv'
  <1> DEFINE ini == Local("init", <<"acc", count.acc>>, <<>>)
  <1>1. UNCHANGED <<hasRed, enabled, notReady, active, opened, outer, fins, fwd, fwdRed>>
        /\ child' = Idle /\ child.mode = "body" /\ InLoop
        /\ block' = Flushed /\ bindings' = <<>>
        /\ inits' = Append(inits, ini)
    BY DEF RaiseInReduction, Fails, schedule
  <1>2. ini \in Stmt
    <2>1. <<"acc", count.acc>> \in Var
      BY DEF IInv, TypeOK, Var
    <2> QED
      BY <2>1, EmptySeq, StatementTypes DEF Op
  <1> HIDE DEF ini
  <1>3. /\ inits \in Seq(Stmt) /\ Flushed \in Seq(Stmt)
        /\ <<ini>> \in Seq(Stmt) /\ <<>> \in Seq(Stmt)
    BY <1>2, EmptySeq, ConcatProperties DEF IInv, TypeOK, Flushed
  <1>4. inits' = inits \o <<ini>> /\ block' = Flushed \o <<>>
    BY <1>1, <1>2, <1>3, AppendIsConcat, ConcatEmptySeq
  <1>5. BodyReads(<<>>, inits', Exported \cup Given(Flushed))
    BY EmptySeq DEF BodyReads
  <1>6. /\ Exported' = Exported
        /\ Given(block) \subseteq Given(block')
        /\ Declares(inits, "init") \subseteq Declares(inits', "init")
        /\ BodyReads(Flushed', inits', Exported')
    BY <1>1, <1>3, <1>4, <1>5, ExtendKeeps
  <1>7. ReadsSettled'
    <2>1. FinReads(fins', inits', Exported')
      BY <1>1, <1>6 DEF IInv, ReadsSettled, PhaseSettled, FinReads
    <2> QED
      BY <1>1, <1>6, <2>1 DEF IInv, ReadsSettled, PhaseSettled
  <1>8. PhaseFollowsSchedule'
    BY <1>1 DEF IInv, PhaseFollowsSchedule, InLoop
  <1>9. ChildHolds' /\ ForwardedHolds' /\ ReductionHolds' /\ EmptyUntilOpened'
    BY <1>1, <1>6 DEF IInv, ChildHolds, ForwardedHolds, ReductionHolds,
                            EmptyUntilOpened, Idle
  <1> QED
    BY <1>7, <1>8, <1>9 DEF IInv

(* Raising before anything has changed, and doing nothing.                 *)
LEMMA QuietKeeps ==
    ASSUME IInv, TypeOK', Raise \/ UNCHANGED vars
    PROVE  IInv'
  <1>1. UNCHANGED <<block, bindings, inits, fins, fwd, fwdRed, notReady, hasRed, enabled,
                    active, opened, outer>>
        /\ (child' = Idle \/ child' = child)
    BY DEF Raise, Fails, vars, schedule, builder, handler, phase
  <1>2. Exported' = Exported /\ Flushed' = Flushed /\ Settled' = Settled
    BY <1>1 DEF Exported, Flushed, Settled
  <1>3. ReadsSettled' /\ PhaseFollowsSchedule'
    BY <1>1, <1>2 DEF IInv, ReadsSettled, PhaseSettled, PhaseFollowsSchedule, InLoop
  <1>4. ChildHolds' /\ ForwardedHolds' /\ ReductionHolds' /\ EmptyUntilOpened'
    BY <1>1, <1>2 DEF IInv, ChildHolds, ForwardedHolds, ReductionHolds,
                            EmptyUntilOpened, Idle
  <1> QED
    BY <1>3, <1>4 DEF IInv

(* The invariant holds at first.                                           *)
LEMMA InitInv == Init => IInv
  <1> SUFFICES ASSUME Init PROVE IInv
    OBVIOUS
  <1>1. /\ outer = <<>> /\ block = <<>> /\ bindings = <<>> /\ inits = <<>> /\ fins = <<>>
        /\ child = Idle /\ active = hasRed /\ enabled = TRUE
        /\ \A key \in Key : fwd[key] = None /\ fwdRed[key] = None
    BY DEF Init
  <1>2. TypeOK
    BY TypeInit
  <1>3. Flushed = <<>>
    BY <1>1, ConcatEmptySeq, EmptySeq DEF Flushed
  <1>4. ReadsSettled
    BY <1>1, <1>3 DEF ReadsSettled, SectionsSettled, PhaseSettled, BodyReads, FinReads
  <1>5. PhaseFollowsSchedule
    BY <1>1, <1>2 DEF PhaseFollowsSchedule, InLoop, TypeOK
  <1> QED
    BY <1>1, <1>2, <1>4, <1>5
       DEF IInv, ChildHolds, ForwardedHolds, ReductionHolds, EmptyUntilOpened, Idle

(* Every step keeps the invariant.                                         *)
LEMMA StepInv == IInv /\ [Next]_vars => IInv'
  <1> SUFFICES ASSUME IInv, [Next]_vars PROVE IInv'
    OBVIOUS
  <1>0. TypeOK'
    BY TypeStep DEF IInv
  <1>1. ASSUME NEW o \in Outputs, StartChild(o) PROVE IInv'
    BY <1>0, <1>1, StartChildKeeps
  <1>2. ASSUME NEW b \in Buf, NEW k \in Idx, LoadForwarded(b, k) PROVE IInv'
    BY <1>0, <1>2, LoadForwardedKeeps
  <1>3. ASSUME NEW b \in Buf, NEW k \in Idx, LoadMemory(b, k) PROVE IInv'
    BY <1>0, <1>3, LoadMemoryKeeps
  <1>4. ASSUME NEW is \in Positions(MaxArgs), Compute(is) PROVE IInv'
    BY <1>0, <1>4, ComputeKeeps
  <1>5. ASSUME NEW i \in DOMAIN child.vals, NEW k \in Idx,
               NEW op \in {"store", "atomic"}, Store(i, k, op)
        PROVE  IInv'
    BY <1>0, <1>5, StoreKeeps
  <1>6. ASSUME NEW i \in DOMAIN child.vals, Reduction(i) PROVE IInv'
    BY <1>0, <1>6, ReductionKeeps
  <1>7. ASSUME NEW k \in RowIdx, StoreReduction(k) PROVE IInv'
    BY <1>0, <1>7, StoreReductionKeeps
  <1>8. ASSUME NEW is \in Positions(MaxStates), is # <<>>, Scan(is) PROVE IInv'
    BY <1>0, <1>8, ScanKeeps
  <1>9. CASE DisableReduction
    BY <1>0, <1>9, MarkerKeeps DEF DisableReduction
  <1>10. CASE EnableReduction
    BY <1>0, <1>10, MarkerKeeps DEF EnableReduction
  <1>11. CASE Finish
    BY <1>0, <1>11, FinishKeeps
  <1>12. CASE Raise \/ UNCHANGED vars
    BY <1>0, <1>12, QuietKeeps
  <1>13. ASSUME NEW i \in DOMAIN child.vals, RaiseInReduction(i) PROVE IInv'
    BY <1>0, <1>13, RaiseInReductionKeeps
  <1> QED
    BY <1>1, <1>2, <1>3, <1>4, <1>5, <1>6, <1>7, <1>8, <1>9, <1>10, <1>11, <1>12, <1>13
       DEF Next, Stopped

(* Scoping and finality hold in every state the builder reaches, for every *)
(* schedule and every LoopBodies Inductor may hand it, of any length.      *)
THEOREM ReadsAreSettled == Spec => []ReadsSettled
  <1>1. IInv => ReadsSettled
    BY DEF IInv
  <1> QED
    BY <1>1, InitInv, StepInv, PTL DEF Spec

(* The open phase is a reduction loop exactly when the schedule says so,   *)
(* so no initializer or finalizer is ever dropped.                         *)
THEOREM PhasesFollowSchedule == Spec => []PhaseFollowsSchedule
  <1>1. IInv => PhaseFollowsSchedule
    BY DEF IInv
  <1> QED
    BY <1>1, InitInv, StepInv, PTL DEF Spec

-----------------------------------------------------------------------------
(* Memory: the inductive invariant.  LoadsDefined and                      *)
(* ForwardingMatchesStores speak of what has been emitted, while load      *)
(* decides from what the schedule knows (written, notReady): the invariant *)
(* ties the two together.                                                  *)

(* An output is written by one child only, by its last call. *)
UnwrittenUntilStored ==
    /\ child.mode # "idle" => written[child.out] = "no"
    /\ \A o \in Outputs : written[o] = "no" => WritesOf(block, o) = {}

(* A write is emitted into the block, never left among the bindings. *)
BindingsWriteNothing ==
    \A i \in DOMAIN bindings : bindings[i].op \notin {"store", "atomic"}

(* What the schedule counts as written is in the open phase or in a closed *)
(* section; it is among the finalizers only while no child may read it.    *)
StoresPlaced ==
    \A o \in Outputs :
        /\ o \in notReady => written[o] = "row"
        /\ written[o] # "no" =>
             \/ WritesOf(block, o) # {}
             \/ \E m \in DOMAIN outer : SectionWrites(outer[m], o)
             \/ o \in notReady /\ WritesOf(fins, o) # {}

MemoryInv ==
    /\ IInv
    /\ ForwardingMatchesStores
    /\ LoadsDefined
    /\ UnwrittenUntilStored
    /\ BindingsWriteNothing
    /\ StoresPlaced

(* LoadsDefined, for one sequence of statements that follows the first     *)
(* n - 1 sections of secs, when the buffers of ins exist beforehand.       *)
LoadsFollow(seq, secs, n, ins) ==
    \A i \in DOMAIN seq :
        seq[i].op = "load" =>
            \/ seq[i].buf \in ins
            \/ \E j \in WritesOf(seq, seq[i].buf) : j < i
            \/ \E m \in DOMAIN secs : m < n /\ SectionWrites(secs[m], seq[i].buf)

Provided == RegionInputs \cap Inputs

(* A forwarded value is the one a statement of seq stores at the key. *)
StoredIn(seq, key, v) ==
    \E i \in WritesOf(seq, key[1]) : seq[i].idx = key[2] /\ seq[i].args = <<v>>
LastStoredIn(seq, key, v) ==
    \E i \in WritesOf(seq, key[1]) :
        /\ seq[i].idx = key[2] /\ seq[i].args = <<v>>
        /\ \A j \in WritesOf(seq, key[1]) : j <= i

(* The two properties, by these parts, before and after a step. *)
LoadsByParts ==
    /\ \A n \in DOMAIN outer : LoadsFollow(outer[n].body, outer, n, Provided)
    /\ LoadsFollow(Flushed, outer, Len(outer) + 1, Provided)

ForwardingByParts ==
    /\ \A key \in Key : fwd[key] # None => LastStoredIn(block, key, fwd[key])
    /\ \A key \in Key : fwdRed[key] # None =>
          \/ StoredIn(fins, key, fwdRed[key])
          \/ \E m \in DOMAIN outer : StoredIn(outer[m].fins, key, fwdRed[key])

(* The two properties are their parts. *)
LEMMA PropertiesByParts ==
    /\ LoadsDefined <=> LoadsByParts
    /\ LoadsDefined' <=> LoadsByParts'
    /\ ForwardingMatchesStores <=> ForwardingByParts
    /\ ForwardingMatchesStores' <=> ForwardingByParts'
  <1>1. LoadsDefined <=> LoadsByParts
    BY DEF LoadsDefined, LoadsByParts, LoadsFollow, Provided
  <1>2. LoadsDefined' <=> LoadsByParts'
    BY DEF LoadsDefined, LoadsByParts, LoadsFollow, Provided
  <1>3. ForwardingMatchesStores <=> ForwardingByParts
    BY DEF ForwardingMatchesStores, ForwardingByParts, LastStoredIn, StoredIn
  <1>4. ForwardingMatchesStores' <=> ForwardingByParts'
    BY DEF ForwardingMatchesStores, ForwardingByParts, LastStoredIn, StoredIn
  <1> QED
    BY <1>1, <1>2, <1>3, <1>4

-----------------------------------------------------------------------------
(* What concatenation does to writes and loads. *)

(* A concatenation writes where its parts do. *)
LEMMA WritesConcat ==
    ASSUME NEW s \in Seq(Stmt), NEW t \in Seq(Stmt), NEW b
    PROVE  /\ \A i \in WritesOf(s, b) : i \in WritesOf(s \o t, b)
           /\ \A i \in WritesOf(t, b) : i + Len(s) \in WritesOf(s \o t, b)
           /\ \A i \in WritesOf(s \o t, b) :
                 i \in WritesOf(s, b) \/ i - Len(s) \in WritesOf(t, b)
  BY ConcatElements DEF WritesOf

(* The last store to a key is still the last one when no write follows.    *)
LEMMA LastStoredConcat ==
    ASSUME NEW s \in Seq(Stmt), NEW t \in Seq(Stmt), NEW key, NEW v,
           WritesOf(t, key[1]) = {}, LastStoredIn(s, key, v)
    PROVE  LastStoredIn(s \o t, key, v)
  <1>1. PICK i \in WritesOf(s, key[1]) :
              /\ s[i].idx = key[2] /\ s[i].args = <<v>>
              /\ \A j \in WritesOf(s, key[1]) : j <= i
    BY DEF LastStoredIn
  <1>2. i \in WritesOf(s \o t, key[1]) /\ (s \o t)[i] = s[i]
    BY WritesConcat, ConcatElements DEF WritesOf
  <1>3. \A j \in WritesOf(s \o t, key[1]) : j \in WritesOf(s, key[1])
    BY WritesConcat
  <1> QED
    BY <1>1, <1>2, <1>3 DEF LastStoredIn

(* Loads stay defined when the sequence, the sections and the inputs grow. *)
LEMMA LoadsConcat ==
    ASSUME NEW s \in Seq(Stmt), NEW t \in Seq(Stmt), NEW secs, NEW n, NEW ins, NEW ins2,
           LoadsFollow(s, secs, n, ins), ins \subseteq ins2,
           \A i \in DOMAIN t : t[i].op = "load" =>
              \/ t[i].buf \in ins2
              \/ WritesOf(s, t[i].buf) # {}
              \/ \E m \in DOMAIN secs : m < n /\ SectionWrites(secs[m], t[i].buf)
    PROVE  LoadsFollow(s \o t, secs, n, ins2)
  <1> DEFINE st == s \o t
             known(b) == \E m \in DOMAIN secs : m < n /\ SectionWrites(secs[m], b)
  <1> SUFFICES ASSUME NEW i \in DOMAIN st, st[i].op = "load"
               PROVE  \/ st[i].buf \in ins2
                      \/ \E j \in WritesOf(st, st[i].buf) : j < i
                      \/ known(st[i].buf)
    BY DEF LoadsFollow
  <1>1. CASE i \in DOMAIN s
    <2>1. st[i] = s[i]
      BY <1>1, ConcatElements
    <2>2. \/ s[i].buf \in ins
          \/ \E j \in WritesOf(s, s[i].buf) : j < i
          \/ known(s[i].buf)
      BY <1>1, <2>1 DEF LoadsFollow
    <2>3. \A j \in WritesOf(s, s[i].buf) : j \in WritesOf(st, s[i].buf)
      BY WritesConcat
    <2> QED
      BY <2>1, <2>2, <2>3
  <1>2. CASE i \notin DOMAIN s
    <2>1. i - Len(s) \in DOMAIN t /\ st[i] = t[i - Len(s)]
      BY <1>2, ConcatElements
    <2>2. \/ st[i].buf \in ins2 \/ WritesOf(s, st[i].buf) # {} \/ known(st[i].buf)
      BY <2>1
    <2>3. \A j \in WritesOf(s, st[i].buf) : j \in WritesOf(st, st[i].buf) /\ j < i
      <3>1. \A j \in DOMAIN s : j < i
        BY <1>2, ConcatElements
      <3> QED
        BY <3>1, WritesConcat DEF WritesOf
    <2> QED
      BY <2>2, <2>3
  <1> QED
    BY <1>1, <1>2

(* No statement of a scan or of a reduction reads or writes memory.        *)
OnlyLocals(t) == \A i \in DOMAIN t : t[i].op \notin {"load", "store", "atomic"}

(* Statements about locals write nowhere. *)
LEMMA OnlyLocalsWrites ==
    ASSUME NEW t, OnlyLocals(t), NEW b
    PROVE  WritesOf(t, b) = {}
  BY DEF OnlyLocals, WritesOf

(* Two runs of such statements make another. *)
LEMMA OnlyLocalsConcat ==
    ASSUME NEW s \in Seq(Stmt), NEW t \in Seq(Stmt), OnlyLocals(s), OnlyLocals(t)
    PROVE  s \o t \in Seq(Stmt) /\ OnlyLocals(s \o t)
  <1>1. \A i \in DOMAIN (s \o t) :
           \/ i \in DOMAIN s /\ (s \o t)[i] = s[i]
           \/ i - Len(s) \in DOMAIN t /\ (s \o t)[i] = t[i - Len(s)]
    BY ConcatElements
  <1> QED
    BY <1>1, ConcatElements DEF OnlyLocals

-----------------------------------------------------------------------------
(* Steps that only extend the open phase. *)

(* The block grows by flushed bindings and by statements that do not load. *)
LEMMA ExtendMemory ==
    ASSUME MemoryInv, NEW t \in Seq(Stmt),
           \A i \in DOMAIN t : t[i].op # "load",
           block' = Flushed \o t, bindings' = <<>>, UNCHANGED <<outer, reads>>
    PROVE  /\ LoadsDefined'
           /\ BindingsWriteNothing'
           /\ \A b : WritesOf(block, b) # {} \/ WritesOf(t, b) # {} => WritesOf(block', b) # {}
           /\ \A b : WritesOf(block', b) # {} => WritesOf(block, b) # {} \/ WritesOf(t, b) # {}
           /\ \A key, v : WritesOf(t, key[1]) = {} /\ LastStoredIn(block, key, v)
                             => LastStoredIn(block', key, v)
  <1>1. /\ block \in Seq(Stmt) /\ bindings \in Seq(Stmt) /\ Flushed \in Seq(Stmt)
        /\ block' \in Seq(Stmt)
    BY ConcatProperties DEF MemoryInv, IInv, TypeOK, Flushed
  <1>2. Flushed' = block'
    BY <1>1, ConcatEmptySeq DEF Flushed
  <1>3. \A b : WritesOf(bindings, b) = {}
    BY DEF MemoryInv, BindingsWriteNothing, WritesOf
  <1>4. LoadsDefined'
    <2>1. LoadsByParts
      BY PropertiesByParts DEF MemoryInv
    <2>2. LoadsFollow(Flushed \o t, outer, Len(outer) + 1, Provided)
      BY <1>1, <2>1, LoadsConcat DEF LoadsByParts
    <2>3. Provided' = Provided
      BY DEF Provided, RegionInputs
    <2> QED
      BY <1>2, <2>1, <2>2, <2>3, PropertiesByParts DEF LoadsByParts
  <1>5. BindingsWriteNothing'
    BY DEF BindingsWriteNothing
  <1>6. \A b : WritesOf(block, b) # {} \/ WritesOf(t, b) # {} => WritesOf(block', b) # {}
    <2> SUFFICES ASSUME NEW b, WritesOf(block, b) # {} \/ WritesOf(t, b) # {}
                 PROVE  WritesOf(block', b) # {}
      OBVIOUS
    <2>1. WritesOf(block, b) # {} => WritesOf(Flushed, b) # {}
      BY <1>1, WritesConcat DEF Flushed
    <2>2. WritesOf(Flushed, b) # {} \/ WritesOf(t, b) # {} => WritesOf(Flushed \o t, b) # {}
      BY <1>1, WritesConcat
    <2> QED
      BY <2>1, <2>2
  <1>7. \A b : WritesOf(block', b) # {} => WritesOf(block, b) # {} \/ WritesOf(t, b) # {}
    <2> SUFFICES ASSUME NEW b, WritesOf(block', b) # {}
                 PROVE  WritesOf(block, b) # {} \/ WritesOf(t, b) # {}
      OBVIOUS
    <2>1. WritesOf(Flushed, b) # {} \/ WritesOf(t, b) # {}
      BY <1>1, WritesConcat
    <2>2. WritesOf(Flushed, b) # {} => WritesOf(block, b) # {}
      BY <1>1, <1>3, WritesConcat DEF Flushed
    <2> QED
      BY <2>1, <2>2
  <1>8. \A key, v : WritesOf(t, key[1]) = {} /\ LastStoredIn(block, key, v)
                       => LastStoredIn(block', key, v)
    <2> SUFFICES ASSUME NEW key, NEW v, WritesOf(t, key[1]) = {}, LastStoredIn(block, key, v)
                 PROVE  LastStoredIn(block', key, v)
      OBVIOUS
    <2>1. LastStoredIn(Flushed, key, v)
      BY <1>1, <1>3, LastStoredConcat DEF Flushed
    <2> QED
      BY <1>1, <2>1, LastStoredConcat
  <1> QED
    BY <1>4, <1>5, <1>6, <1>7, <1>8

(* Statements about locals leave the rest of the invariant alone.          *)
LEMMA ExtendByLocals ==
    ASSUME MemoryInv, IInv', NEW t \in Seq(Stmt), OnlyLocals(t),
           block' = Flushed \o t, bindings' = <<>>,
           UNCHANGED <<outer, reads, written, notReady, fins, fwd, fwdRed>>,
           child'.mode # "idle" => child.mode # "idle" /\ child'.out = child.out
    PROVE  MemoryInv'
  <1>1. \A i \in DOMAIN t : t[i].op # "load"
    BY DEF OnlyLocals
  <1>2. \A b : WritesOf(t, b) = {}
    BY OnlyLocalsWrites
  <1>3. /\ LoadsDefined'
        /\ BindingsWriteNothing'
        /\ \A b : WritesOf(block', b) # {} <=> WritesOf(block, b) # {}
        /\ \A key, v : LastStoredIn(block, key, v) => LastStoredIn(block', key, v)
    BY <1>1, <1>2, ExtendMemory
  <1>4. ForwardingMatchesStores'
    BY <1>3, PropertiesByParts DEF MemoryInv, ForwardingByParts
  <1>5. UnwrittenUntilStored' /\ StoresPlaced'
    BY <1>3 DEF MemoryInv, UnwrittenUntilStored, StoresPlaced
  <1> QED
    BY <1>3, <1>4, <1>5 DEF MemoryInv

-----------------------------------------------------------------------------
(* The inductive step, one lemma per group of actions. *)

(* An expression bound to a temporary: a load is of something defined.     *)
LEMMA BindMemory ==
    ASSUME MemoryInv, IInv', NEW x \in Stmt, x.op \in {"load", "calc"},
           x.op = "load" =>
              \/ x.buf \in Provided'
              \/ WritesOf(block, x.buf) # {}
              \/ \E m \in DOMAIN outer : SectionWrites(outer[m], x.buf),
           bindings' = Append(bindings, x), reads \subseteq reads',
           UNCHANGED <<outer, block, fins, fwd, fwdRed, written, notReady>>,
           child'.mode # "idle" => child.mode # "idle" /\ child'.out = child.out
    PROVE  MemoryInv'
  <1>1. /\ block \in Seq(Stmt) /\ bindings \in Seq(Stmt) /\ Flushed \in Seq(Stmt)
        /\ <<x>> \in Seq(Stmt)
        /\ Len(outer) \in Nat /\ DOMAIN outer = 1..Len(outer)
    BY ConcatProperties, LenProperties DEF MemoryInv, IInv, TypeOK, Flushed
  <1>2. Flushed' = Flushed \o <<x>>
    <2>1. bindings' = bindings \o <<x>>
      BY <1>1, AppendIsConcat
    <2> QED
      BY <1>1, <2>1, ConcatAssociative DEF Flushed
  <1>3. LoadsDefined'
    <2>1. LoadsByParts
      BY PropertiesByParts DEF MemoryInv
    <2>2. Provided \subseteq Provided'
      BY DEF Provided, RegionInputs
    <2>3. \A b : WritesOf(block, b) # {} => WritesOf(Flushed, b) # {}
      BY <1>1, WritesConcat DEF Flushed
    <2>4. LoadsFollow(Flushed \o <<x>>, outer, Len(outer) + 1, Provided')
      <3>1. LoadsFollow(Flushed, outer, Len(outer) + 1, Provided)
        BY <2>1 DEF LoadsByParts
      <3>2. \A i \in DOMAIN <<x>> : <<x>>[i] = x
        OBVIOUS
      <3>3. \A m \in DOMAIN outer : m < Len(outer) + 1
        BY <1>1
      <3> QED
        BY <1>1, <2>2, <2>3, <3>1, <3>2, <3>3, LoadsConcat
    <2>5. \A n \in DOMAIN outer : LoadsFollow(outer[n].body, outer, n, Provided')
      BY <2>1, <2>2 DEF LoadsByParts, LoadsFollow
    <2> QED
      BY <1>2, <2>4, <2>5, PropertiesByParts DEF LoadsByParts
  <1>4. BindingsWriteNothing'
    BY <1>1, AppendProperties, LenProperties DEF MemoryInv, BindingsWriteNothing
  <1>5. ForwardingMatchesStores'
    BY PropertiesByParts DEF MemoryInv, ForwardingByParts
  <1>6. UnwrittenUntilStored' /\ StoresPlaced'
    BY DEF MemoryInv, UnwrittenUntilStored, StoresPlaced
  <1> QED
    BY <1>3, <1>4, <1>5, <1>6 DEF MemoryInv

(* A value handed back leaves the LoopBody where it was.                   *)
LEMMA ReturnsKeepsChild ==
    ASSUME TypeOK, NEW v, Returns(v)
    PROVE  child'.mode = child.mode /\ child'.out = child.out
  BY DEF TypeOK, ChildOK, Returns

(* load, when the value comes from memory: the schedule lets a child read  *)
(* an input, or an output whose writes have been placed.                   *)
LEMMA LoadMemoryDefined ==
    ASSUME MemoryInv, IInv', NEW b \in Buf, NEW k \in Idx, LoadMemory(b, k)
    PROVE  MemoryInv'
  <1> DEFINE x == LoadOf(NextTemp, b, k)
  <1>1. x \in Stmt /\ x.op = "load" /\ x.buf = b
    <2>1. NextTemp \in Var
      BY DEF MemoryInv, IInv, TypeOK, NextTemp, Var
    <2> QED
      BY <2>1, StatementTypes DEF LoadOf
  <1>2. /\ Readable(b, k)
        /\ bindings' = Append(bindings, x) /\ reads' = reads \cup {b}
        /\ UNCHANGED <<outer, block, fins, fwd, fwdRed, written, notReady>>
    BY DEF LoadMemory, schedule, builder
  <1>3. child'.mode = child.mode /\ child'.out = child.out
    BY ReturnsKeepsChild DEF LoadMemory, MemoryInv, IInv
  <1>4. \/ b \in Provided'
        \/ WritesOf(block, b) # {}
        \/ \E m \in DOMAIN outer : SectionWrites(outer[m], b)
    <2>1. CASE b \in Inputs
      BY <1>2, <2>1, NamesAssumption DEF Provided, RegionInputs
    <2>2. CASE b \notin Inputs
      <3>1. b \in Outputs /\ written[b] # "no" /\ b \notin notReady
        BY <1>2, <2>2 DEF Readable, MemoryInv, StoresPlaced
      <3> QED
        BY <3>1 DEF MemoryInv, StoresPlaced
    <2> QED
      BY <2>1, <2>2
  <1> HIDE DEF x
  <1> QED
    BY <1>1, <1>2, <1>3, <1>4, BindMemory

(* A scalar operation touches no memory.                                   *)
LEMMA ComputeDefined ==
    ASSUME MemoryInv, IInv', NEW is \in Positions(MaxArgs), Compute(is)
    PROVE  MemoryInv'
  <1> DEFINE x == Local("calc", NextTemp, Operands(is))
  <1>1. x \in Stmt /\ x.op = "calc"
    <2>1. NextTemp \in Var
      BY DEF MemoryInv, IInv, TypeOK, NextTemp, Var
    <2>2. Operands(is) \in Seq(Var)
      BY OperandsType, BoundsAssumption DEF MemoryInv, IInv
    <2> QED
      BY <2>1, <2>2, StatementTypes DEF Local, Op
  <1>2. /\ bindings' = Append(bindings, x) /\ reads' = reads
        /\ UNCHANGED <<outer, block, fins, fwd, fwdRed, written, notReady>>
    BY DEF Compute, schedule, builder
  <1>3. child'.mode = child.mode /\ child'.out = child.out
    BY ReturnsKeepsChild DEF Compute, MemoryInv, IInv
  <1> HIDE DEF x
  <1> QED
    BY <1>1, <1>2, <1>3, BindMemory

(* store: the first write to its buffer, and the last one so far, is the   *)
(* one that forwarded records.                                             *)
LEMMA StoreForwards ==
    ASSUME MemoryInv, IInv', NEW i \in DOMAIN child.vals, NEW k \in Idx,
           NEW op \in {"store", "atomic"}, Store(i, k, op)
    PROVE  MemoryInv'
  <1> DEFINE v == child.vals[i]
             o == child.out
             x == StoreTo(op, o, k, v)
             t == <<x>>
  <1>1. /\ o \in Outputs /\ o \in Buf /\ v \in Var /\ <<o, k>> \in Key
        /\ child.mode # "idle" /\ written[o] = "no"
    BY SMTT(60) DEF Store, MemoryInv, IInv, TypeOK, ChildOK, Buf, Key, UnwrittenUntilStored
  <1>2. /\ block' = Flushed \o t /\ bindings' = <<>>
        /\ UNCHANGED <<outer, reads, notReady, fins, fwdRed>>
        /\ fwd' = [fwd EXCEPT ![<<o, k>>] = v]
        /\ child' = Idle
        /\ \A b \in Outputs : b # o => written'[b] = written[b]
        /\ written'[o] # "no"
    BY <1>1 DEF Store, StoreStmts, Materialized, ForwardedBy, builder, MemoryInv, IInv, TypeOK
  <1>3. /\ x \in Stmt /\ x.op \in {"store", "atomic"} /\ x.buf = o /\ x.idx = k
        /\ x.args = <<v>>
    BY <1>1 DEF StoreTo, Stmt, Op
  <1> HIDE DEF x
  <1>4. /\ t \in Seq(Stmt) /\ DOMAIN t = {1} /\ t[1] = x
        /\ \A b : WritesOf(t, b) = IF b = o THEN {1} ELSE {}
    BY <1>3 DEF WritesOf
  <1>5. \A j \in DOMAIN t : t[j].op # "load"
    BY <1>3, <1>4
  <1> HIDE DEF t
  <1>6. /\ LoadsDefined'
        /\ BindingsWriteNothing'
        /\ \A b : WritesOf(block, b) # {} \/ b = o => WritesOf(block', b) # {}
        /\ \A b : WritesOf(block', b) # {} => WritesOf(block, b) # {} \/ b = o
        /\ \A key, w : key[1] # o /\ LastStoredIn(block, key, w)
                          => LastStoredIn(block', key, w)
    <2>1. /\ \A b : WritesOf(t, b) # {} <=> b = o
          /\ UNCHANGED <<outer, reads>>
      BY <1>2, <1>4
    <2>2. /\ LoadsDefined'
          /\ BindingsWriteNothing'
          /\ \A b : WritesOf(block, b) # {} \/ WritesOf(t, b) # {} => WritesOf(block', b) # {}
          /\ \A b : WritesOf(block', b) # {} => WritesOf(block, b) # {} \/ WritesOf(t, b) # {}
          /\ \A key, w : WritesOf(t, key[1]) = {} /\ LastStoredIn(block, key, w)
                             => LastStoredIn(block', key, w)
      BY <1>2, <1>4, <1>5, <2>1, ExtendMemory
    <2> QED
      BY <2>1, <2>2
  <1>7. LastStoredIn(block', <<o, k>>, v)
    <2>1. Flushed \in Seq(Stmt)
      BY ConcatProperties DEF MemoryInv, IInv, TypeOK, Flushed
    <2> DEFINE n == 1 + Len(Flushed)
    <2>2. n \in WritesOf(block', o) /\ block'[n] = x
      <3>1. 1 \in WritesOf(t, o) /\ 1 \in DOMAIN t
        BY <1>4
      <3>2. 1 + Len(Flushed) \in WritesOf(Flushed \o t, o)
        BY <1>4, <2>1, <3>1, WritesConcat
      <3>3. (Flushed \o t)[1 + Len(Flushed)] = t[1]
        BY <1>4, <2>1, <3>1, ConcatElements
      <3> QED
        BY <1>2, <1>4, <3>2, <3>3
    <2>3. \A j \in WritesOf(block', o) : j <= n
      BY <1>2, <1>4, <2>1, ConcatElements DEF WritesOf
    <2> QED
      BY <1>3, <2>2, <2>3 DEF LastStoredIn
  <1>8. ForwardingMatchesStores'
    <2>1. ForwardingByParts
      BY PropertiesByParts DEF MemoryInv
    <2>2. ASSUME NEW key \in Key, fwd'[key] # None
          PROVE  LastStoredIn(block', key, fwd'[key])
      <3>1. CASE key = <<o, k>>
        <4>1. fwd'[key] = v
          BY <1>1, <1>2, <3>1 DEF MemoryInv, IInv, TypeOK
        <4> QED
          BY <1>7, <3>1, <4>1
      <3>2. CASE key # <<o, k>>
        <4>1. fwd'[key] = fwd[key]
          BY <1>2, <3>2 DEF MemoryInv, IInv, TypeOK
        <4>2. LastStoredIn(block, key, fwd[key])
          BY <2>1, <2>2, <4>1 DEF ForwardingByParts
        <4>3. WritesOf(block, key[1]) # {}
          BY <4>2 DEF LastStoredIn
        <4>4. key[1] # o
          BY <1>1, <4>3 DEF MemoryInv, UnwrittenUntilStored
        <4> QED
          BY <1>6, <4>1, <4>2, <4>4
      <3> QED
        BY <3>1, <3>2
    <2> QED
      BY <1>2, <2>1, <2>2, PropertiesByParts DEF ForwardingByParts
  <1>9. UnwrittenUntilStored'
    <2>1. child'.mode = "idle"
      BY <1>2 DEF Idle
    <2> QED
      BY <1>1, <1>2, <1>6, <2>1 DEF MemoryInv, UnwrittenUntilStored
  <1>10. StoresPlaced'
    <2>1. o \notin notReady
      BY <1>1 DEF MemoryInv, StoresPlaced
    <2> QED
      BY <1>1, <1>2, <1>6, <2>1 DEF MemoryInv, StoresPlaced
  <1> QED
    BY <1>6, <1>8, <1>9, <1>10 DEF MemoryInv

(* reduction: initializers and updates touch no memory.                    *)
LEMMA ReductionMemory ==
    ASSUME MemoryInv, IInv', NEW i \in DOMAIN child.vals, Reduction(i)
    PROVE  MemoryInv'
  <1> DEFINE acc == <<"acc", count.acc>>
             x == Local("update", acc, <<child.vals[i]>>)
  <1>1. /\ block' = Append(Flushed, x) /\ bindings' = <<>>
        /\ UNCHANGED <<outer, reads, written, notReady, fins, fwd, fwdRed>>
        /\ child' = [child EXCEPT !.vals = <<acc>>, !.mode = "reduced"]
        /\ child.mode = "body"
    BY DEF Reduction, schedule, builder
  <1>2. x \in Stmt /\ x.op = "update"
    <2>1. acc \in Var /\ child.vals[i] \in Var
      <3>1. count.acc \in Nat /\ child.vals \in Seq(Var)
        BY DEF MemoryInv, IInv, TypeOK, ChildOK
      <3>2. acc \in Var
        BY <3>1 DEF Var
      <3> QED
        BY <3>1, <3>2
    <2>2. <<child.vals[i]>> \in Seq(Var)
      BY <2>1
    <2> QED
      BY <2>1, <2>2, StatementTypes DEF Local, Op
  <1>3. child'.out = child.out /\ child.mode # "idle"
    BY <1>1 DEF MemoryInv, IInv, TypeOK, ChildOK
  <1> HIDE DEF x, acc
  <1>4. Flushed \in Seq(Stmt)
    BY ConcatProperties DEF MemoryInv, IInv, TypeOK, Flushed
  <1>5. <<x>> \in Seq(Stmt) /\ block' = Flushed \o <<x>> /\ OnlyLocals(<<x>>)
    BY <1>1, <1>2, <1>4, AppendIsConcat DEF OnlyLocals
  <1> QED
    BY <1>1, <1>3, <1>5, ExtendByLocals

(* reduction raises: the bindings it flushed are in the block.             *)
LEMMA RaiseInReductionMemory ==
    ASSUME MemoryInv, IInv', NEW i \in DOMAIN child.vals, RaiseInReduction(i)
    PROVE  MemoryInv'
  <1>1. /\ block' = Flushed /\ bindings' = <<>>
        /\ UNCHANGED <<outer, reads, written, notReady, fins, fwd, fwdRed>>
        /\ child'.mode = "idle"
    BY DEF RaiseInReduction, Fails, Idle, schedule
  <1>2. Flushed \in Seq(Stmt)
    BY ConcatProperties DEF MemoryInv, IInv, TypeOK, Flushed
  <1>3. <<>> \in Seq(Stmt) /\ block' = Flushed \o <<>> /\ OnlyLocals(<<>>)
    BY <1>1, <1>2, EmptySeq, ConcatEmptySeq DEF OnlyLocals
  <1> QED
    BY <1>1, <1>3, ExtendByLocals

(* scan: its statements touch no memory.                                   *)
LEMMA ScanMemory ==
    ASSUME MemoryInv, IInv', NEW is \in Positions(MaxStates), is # <<>>, Scan(is)
    PROVE  MemoryInv'
  <1> DEFINE values == Operands(is)
             u == ScanUpdate(values)
             n == Len(values)
  <1>1. /\ block' = Flushed \o ScanStmts(u) /\ bindings' = <<>>
        /\ UNCHANGED <<outer, reads, written, notReady, fins, fwd, fwdRed>>
        /\ child' = [child EXCEPT !.vals = @ \o u.states, !.mode = "scanned"]
        /\ child.mode = "body"
    BY DEF Scan, schedule, builder
  <1>2. values \in Seq(Var) /\ values # <<>> /\ n \in Nat
    BY OperandsType, BoundsAssumption DEF MemoryInv, IInv
  <1>3. /\ \A j \in 1..n : /\ u.combines[j].op = "combine"
                          /\ u.picks[j].op = "pick"
                          /\ u.moves[j].op = "move"
    BY LocalFields DEF ScanUpdate
  <1>4. /\ u.combines \in Seq(Stmt) /\ Len(u.combines) = n
        /\ u.picks \in Seq(Stmt) /\ Len(u.picks) = n
        /\ u.moves \in Seq(Stmt) /\ Len(u.moves) = n
    <2>1. TypeOK
      BY DEF MemoryInv, IInv
    <2>2. /\ u.combines \in [1..n -> Stmt] /\ u.picks \in [1..n -> Stmt]
          /\ u.moves \in [1..n -> Stmt]
      BY <1>2, <2>1, ScanUpdateType
    <2> HIDE DEF u, n
    <2> QED
      BY <1>2, <2>2, FunctionIsSeq
  <1>5. child'.out = child.out /\ child.mode # "idle"
    BY <1>1 DEF MemoryInv, IInv, TypeOK, ChildOK
  <1> HIDE DEF u, values, n
  <1>6. u.combines \o u.picks \in Seq(Stmt) /\ OnlyLocals(u.combines \o u.picks)
    <2>1. OnlyLocals(u.combines) /\ OnlyLocals(u.picks)
      BY <1>2, <1>3, <1>4, LenProperties DEF OnlyLocals
    <2> QED
      BY <1>4, <2>1, OnlyLocalsConcat
  <1>7. ScanStmts(u) \in Seq(Stmt) /\ OnlyLocals(ScanStmts(u))
    <2> DEFINE cp == u.combines \o u.picks
    <2>1. ScanStmts(u) = cp \o u.moves /\ cp \in Seq(Stmt) /\ OnlyLocals(cp)
      BY <1>6 DEF ScanStmts
    <2>2. OnlyLocals(u.moves)
      BY <1>2, <1>3, <1>4, LenProperties DEF OnlyLocals
    <2> HIDE DEF cp
    <2> QED
      BY <1>4, <2>1, <2>2, OnlyLocalsConcat
  <1> QED
    BY <1>1, <1>5, <1>7, ExtendByLocals

(* store_reduction: the finalizer is the write that forwarded_reductions   *)
(* records, and the buffer is not read until the next marker.              *)
LEMMA StoreReductionForwards ==
    ASSUME MemoryInv, IInv', NEW k \in RowIdx, StoreReduction(k)
    PROVE  MemoryInv'
  <1> DEFINE v == child.vals[1]
             o == child.out
             x == StoreTo("store", o, k, v)
  <1>1. /\ o \in Outputs /\ o \in Buf /\ k \in Idx /\ <<o, k>> \in Key
        /\ child.mode # "idle" /\ written[o] = "no" /\ v \in Var
    <2>1. v \in Var
      BY ElementOfSeq DEF StoreReduction, MemoryInv, IInv, TypeOK, ChildOK
    <2> QED
      BY <2>1 DEF StoreReduction, MemoryInv, IInv, TypeOK, ChildOK, Buf, Key, Idx,
                  UnwrittenUntilStored
  <1>2. /\ block' = Flushed /\ bindings' = <<>>
        /\ UNCHANGED <<outer, reads, fwd>>
        /\ fins' = fins \o <<x>>
        /\ fwdRed' = [fwdRed EXCEPT ![<<o, k>>] = v]
        /\ child' = Idle
        /\ written' = [written EXCEPT ![o] = "row"]
        /\ notReady' = notReady \cup {o}
    BY <1>1 DEF StoreReduction, StoreStmts, Materialized, ReductionForwardedBy, builder
  <1>3. x \in Stmt /\ x.op = "store" /\ x.buf = o /\ x.idx = k /\ x.args = <<v>>
    BY <1>1 DEF StoreTo, Stmt, Op
  <1> HIDE DEF x
  <1>4. /\ <<x>> \in Seq(Stmt) /\ fins \in Seq(Stmt) /\ Flushed \in Seq(Stmt)
        /\ <<>> \in Seq(Stmt) /\ block' = Flushed \o <<>>
    BY <1>2, <1>3, EmptySeq, ConcatEmptySeq, ConcatProperties
       DEF MemoryInv, IInv, TypeOK, Flushed
  <1>5. /\ LoadsDefined'
        /\ BindingsWriteNothing'
        /\ \A b : WritesOf(block', b) # {} <=> WritesOf(block, b) # {}
        /\ \A key, w : LastStoredIn(block, key, w) => LastStoredIn(block', key, w)
    <2>1. \A b : WritesOf(<<>>, b) = {}
      BY DEF WritesOf
    <2>2. \A j \in DOMAIN <<>> : <<>>[j].op # "load"
      OBVIOUS
    <2> QED
      BY <1>2, <1>4, <2>1, <2>2, ExtendMemory
  <1>6. /\ \A b : WritesOf(fins, b) # {} => WritesOf(fins', b) # {}
        /\ WritesOf(fins', o) # {}
        /\ StoredIn(fins', <<o, k>>, v)
        /\ \A key, w : StoredIn(fins, key, w) => StoredIn(fins', key, w)
    <2>1. \A j \in DOMAIN fins : fins'[j] = fins[j] /\ j \in DOMAIN fins'
      BY <1>2, <1>4, ConcatElements
    <2>2. 1 + Len(fins) \in DOMAIN fins' /\ fins'[1 + Len(fins)] = x
      BY <1>2, <1>4, ConcatElements
    <2> QED
      BY <1>3, <2>1, <2>2 DEF WritesOf, StoredIn
  <1>7. ForwardingMatchesStores'
    <2>1. ForwardingByParts
      BY PropertiesByParts DEF MemoryInv
    <2>2. ASSUME NEW key \in Key, fwdRed'[key] # None
          PROVE  \/ StoredIn(fins', key, fwdRed'[key])
                 \/ \E m \in DOMAIN outer' : StoredIn(outer'[m].fins, key, fwdRed'[key])
      <3>1. CASE key = <<o, k>>
        BY <1>1, <1>2, <1>6, <3>1 DEF MemoryInv, IInv, TypeOK
      <3>2. CASE key # <<o, k>>
        <4>1. fwdRed'[key] = fwdRed[key]
          BY <1>2, <3>2 DEF MemoryInv, IInv, TypeOK
        <4> QED
          BY <1>2, <1>6, <2>1, <2>2, <4>1 DEF ForwardingByParts
      <3> QED
        BY <3>1, <3>2
    <2>3. \A key \in Key : fwd'[key] # None => LastStoredIn(block', key, fwd'[key])
      BY <1>2, <1>5, <2>1 DEF ForwardingByParts
    <2> QED
      BY <2>2, <2>3, PropertiesByParts DEF ForwardingByParts
  <1>8. /\ written'[o] = "row"
        /\ \A b \in Outputs : b # o => written'[b] = written[b]
        /\ child'.mode = "idle"
    BY <1>1, <1>2 DEF MemoryInv, IInv, TypeOK, Idle
  <1>9. UnwrittenUntilStored'
    BY <1>5, <1>8 DEF MemoryInv, UnwrittenUntilStored
  <1>10. StoresPlaced'
    BY <1>2, <1>5, <1>6, <1>8 DEF MemoryInv, StoresPlaced
  <1> QED
    BY <1>5, <1>7, <1>9, <1>10 DEF MemoryInv

(* A marker moves the open phase, finalizers included, into a section.     *)
LEMMA MarkerMemory ==
    ASSUME MemoryInv, IInv', Marker, NextPhase(enabled')
    PROVE  MemoryInv'
  <1>1. /\ UNCHANGED <<fwdRed, reads, written>> /\ child' = Idle /\ hasRed /\ notReady' = {}
        /\ child = Idle
    BY DEF Marker
  <1>2. /\ block' = <<>> /\ bindings' = <<>> /\ fins' = <<>>
        /\ \A key \in Key : fwd'[key] = None
        /\ (outer' = outer /\ block = <<>> /\ fins = <<>>) \/ outer' = Append(outer, PhaseSection)
    <2>1. CASE opened
      BY <2>1 DEF NextPhase, EntersNewPhase, ForwardedAtPhaseStart
    <2>2. CASE ~opened
      BY <2>2 DEF NextPhase, EntersNewPhase, phase, MemoryInv, IInv, EmptyUntilOpened
    <2> QED
      BY <2>1, <2>2
  <1> DEFINE N == Len(outer) + 1
  <1>3. /\ outer \in Seq(Section) /\ PhaseSection \in Section /\ Flushed \in Seq(Stmt)
        /\ PhaseSection.body = Flushed /\ PhaseSection.fins = fins
        /\ N \in Nat /\ DOMAIN outer = 1..(N - 1)
    <2>1. PhaseSection.body = Flushed /\ PhaseSection.fins = fins
      BY DEF PhaseSection, MemoryInv, IInv, PhaseFollowsSchedule, InLoop
    <2> QED
      BY <2>1, PhaseSectionType, LenProperties DEF MemoryInv, IInv, TypeOK
  <1>4. /\ \A m \in DOMAIN outer : m \in DOMAIN outer' /\ outer'[m] = outer[m]
        /\ \A m \in DOMAIN outer' : m \in DOMAIN outer \/
              (m = N /\ outer'[m] = PhaseSection /\ outer' = Append(outer, PhaseSection))
        /\ outer' = Append(outer, PhaseSection) =>
              N \in DOMAIN outer' /\ outer'[N] = PhaseSection
    BY <1>2, <1>3, AppendProperties, LenProperties
  <1>5. Flushed' = <<>> /\ LoadsFollow(Flushed', outer', Len(outer') + 1, Provided')
    BY <1>2, ConcatEmptySeq, EmptySeq DEF Flushed, LoadsFollow
  <1>6. LoadsDefined'
    <2>1. LoadsByParts
      BY PropertiesByParts DEF MemoryInv
    <2>2. Provided' = Provided
      BY <1>1 DEF Provided, RegionInputs
    <2>3. ASSUME NEW n \in DOMAIN outer'
          PROVE  LoadsFollow(outer'[n].body, outer', n, Provided)
      <3>1. CASE n \in DOMAIN outer
        BY <1>3, <1>4, <2>1, <3>1 DEF LoadsByParts, LoadsFollow
      <3>2. CASE n = N /\ outer'[n] = PhaseSection
        BY <1>3, <1>4, <2>1, <3>2 DEF LoadsByParts, LoadsFollow
      <3> QED
        BY <1>4, <3>1, <3>2
    <2> QED
      BY <1>5, <2>2, <2>3, PropertiesByParts DEF LoadsByParts
  <1>7. ForwardingMatchesStores'
    <2>1. ForwardingByParts
      BY PropertiesByParts DEF MemoryInv
    <2>2. ASSUME NEW key \in Key, fwdRed[key] # None
          PROVE  \E m \in DOMAIN outer' : StoredIn(outer'[m].fins, key, fwdRed[key])
      <3>1. CASE StoredIn(fins, key, fwdRed[key])
        <4>1. fins # <<>>
          BY <3>1 DEF StoredIn, WritesOf
        <4> QED
          BY <1>2, <1>3, <1>4, <3>1, <4>1
      <3>2. CASE \E m \in DOMAIN outer : StoredIn(outer[m].fins, key, fwdRed[key])
        BY <1>4, <3>2
      <3> QED
        BY <2>1, <2>2, <3>1, <3>2 DEF ForwardingByParts
    <2> QED
      BY <1>1, <1>2, <2>2, PropertiesByParts DEF ForwardingByParts
  <1>8. \A b : WritesOf(block', b) = {}
    BY <1>2 DEF WritesOf
  <1>9. UnwrittenUntilStored' /\ BindingsWriteNothing'
    BY <1>1, <1>2, <1>8 DEF UnwrittenUntilStored, BindingsWriteNothing, Idle
  <1>10. StoresPlaced'
    <2> SUFFICES ASSUME NEW o \in Outputs, written[o] # "no"
                 PROVE  \E m \in DOMAIN outer' : SectionWrites(outer'[m], o)
      BY <1>1 DEF StoresPlaced
    <2>1. \/ WritesOf(block, o) # {}
          \/ \E m \in DOMAIN outer : SectionWrites(outer[m], o)
          \/ WritesOf(fins, o) # {}
      BY DEF MemoryInv, StoresPlaced
    <2>2. CASE WritesOf(block, o) # {} \/ WritesOf(fins, o) # {}
      <3>1. block # <<>> \/ fins # <<>>
        BY <2>2 DEF WritesOf
      <3>2. block \in Seq(Stmt) /\ bindings \in Seq(Stmt)
        BY DEF MemoryInv, IInv, TypeOK
      <3>3. WritesOf(block, o) # {} => WritesOf(Flushed, o) # {}
        BY <3>2, WritesConcat DEF Flushed
      <3> QED
        BY <1>2, <1>3, <1>4, <2>2, <3>1, <3>3 DEF SectionWrites
    <2>3. CASE \E m \in DOMAIN outer : SectionWrites(outer[m], o)
      BY <1>4, <2>3
    <2> QED
      BY <2>1, <2>2, <2>3
  <1> QED
    BY <1>6, <1>7, <1>9, <1>10 DEF MemoryInv

(* The last phase is appended, and the handler is not used again.          *)
LEMMA FinishMemory ==
    ASSUME MemoryInv, IInv', Finish
    PROVE  MemoryInv'
  <1>1. /\ UNCHANGED <<child, block, bindings, fins, fwd, fwdRed, reads, written, notReady>>
        /\ outer' = outer \/ outer' = Append(outer, PhaseSection)
    BY DEF Finish, schedule, handler, phase
  <1> DEFINE N == Len(outer) + 1
  <1>2. /\ outer \in Seq(Section) /\ PhaseSection \in Section
        /\ PhaseSection.body = Flushed
        /\ N \in Nat /\ DOMAIN outer = 1..(N - 1)
    <2>1. PhaseSection.body = Flushed
      BY DEF PhaseSection
    <2> QED
      BY <2>1, PhaseSectionType, LenProperties DEF MemoryInv, IInv, TypeOK
  <1>3. /\ \A m \in DOMAIN outer : m \in DOMAIN outer' /\ outer'[m] = outer[m]
        /\ \A m \in DOMAIN outer' : m \in DOMAIN outer \/ (m = N /\ outer'[m] = PhaseSection)
        /\ Len(outer') + 1 \in Nat /\ N <= Len(outer') + 1
    BY <1>1, <1>2, AppendProperties, LenProperties
  <1>4. LoadsDefined'
    <2>1. LoadsByParts
      BY PropertiesByParts DEF MemoryInv
    <2>2. Provided' = Provided /\ Flushed' = Flushed
      BY <1>1 DEF Provided, RegionInputs, Flushed
    <2>3. ASSUME NEW n \in DOMAIN outer'
          PROVE  LoadsFollow(outer'[n].body, outer', n, Provided)
      <3>1. CASE n \in DOMAIN outer
        BY <1>2, <1>3, <2>1, <3>1 DEF LoadsByParts, LoadsFollow
      <3>2. CASE n = N /\ outer'[n] = PhaseSection
        BY <1>2, <1>3, <2>1, <3>2 DEF LoadsByParts, LoadsFollow
      <3> QED
        BY <1>3, <3>1, <3>2
    <2>4. LoadsFollow(Flushed, outer', Len(outer') + 1, Provided)
      BY <1>2, <1>3, <2>1 DEF LoadsByParts, LoadsFollow
    <2> QED
      BY <2>2, <2>3, <2>4, PropertiesByParts DEF LoadsByParts
  <1>5. ForwardingMatchesStores'
    <2>1. ForwardingByParts
      BY PropertiesByParts DEF MemoryInv
    <2>2. ForwardingByParts'
      BY <1>1, <1>3, <2>1 DEF ForwardingByParts
    <2> QED
      BY <2>2, PropertiesByParts
  <1>6. StoresPlaced'
    BY <1>1, <1>3 DEF MemoryInv, StoresPlaced
  <1>7. UnwrittenUntilStored' /\ BindingsWriteNothing'
    BY <1>1 DEF MemoryInv, UnwrittenUntilStored, BindingsWriteNothing
  <1> QED
    BY <1>4, <1>5, <1>6, <1>7 DEF MemoryInv

(* Steps that emit nothing: a forwarded load, the start of a child, an     *)
(* exception, and stuttering.                                              *)
LEMMA QuietMemory ==
    ASSUME MemoryInv, IInv',
           UNCHANGED <<outer, block, bindings, fins, fwd, fwdRed, reads, written, notReady>>,
           child'.mode # "idle" => written[child'.out] = "no"
    PROVE  MemoryInv'
  <1>1. Flushed' = Flushed /\ Provided' = Provided
    BY DEF Flushed, Provided, RegionInputs
  <1>2. LoadsDefined' /\ ForwardingMatchesStores'
    BY <1>1, PropertiesByParts DEF MemoryInv, LoadsByParts, ForwardingByParts
  <1>3. UnwrittenUntilStored' /\ BindingsWriteNothing' /\ StoresPlaced'
    BY DEF MemoryInv, UnwrittenUntilStored, BindingsWriteNothing, StoresPlaced
  <1> QED
    BY <1>2, <1>3 DEF MemoryInv

(* The invariant holds at first.                                           *)
LEMMA InitMemory == Init => MemoryInv
  <1> SUFFICES ASSUME Init PROVE MemoryInv
    OBVIOUS
  <1>1. /\ outer = <<>> /\ block = <<>> /\ bindings = <<>> /\ fins = <<>>
        /\ child = Idle /\ notReady = {}
        /\ \A o \in Outputs : written[o] = "no"
        /\ \A key \in Key : fwd[key] = None /\ fwdRed[key] = None
    BY DEF Init
  <1>2. Flushed = <<>>
    BY <1>1, ConcatEmptySeq, EmptySeq DEF Flushed
  <1>3. LoadsByParts /\ ForwardingByParts
    BY <1>1, <1>2 DEF LoadsByParts, LoadsFollow, ForwardingByParts
  <1>4. UnwrittenUntilStored /\ BindingsWriteNothing /\ StoresPlaced
    BY <1>1 DEF UnwrittenUntilStored, BindingsWriteNothing, StoresPlaced, Idle, WritesOf
  <1> QED
    BY <1>3, <1>4, InitInv, PropertiesByParts DEF MemoryInv

(* Every step keeps the invariant.                                         *)
LEMMA StepMemory == MemoryInv /\ [Next]_vars => MemoryInv'
  <1> SUFFICES ASSUME MemoryInv, [Next]_vars PROVE MemoryInv'
    OBVIOUS
  <1>0. IInv'
    BY StepInv DEF MemoryInv
  <1>1. ASSUME NEW o \in Outputs, StartChild(o) PROVE MemoryInv'
    <2>1. /\ UNCHANGED <<outer, block, bindings, fins, fwd, fwdRed, reads, written, notReady>>
          /\ written[o] = "no" /\ child'.out = o
      BY <1>1 DEF StartChild, Idle, schedule, handler, phase
    <2> QED
      BY <1>0, <2>1, QuietMemory
  <1>2. ASSUME NEW b \in Buf, NEW k \in Idx, LoadForwarded(b, k) PROVE MemoryInv'
    <2>1. /\ UNCHANGED <<outer, block, bindings, fins, fwd, fwdRed, reads, written, notReady>>
          /\ Returns(Forwarded(<<b, k>>))
      BY <1>2 DEF LoadForwarded, schedule, builder, handler, phase
    <2>2. child'.mode = child.mode /\ child'.out = child.out
      BY <2>1, ReturnsKeepsChild DEF MemoryInv, IInv
    <2> QED
      BY <1>0, <2>1, <2>2, QuietMemory DEF MemoryInv, UnwrittenUntilStored
  <1>3. ASSUME NEW b \in Buf, NEW k \in Idx, LoadMemory(b, k) PROVE MemoryInv'
    BY <1>0, <1>3, LoadMemoryDefined
  <1>4. ASSUME NEW is \in Positions(MaxArgs), Compute(is) PROVE MemoryInv'
    BY <1>0, <1>4, ComputeDefined
  <1>5. ASSUME NEW i \in DOMAIN child.vals, NEW k \in Idx,
               NEW op \in {"store", "atomic"}, Store(i, k, op)
        PROVE  MemoryInv'
    BY <1>0, <1>5, StoreForwards
  <1>6. ASSUME NEW i \in DOMAIN child.vals, Reduction(i) PROVE MemoryInv'
    BY <1>0, <1>6, ReductionMemory
  <1>7. ASSUME NEW k \in RowIdx, StoreReduction(k) PROVE MemoryInv'
    BY <1>0, <1>7, StoreReductionForwards
  <1>8. ASSUME NEW is \in Positions(MaxStates), is # <<>>, Scan(is) PROVE MemoryInv'
    BY <1>0, <1>8, ScanMemory
  <1>9. CASE DisableReduction
    BY <1>0, <1>9, MarkerMemory DEF DisableReduction
  <1>10. CASE EnableReduction
    BY <1>0, <1>10, MarkerMemory DEF EnableReduction
  <1>11. CASE Finish
    BY <1>0, <1>11, FinishMemory
  <1>12. CASE Raise \/ UNCHANGED vars
    <2>1. /\ UNCHANGED <<outer, block, bindings, fins, fwd, fwdRed, reads, written, notReady>>
          /\ child'.mode = "idle" \/ child' = child
      BY <1>12 DEF Raise, Fails, Idle, vars, schedule, builder, handler, phase
    <2> QED
      BY <1>0, <2>1, QuietMemory DEF MemoryInv, UnwrittenUntilStored
  <1>13. ASSUME NEW i \in DOMAIN child.vals, RaiseInReduction(i) PROVE MemoryInv'
    BY <1>0, <1>13, RaiseInReductionMemory
  <1> QED
    BY <1>1, <1>2, <1>3, <1>4, <1>5, <1>6, <1>7, <1>8, <1>9, <1>10, <1>11, <1>12, <1>13
       DEF Next, Stopped

(* The value forwarded to a load is the one the last store put at that     *)
(* address, for every schedule and every LoopBody: load never skips a      *)
(* memory access whose result would differ.                                *)
THEOREM ForwardingIsLastStore == Spec => []ForwardingMatchesStores
  <1>1. MemoryInv => ForwardingMatchesStores
    BY DEF MemoryInv
  <1> QED
    BY <1>1, InitMemory, StepMemory, PTL DEF Spec

(* Every load left in the region reads an input that the signature names,  *)
(* or a buffer that the region has written by then.                        *)
THEOREM LoadsAreDefined == Spec => []LoadsDefined
  <1>1. MemoryInv => LoadsDefined
    BY DEF MemoryInv
  <1> QED
    BY <1>1, InitMemory, StepMemory, PTL DEF Spec

-----------------------------------------------------------------------------
(* Names: the inductive invariant.  A name is a family and a number below  *)
(* the counter of its family; statements of a loop body use other families *)
(* than initializers.  Bindings count as part of the block they will be    *)
(* flushed into.                                                           *)

(* The names handed out so far, for statements and for initializers. *)
BodyNames == {<<"tmp", n>> : n \in 0..(count.tmp - 1)}
                \cup {<<"next", n>> : n \in 0..(count.scan - 1)}
InitNames == {<<"acc", n>> : n \in 0..(count.acc - 1)}
                \cup {<<"scan", n>> : n \in 0..(count.scan - 1)}

Names(seq) == {seq[i].dst : i \in {j \in DOMAIN seq : Declaring(seq[j])}}

Unique(seq) ==
    \A i, j \in DOMAIN seq :
        Declaring(seq[i]) /\ Declaring(seq[j]) /\ seq[i].dst = seq[j].dst => i = j

SectionNames(n) == Names(Declarations(outer[n]))

(* The open phase. *)
PhaseNamed ==
    /\ Names(Flushed) \subseteq BodyNames /\ Unique(Flushed)
    /\ Names(inits) \subseteq InitNames /\ Unique(inits)

(* The closed sections, among themselves and against the open phase, which *)
(* becomes the last of them when the region is done.                       *)
SectionsNamed ==
    /\ \A n \in DOMAIN outer :
          /\ SectionNames(n) \subseteq BodyNames \cup InitNames
          /\ Unique(Declarations(outer[n]))
          /\ \A m \in DOMAIN outer : m # n => SectionNames(n) \cap SectionNames(m) = {}
    /\ status # "done" =>
          \A n \in DOMAIN outer : SectionNames(n) \cap (Names(Flushed) \cup Names(inits)) = {}

NamesInv ==
    /\ IInv
    /\ status # "building" => child = Idle
    /\ PhaseNamed
    /\ SectionsNamed

(* Bodies and initializers never share a name.                             *)
LEMMA FamiliesDiffer == BodyNames \cap InitNames = {}
  BY DEF BodyNames, InitNames

-----------------------------------------------------------------------------
(* What concatenation does to names. *)

(* A concatenation declares what its parts declare. *)
LEMMA NamesConcat ==
    ASSUME NEW s \in Seq(Stmt), NEW t \in Seq(Stmt)
    PROVE  Names(s \o t) = Names(s) \cup Names(t)
  <1>1. Names(s) \cup Names(t) \subseteq Names(s \o t)
    <2>1. ASSUME NEW i \in DOMAIN s, Declaring(s[i])
          PROVE  s[i].dst \in Names(s \o t)
      <3>1. (s \o t)[i] = s[i] /\ i \in DOMAIN (s \o t)
        BY ConcatElements
      <3> QED
        BY <2>1, <3>1 DEF Names
    <2>2. ASSUME NEW i \in DOMAIN t, Declaring(t[i])
          PROVE  t[i].dst \in Names(s \o t)
      <3>1. (s \o t)[i + Len(s)] = t[i] /\ i + Len(s) \in DOMAIN (s \o t)
        BY ConcatElements
      <3> QED
        BY <2>2, <3>1 DEF Names
    <2> QED
      BY <2>1, <2>2 DEF Names
  <1>2. Names(s \o t) \subseteq Names(s) \cup Names(t)
    <2> SUFFICES ASSUME NEW i \in DOMAIN (s \o t), Declaring((s \o t)[i])
                 PROVE  (s \o t)[i].dst \in Names(s) \cup Names(t)
      BY DEF Names
    <2>1. CASE i \in DOMAIN s
      BY <2>1, ConcatElements DEF Names
    <2>2. CASE i \notin DOMAIN s
      BY <2>2, ConcatElements DEF Names
    <2> QED
      BY <2>1, <2>2
  <1> QED
    BY <1>1, <1>2

(* It does so once when they share no name. *)
LEMMA UniqueConcat ==
    ASSUME NEW s \in Seq(Stmt), NEW t \in Seq(Stmt), Unique(s), Unique(t),
           Names(s) \cap Names(t) = {}
    PROVE  Unique(s \o t)
  <1> DEFINE st == s \o t
  <1> SUFFICES ASSUME NEW i \in DOMAIN st, NEW j \in DOMAIN st,
                      Declaring(st[i]), Declaring(st[j]), st[i].dst = st[j].dst
               PROVE  i = j
    BY DEF Unique
  <1>1. \A h \in DOMAIN st :
           \/ h \in DOMAIN s /\ st[h] = s[h]
           \/ h \notin DOMAIN s /\ h - Len(s) \in DOMAIN t /\ st[h] = t[h - Len(s)]
    BY ConcatElements
  <1>2. CASE i \in DOMAIN s /\ j \in DOMAIN s
    BY <1>1, <1>2 DEF Unique
  <1>3. CASE i \notin DOMAIN s /\ j \notin DOMAIN s
    <2>1. i - Len(s) = j - Len(s)
      BY <1>1, <1>3 DEF Unique
    <2>2. i \in Int /\ j \in Int /\ Len(s) \in Int
      BY ConcatElements
    <2> QED
      BY <2>1, <2>2
  <1>4. CASE i \in DOMAIN s /\ j \notin DOMAIN s
    <2>1. st[i].dst \in Names(s) /\ st[j].dst \in Names(t)
      BY <1>1, <1>4 DEF Names
    <2> QED
      BY <2>1
  <1>5. CASE i \notin DOMAIN s /\ j \in DOMAIN s
    <2>1. st[i].dst \in Names(t) /\ st[j].dst \in Names(s)
      BY <1>1, <1>5 DEF Names
    <2> QED
      BY <2>1
  <1> QED
    BY <1>2, <1>3, <1>4, <1>5

(* A single statement.                                                     *)
LEMMA NamesOne ==
    ASSUME NEW x \in Stmt
    PROVE  /\ <<x>> \in Seq(Stmt) /\ Unique(<<x>>)
           /\ Names(<<x>>) = IF Declaring(x) THEN {x.dst} ELSE {}
  <1>1. <<x>> \in Seq(Stmt) /\ DOMAIN <<x>> = {1} /\ <<x>>[1] = x
    OBVIOUS
  <1> QED
    BY <1>1 DEF Unique, Names

(* No statement at all.                                                    *)
LEMMA NamesNone ==
    <<>> \in Seq(Stmt) /\ Unique(<<>>) /\ Names(<<>>) = {}
  BY EmptySeq DEF Unique, Names

-----------------------------------------------------------------------------
(* The inductive step. *)

(* The open phase grows by statements and initializers with fresh names.   *)
LEMMA ExtendNames ==
    ASSUME NamesInv, IInv', NEW t \in Seq(Stmt), NEW added \in Seq(Stmt),
           child.mode # "idle",
           Flushed' = Flushed \o t, inits' = inits \o added,
           UNCHANGED outer, UNCHANGED status \/ Fails,
           BodyNames \subseteq BodyNames', InitNames \subseteq InitNames',
           Unique(t), Names(t) \subseteq BodyNames' \ BodyNames,
           Unique(added), Names(added) \subseteq InitNames' \ InitNames
    PROVE  NamesInv'
  <1>1. Flushed \in Seq(Stmt) /\ inits \in Seq(Stmt)
    BY ConcatProperties DEF NamesInv, IInv, TypeOK, Flushed
  <1>2. /\ Names(Flushed') = Names(Flushed) \cup Names(t)
        /\ Names(inits') = Names(inits) \cup Names(added)
    BY <1>1, NamesConcat
  <1>3. Unique(Flushed') /\ Unique(inits')
    <2>1. Names(Flushed) \cap Names(t) = {} /\ Names(inits) \cap Names(added) = {}
      BY DEF NamesInv, PhaseNamed
    <2> QED
      BY <1>1, <2>1, UniqueConcat DEF NamesInv, PhaseNamed
  <1>4. PhaseNamed'
    BY <1>2, <1>3 DEF NamesInv, PhaseNamed
  <1>5. /\ status = "building" /\ status' # "done"
        /\ status' # "building" => child' = Idle
    BY DEF NamesInv, Idle, Fails
  <1>6. BodyNames' \cap InitNames' = {}
    BY DEF BodyNames, InitNames
  <1>7. SectionsNamed'
    <2>1. ASSUME NEW n \in DOMAIN outer
          PROVE  SectionNames(n) \cap (Names(Flushed') \cup Names(inits')) = {}
      <3>1. /\ SectionNames(n) \subseteq BodyNames \cup InitNames
            /\ SectionNames(n) \cap (Names(Flushed) \cup Names(inits)) = {}
        BY <1>5 DEF NamesInv, SectionsNamed
      <3>2. (Names(t) \cup Names(added)) \cap (BodyNames \cup InitNames) = {}
        BY <1>6
      <3> QED
        BY <1>2, <3>1, <3>2
    <2>2. \A n : SectionNames(n)' = SectionNames(n)
      BY DEF SectionNames
    <2> QED
      BY <2>1, <2>2 DEF NamesInv, SectionsNamed
  <1> QED
    BY <1>4, <1>5, <1>7 DEF NamesInv

(* A new temporary.                                                        *)
LEMMA BindNames ==
    ASSUME NamesInv, IInv', NEW x \in Stmt, x.op \in {"load", "calc"}, x.dst = NextTemp,
           child.mode # "idle",
           bindings' = Append(bindings, x),
           count' = [count EXCEPT !.tmp = @ + 1],
           UNCHANGED <<outer, status, block, inits>>
    PROVE  NamesInv'
  <1>1. /\ block \in Seq(Stmt) /\ bindings \in Seq(Stmt) /\ inits \in Seq(Stmt)
        /\ <<x>> \in Seq(Stmt) /\ count \in [tmp: Nat, acc: Nat, scan: Nat]
    BY DEF NamesInv, IInv, TypeOK
  <1>2. Flushed' = Flushed \o <<x>>
    <2>1. bindings' = bindings \o <<x>>
      BY <1>1, AppendIsConcat
    <2> QED
      BY <1>1, <2>1, ConcatAssociative DEF Flushed
  <1>3. inits' = inits \o <<>>
    BY <1>1, ConcatEmptySeq
  <1>4. count'.tmp = count.tmp + 1 /\ count'.acc = count.acc /\ count'.scan = count.scan
        /\ count.tmp \in Nat /\ count.scan \in Nat /\ count.acc \in Nat
    BY <1>1
  <1>5. BodyNames \subseteq BodyNames' /\ InitNames \subseteq InitNames'
    BY <1>4 DEF BodyNames, InitNames
  <1>6. NextTemp \in BodyNames' \ BodyNames
    BY <1>4 DEF BodyNames, NextTemp
  <1>7. Unique(<<x>>) /\ Names(<<x>>) \subseteq BodyNames' \ BodyNames
    BY <1>6, NamesOne
  <1> QED
    BY <1>1, <1>2, <1>3, <1>5, <1>7, NamesNone, ExtendNames

(* The block takes in the bindings, and statements that declare nothing.   *)
LEMMA FlushNames ==
    ASSUME NamesInv, IInv', NEW t \in Seq(Stmt), \A i \in DOMAIN t : ~Declaring(t[i]),
           child.mode # "idle",
           block' = Flushed \o t, bindings' = <<>>,
           UNCHANGED <<outer, status, inits, count>>
    PROVE  NamesInv'
  <1>1. Flushed \in Seq(Stmt) /\ inits \in Seq(Stmt) /\ block' \in Seq(Stmt)
    BY ConcatProperties DEF NamesInv, IInv, TypeOK, Flushed
  <1>2. Flushed' = Flushed \o t /\ inits' = inits \o <<>>
    BY <1>1, ConcatEmptySeq DEF Flushed
  <1>3. Unique(t) /\ Names(t) = {}
    BY DEF Unique, Names
  <1>4. BodyNames' = BodyNames /\ InitNames' = InitNames
    BY DEF BodyNames, InitNames
  <1> QED
    BY <1>2, <1>3, <1>4, NamesNone, ExtendNames

(* load and the scalar operations bind a new temporary.                    *)
LEMMA LoadMemoryNames ==
    ASSUME NamesInv, IInv', NEW b \in Buf, NEW k \in Idx, LoadMemory(b, k)
    PROVE  NamesInv'
  <1> DEFINE x == LoadOf(NextTemp, b, k)
  <1>1. x \in Stmt /\ x.op = "load" /\ x.dst = NextTemp
    <2>1. NextTemp \in Var
      BY DEF NamesInv, IInv, TypeOK, NextTemp, Var
    <2> QED
      BY <2>1, StatementTypes DEF LoadOf
  <1> HIDE DEF x
  <1>2. /\ bindings' = Append(bindings, x) /\ count' = [count EXCEPT !.tmp = @ + 1]
        /\ child.mode # "idle" /\ UNCHANGED <<outer, status, block, inits>>
    BY DEF LoadMemory, builder, x
  <1> QED
    BY <1>1, <1>2, BindNames

(* A scalar operation. *)
LEMMA ComputeNames ==
    ASSUME NamesInv, IInv', NEW is \in Positions(MaxArgs), Compute(is)
    PROVE  NamesInv'
  <1> DEFINE x == Local("calc", NextTemp, Operands(is))
  <1>1. x \in Stmt /\ x.op = "calc" /\ x.dst = NextTemp
    <2>1. NextTemp \in Var
      BY DEF NamesInv, IInv, TypeOK, NextTemp, Var
    <2>2. Operands(is) \in Seq(Var)
      BY OperandsType, BoundsAssumption DEF NamesInv, IInv
    <2> QED
      BY <2>1, <2>2, StatementTypes DEF Local, Op
  <1> HIDE DEF x
  <1>2. /\ bindings' = Append(bindings, x) /\ count' = [count EXCEPT !.tmp = @ + 1]
        /\ child.mode # "idle" /\ UNCHANGED <<outer, status, block, inits>>
    BY DEF Compute, builder, x
  <1> QED
    BY <1>1, <1>2, BindNames

(* store and store_reduction declare nothing.                              *)
LEMMA StoreNames ==
    ASSUME NamesInv, IInv', NEW i \in DOMAIN child.vals, NEW k \in Idx,
           NEW op \in {"store", "atomic"}, Store(i, k, op)
    PROVE  NamesInv'
  <1> DEFINE t == StoreStmts(op, child.out, k, child.vals[i])
  <1>1. /\ block' = Flushed \o t /\ bindings' = <<>>
        /\ child.mode # "idle" /\ UNCHANGED <<outer, status, inits, count>>
    BY DEF Store, builder
  <1>2. t \in Seq(Stmt)
    <2>1. child.out \in Outputs /\ child.vals[i] \in Var
      BY <1>1 DEF NamesInv, IInv, TypeOK, ChildOK
    <2> QED
      BY <2>1, StatementTypes DEF Buf
  <1>3. \A j \in DOMAIN t : ~Declaring(t[j])
    BY DEF StoreStmts, StoreTo, Declaring
  <1> QED
    BY <1>1, <1>2, <1>3, FlushNames

(* store_reduction. *)
LEMMA StoreReductionNames ==
    ASSUME NamesInv, IInv', NEW k \in RowIdx, StoreReduction(k)
    PROVE  NamesInv'
  <1>1. /\ block' = Flushed /\ bindings' = <<>>
        /\ child.mode # "idle" /\ UNCHANGED <<outer, status, inits, count>>
    BY DEF StoreReduction, builder
  <1>2. block' = Flushed \o <<>> /\ <<>> \in Seq(Stmt)
    <2>1. Flushed \in Seq(Stmt)
      BY ConcatProperties DEF NamesInv, IInv, TypeOK, Flushed
    <2> QED
      BY <1>1, <2>1, ConcatEmptySeq, EmptySeq
  <1>3. \A i \in DOMAIN <<>> : ~Declaring(<<>>[i])
    OBVIOUS
  <1> QED
    BY <1>1, <1>2, <1>3, FlushNames

(* reduction declares one accumulator.                                     *)
LEMMA ReductionNames ==
    ASSUME NamesInv, IInv', NEW i \in DOMAIN child.vals, Reduction(i)
    PROVE  NamesInv'
  <1> DEFINE acc == <<"acc", count.acc>>
             ini == Local("init", acc, <<>>)
             x == Local("update", acc, <<child.vals[i]>>)
  <1>1. /\ block' = Append(Flushed, x) /\ bindings' = <<>> /\ inits' = Append(inits, ini)
        /\ count' = [count EXCEPT !.acc = @ + 1]
        /\ child.mode # "idle" /\ UNCHANGED <<outer, status>>
    BY DEF Reduction, builder
  <1>2. /\ count.acc \in Nat /\ child.vals \in Seq(Var) /\ child.vals[i] \in Var
        /\ inits \in Seq(Stmt) /\ Flushed \in Seq(Stmt)
        /\ count \in [tmp: Nat, acc: Nat, scan: Nat]
    BY ConcatProperties, SMTT(60) DEF NamesInv, IInv, TypeOK, ChildOK, Flushed
  <1>3. acc \in Var
    BY <1>2 DEF Var
  <1>4. acc \in InitNames' \ InitNames
    BY <1>1, <1>2 DEF InitNames
  <1>5. BodyNames \subseteq BodyNames' /\ InitNames \subseteq InitNames'
    BY <1>1, <1>2 DEF BodyNames, InitNames
  <1> HIDE DEF acc
  <1>6. /\ ini \in Stmt /\ ini.op = "init" /\ ini.dst = acc
        /\ x \in Stmt /\ x.op = "update"
    <2>1. <<>> \in Seq(Var) /\ <<child.vals[i]>> \in Seq(Var)
      BY <1>2
    <2> QED
      BY <1>2, <1>3, <2>1, StatementTypes DEF Op, Local
  <1> HIDE DEF ini, x
  <1>7. /\ <<ini>> \in Seq(Stmt) /\ Unique(<<ini>>) /\ Names(<<ini>>) = {acc}
        /\ <<x>> \in Seq(Stmt) /\ Unique(<<x>>) /\ Names(<<x>>) = {}
    BY <1>6, NamesOne DEF Declaring
  <1>8. inits' = inits \o <<ini>> /\ block' = Flushed \o <<x>> /\ block' \in Seq(Stmt)
    <2>1. inits' = inits \o <<ini>> /\ block' = Flushed \o <<x>>
      BY <1>1, <1>2, <1>6, AppendIsConcat
    <2> QED
      BY <1>2, <1>7, <2>1, ConcatProperties
  <1>9. Flushed' = Flushed \o <<x>>
    BY <1>1, <1>8, ConcatEmptySeq DEF Flushed
  <1> QED
    BY <1>1, <1>4, <1>5, <1>7, <1>8, <1>9, ExtendNames

(* reduction raises with its accumulator declared.                         *)
LEMMA RaiseInReductionNames ==
    ASSUME NamesInv, IInv', NEW i \in DOMAIN child.vals, RaiseInReduction(i)
    PROVE  NamesInv'
  <1> DEFINE acc == <<"acc", count.acc>>
             ini == Local("init", acc, <<>>)
  <1>1. /\ block' = Flushed /\ bindings' = <<>> /\ inits' = Append(inits, ini)
        /\ count' = [count EXCEPT !.acc = @ + 1]
        /\ child.mode # "idle" /\ UNCHANGED outer /\ Fails
    BY DEF RaiseInReduction
  <1>2. /\ count.acc \in Nat /\ inits \in Seq(Stmt) /\ Flushed \in Seq(Stmt)
        /\ count \in [tmp: Nat, acc: Nat, scan: Nat]
    BY ConcatProperties DEF NamesInv, IInv, TypeOK, Flushed
  <1>3. acc \in Var
    BY <1>2 DEF Var
  <1>4. acc \in InitNames' \ InitNames
    BY <1>1, <1>2 DEF InitNames
  <1>5. BodyNames \subseteq BodyNames' /\ InitNames \subseteq InitNames'
    BY <1>1, <1>2 DEF BodyNames, InitNames
  <1> HIDE DEF acc
  <1>6. ini \in Stmt /\ ini.op = "init" /\ ini.dst = acc
    BY <1>3, EmptySeq, StatementTypes DEF Op, Local
  <1> HIDE DEF ini
  <1>7. <<ini>> \in Seq(Stmt) /\ Unique(<<ini>>) /\ Names(<<ini>>) = {acc}
    BY <1>6, NamesOne DEF Declaring
  <1>8. inits' = inits \o <<ini>> /\ Flushed' = Flushed \o <<>>
    BY <1>1, <1>2, <1>6, AppendIsConcat, ConcatEmptySeq DEF Flushed
  <1>9. <<>> \in Seq(Stmt) /\ Unique(<<>>) /\ Names(<<>>) = {}
    BY NamesNone, EmptySeq
  <1> QED
    BY <1>1, <1>4, <1>5, <1>7, <1>8, <1>9, ExtendNames

(* scan declares a state, a temporary and a selected value for each of its *)
(* operands.                                                               *)
LEMMA ScanNames ==
    ASSUME NamesInv, IInv', NEW is \in Positions(MaxStates), is # <<>>, Scan(is)
    PROVE  NamesInv'
  <1> DEFINE values == Operands(is)
             u == ScanUpdate(values)
             n == Len(values)
             state(j) == <<"scan", count.scan + j - 1>>
             next(j) == <<"next", count.scan + j - 1>>
             temp(j) == <<"tmp", count.tmp + j - 1>>
  <1>1. /\ block' = Flushed \o ScanStmts(u) /\ bindings' = <<>>
        /\ inits' = inits \o u.inits
        /\ count' = [count EXCEPT !.tmp = @ + Len(is), !.scan = @ + Len(is)]
        /\ child.mode # "idle" /\ UNCHANGED <<outer, status>>
    BY DEF Scan, builder
  <1>2. values \in Seq(Var) /\ values # <<>> /\ n = Len(is) /\ n \in Nat
    BY OperandsType, BoundsAssumption DEF NamesInv, IInv
  <1>3. /\ count.tmp \in Nat /\ count.scan \in Nat /\ count.acc \in Nat
        /\ count \in [tmp: Nat, acc: Nat, scan: Nat]
        /\ Flushed \in Seq(Stmt)
    BY ConcatProperties DEF NamesInv, IInv, TypeOK, Flushed
  <1>4. /\ u.inits \in Seq(Stmt) /\ Len(u.inits) = n
        /\ u.combines \in Seq(Stmt) /\ Len(u.combines) = n
        /\ u.picks \in Seq(Stmt) /\ Len(u.picks) = n
        /\ u.moves \in Seq(Stmt) /\ Len(u.moves) = n
    <2>1. TypeOK
      BY DEF NamesInv, IInv
    <2>2. /\ u.inits \in [1..n -> Stmt] /\ u.combines \in [1..n -> Stmt]
          /\ u.picks \in [1..n -> Stmt] /\ u.moves \in [1..n -> Stmt]
      BY <1>2, <2>1, ScanUpdateType
    <2> HIDE DEF u, n
    <2> QED
      BY <1>2, <2>2, FunctionIsSeq
  <1>5. \A j \in 1..n :
          /\ u.inits[j].op = "uninit" /\ u.inits[j].dst = state(j)
          /\ u.combines[j].op = "combine" /\ u.combines[j].dst = temp(j)
          /\ u.picks[j].op = "pick" /\ u.picks[j].dst = next(j)
          /\ u.moves[j].op = "move"
    BY LocalFields DEF ScanUpdate
  <1>6. /\ \A j \in 1..n : /\ state(j) \in InitNames' \ InitNames
                          /\ temp(j) \in BodyNames' \ BodyNames
                          /\ next(j) \in BodyNames' \ BodyNames
        /\ BodyNames \subseteq BodyNames' /\ InitNames \subseteq InitNames'
    <2>1. /\ count'.tmp = count.tmp + n /\ count'.scan = count.scan + n
          /\ count'.acc = count.acc
      BY <1>1, <1>2, <1>3
    <2> HIDE DEF n
    <2>2. BodyNames \subseteq BodyNames' /\ InitNames \subseteq InitNames'
      BY <1>2, <1>3, <2>1 DEF BodyNames, InitNames
    <2>3. ASSUME NEW j \in 1..n
          PROVE  /\ state(j) \in InitNames' /\ state(j) \notin InitNames
                 /\ temp(j) \in BodyNames' /\ temp(j) \notin BodyNames
                 /\ next(j) \in BodyNames' /\ next(j) \notin BodyNames
      <3>1. /\ count.scan + j - 1 \in 0..(count'.scan - 1)
            /\ count.scan + j - 1 \notin 0..(count.scan - 1)
            /\ count.tmp + j - 1 \in 0..(count'.tmp - 1)
            /\ count.tmp + j - 1 \notin 0..(count.tmp - 1)
        BY <1>2, <1>3, <2>1
      <3>2. state(j) \in InitNames' /\ state(j) \notin InitNames
        BY <3>1 DEF InitNames
      <3>3. temp(j) \in BodyNames' /\ temp(j) \notin BodyNames
        BY <3>1 DEF BodyNames
      <3>4. next(j) \in BodyNames' /\ next(j) \notin BodyNames
        BY <3>1 DEF BodyNames
      <3> QED
        BY <3>2, <3>3, <3>4
    <2> QED
      BY <2>2, <2>3
  <1>7. \A i, j \in 1..n : /\ state(i) = state(j) => i = j
                           /\ temp(i) = temp(j) => i = j
                           /\ next(i) = next(j) => i = j
                           /\ temp(i) # next(j)
    <2> HIDE DEF n
    <2> QED
      BY <1>2, <1>3
  <1> HIDE DEF u, values, n, state, next, temp
  <1>d. /\ DOMAIN u.inits = 1..n /\ DOMAIN u.combines = 1..n
        /\ DOMAIN u.picks = 1..n /\ DOMAIN u.moves = 1..n
    BY <1>4, LenProperties
  <1>8. Unique(u.inits) /\ Names(u.inits) \subseteq InitNames' \ InitNames
    <2>1. Unique(u.inits)
      BY <1>d, <1>5, <1>7 DEF Unique
    <2> QED
      BY <1>d, <1>5, <1>6, <2>1 DEF Names
  <1>9. Unique(u.combines) /\ \A v \in Names(u.combines) : \E j \in 1..n : v = temp(j)
    <2>1. Unique(u.combines)
      BY <1>d, <1>5, <1>7 DEF Unique
    <2> QED
      BY <1>d, <1>5, <2>1 DEF Names
  <1>10. Unique(u.picks) /\ \A v \in Names(u.picks) : \E j \in 1..n : v = next(j)
    <2>1. Unique(u.picks)
      BY <1>d, <1>5, <1>7 DEF Unique
    <2> QED
      BY <1>d, <1>5, <2>1 DEF Names
  <1>11. Unique(u.moves) /\ Names(u.moves) = {}
    BY <1>d, <1>5 DEF Unique, Names, Declaring
  <1> DEFINE cp == u.combines \o u.picks
  <1>12. /\ cp \in Seq(Stmt) /\ Unique(cp)
         /\ Names(cp) \subseteq BodyNames' \ BodyNames
    <2>1. Names(u.combines) \cap Names(u.picks) = {}
      BY <1>7, <1>9, <1>10
    <2>2. Names(cp) = Names(u.combines) \cup Names(u.picks)
      BY <1>4, NamesConcat
    <2>3. Names(cp) \subseteq BodyNames' \ BodyNames
      BY <1>6, <1>9, <1>10, <2>2
    <2> QED
      BY <1>4, <1>9, <1>10, <2>1, <2>3, UniqueConcat, ConcatProperties
  <1> HIDE DEF cp
  <1>13. /\ ScanStmts(u) \in Seq(Stmt) /\ Unique(ScanStmts(u))
         /\ Names(ScanStmts(u)) \subseteq BodyNames' \ BodyNames
    <2>1. ScanStmts(u) = cp \o u.moves
      BY DEF ScanStmts, cp
    <2> QED
      BY <1>4, <1>11, <1>12, <2>1, NamesConcat, UniqueConcat, ConcatProperties
  <1>14. Flushed' = Flushed \o ScanStmts(u)
    <2>1. block' \in Seq(Stmt)
      BY <1>1, <1>3, <1>13, ConcatProperties
    <2> QED
      BY <1>1, <2>1, ConcatEmptySeq DEF Flushed
  <1> QED
    BY <1>1, <1>4, <1>6, <1>8, <1>13, <1>14, ExtendNames

(* What a closed phase declares: what the open one did.                    *)
LEMMA PhaseDeclarations ==
    ASSUME NamesInv
    PROVE  /\ PhaseSection \in Section
           /\ Names(Declarations(PhaseSection)) = Names(Flushed) \cup Names(inits)
           /\ Unique(Declarations(PhaseSection))
  <1>1. /\ PhaseSection.body = Flushed /\ PhaseSection.inits = inits
        /\ PhaseSection \in Section /\ Flushed \in Seq(Stmt) /\ inits \in Seq(Stmt)
    <2>1. PhaseSection.inits = inits
      BY DEF PhaseSection, NamesInv, IInv, PhaseFollowsSchedule, InLoop
    <2>2. PhaseSection.body = Flushed
      BY DEF PhaseSection
    <2> QED
      BY <2>1, <2>2, PhaseSectionType DEF NamesInv, IInv, TypeOK
  <1>2. Names(inits) \cap Names(Flushed) = {}
    BY FamiliesDiffer DEF NamesInv, PhaseNamed
  <1>3. Names(inits \o Flushed) = Names(Flushed) \cup Names(inits)
    BY <1>1, NamesConcat
  <1>4. Unique(inits \o Flushed)
    BY <1>1, <1>2, UniqueConcat DEF NamesInv, PhaseNamed
  <1> QED
    BY <1>1, <1>3, <1>4 DEF Declarations

(* The sections after the open phase has been appended to them.            *)
LEMMA SectionNamed ==
    ASSUME NamesInv, status # "done", outer' = Append(outer, PhaseSection),
           BodyNames' = BodyNames, InitNames' = InitNames
    PROVE  \A n \in DOMAIN outer' :
              /\ SectionNames(n)' \subseteq BodyNames' \cup InitNames'
              /\ Unique(Declarations(outer'[n]))
              /\ \A m \in DOMAIN outer' : m # n => SectionNames(n)' \cap SectionNames(m)' = {}
  <1> DEFINE N == Len(outer) + 1
  <1>1. /\ \A n \in DOMAIN outer' : (n \in DOMAIN outer /\ outer'[n] = outer[n])
                                  \/ (n = N /\ outer'[n] = PhaseSection)
    BY PhaseDeclarations, AppendProperties, LenProperties DEF NamesInv, IInv, TypeOK
  <1>2. \A n \in DOMAIN outer' :
           \/ n \in DOMAIN outer /\ SectionNames(n)' = SectionNames(n)
                                /\ outer'[n] = outer[n]
           \/ n = N /\ SectionNames(n)' = Names(Flushed) \cup Names(inits)
                    /\ outer'[n] = PhaseSection
    BY <1>1, PhaseDeclarations DEF SectionNames
  <1>3. \A n \in DOMAIN outer : SectionNames(n) \cap (Names(Flushed) \cup Names(inits)) = {}
    BY DEF NamesInv, SectionsNamed
  <1>4. Names(Flushed) \cup Names(inits) \subseteq BodyNames \cup InitNames
    BY DEF NamesInv, PhaseNamed
  <1> SUFFICES ASSUME NEW n \in DOMAIN outer'
               PROVE  /\ SectionNames(n)' \subseteq BodyNames' \cup InitNames'
                      /\ Unique(Declarations(outer'[n]))
                      /\ \A m \in DOMAIN outer' :
                            m # n => SectionNames(n)' \cap SectionNames(m)' = {}
    OBVIOUS
  <1>5. SectionNames(n)' \subseteq BodyNames' \cup InitNames'
    BY <1>2, <1>4 DEF NamesInv, SectionsNamed
  <1>6. Unique(Declarations(outer'[n]))
    BY <1>2, PhaseDeclarations DEF NamesInv, SectionsNamed
  <1>7. ASSUME NEW m \in DOMAIN outer', m # n
        PROVE  SectionNames(n)' \cap SectionNames(m)' = {}
    <2>1. CASE n = N \/ m = N
      BY <1>2, <1>3, <1>7, <2>1
    <2>2. CASE n # N /\ m # N
      BY <1>2, <1>7, <2>2 DEF NamesInv, SectionsNamed
    <2> QED
      BY <2>1, <2>2
  <1> QED
    BY <1>5, <1>6, <1>7

(* A marker starts a phase that has declared nothing.                      *)
LEMMA MarkerNames ==
    ASSUME NamesInv, IInv', Marker, NextPhase(enabled')
    PROVE  NamesInv'
  <1>1. child' = Idle /\ status = "building" /\ UNCHANGED <<count, status>>
    BY DEF Marker
  <1>2. BodyNames' = BodyNames /\ InitNames' = InitNames
    BY <1>1 DEF BodyNames, InitNames
  <1>3. CASE opened
    <2>1. /\ outer' = Append(outer, PhaseSection)
          /\ block' = <<>> /\ bindings' = <<>> /\ inits' = <<>>
      BY <1>3 DEF NextPhase, EntersNewPhase
    <2>2. Flushed' = <<>> /\ Names(Flushed') = {} /\ Names(inits') = {}
      BY <2>1, NamesNone, ConcatEmptySeq DEF Flushed
    <2>3. PhaseNamed'
      BY <2>1, <2>2, NamesNone DEF PhaseNamed
    <2>4. SectionsNamed'
      BY <1>1, <1>2, <2>1, <2>2, SectionNamed DEF SectionsNamed
    <2> QED
      BY <1>1, <2>3, <2>4 DEF NamesInv
  <1>4. CASE ~opened
    <2>1. UNCHANGED <<outer, block, bindings, inits>>
      BY <1>4 DEF NextPhase, EntersNewPhase, phase
    <2>2. Flushed' = Flushed /\ \A n : SectionNames(n)' = SectionNames(n)
      BY <2>1 DEF Flushed, SectionNames
    <2> QED
      BY <1>1, <1>2, <2>1, <2>2 DEF NamesInv, PhaseNamed, SectionsNamed
  <1> QED
    BY <1>3, <1>4

(* The last phase becomes a section, and the region is done.               *)
LEMMA FinishNames ==
    ASSUME NamesInv, IInv', Finish
    PROVE  NamesInv'
  <1>1. /\ UNCHANGED <<child, block, bindings, inits, count>> /\ child = Idle
        /\ status = "building" /\ status' = "done"
        /\ outer' = IF opened THEN Append(outer, PhaseSection) ELSE outer
    BY DEF Finish, handler, phase
  <1>2. /\ BodyNames' = BodyNames /\ InitNames' = InitNames /\ Flushed' = Flushed
    BY <1>1 DEF BodyNames, InitNames, Flushed
  <1>3. SectionsNamed'
    <2>1. CASE opened
      BY <1>1, <1>2, <2>1, SectionNamed DEF SectionsNamed
    <2>2. CASE ~opened
      <3>1. \A n : SectionNames(n)' = SectionNames(n)
        BY <1>1, <2>2 DEF SectionNames
      <3> QED
        BY <1>1, <1>2, <2>2, <3>1 DEF NamesInv, SectionsNamed
    <2> QED
      BY <2>1, <2>2
  <1> QED
    BY <1>1, <1>2, <1>3 DEF NamesInv, PhaseNamed

(* Steps that emit nothing.                                                *)
LEMMA QuietNames ==
    ASSUME NamesInv, IInv', UNCHANGED <<outer, block, bindings, inits, count>>,
           status' # "building" => child' = Idle,
           status = "done" <=> status' = "done"
    PROVE  NamesInv'
  <1>1. /\ BodyNames' = BodyNames /\ InitNames' = InitNames /\ Flushed' = Flushed
        /\ \A n : SectionNames(n)' = SectionNames(n)
    BY DEF BodyNames, InitNames, Flushed, SectionNames
  <1> QED
    BY <1>1 DEF NamesInv, PhaseNamed, SectionsNamed

(* The invariant holds at first.                                           *)
LEMMA InitNamesInv == Init => NamesInv
  <1> SUFFICES ASSUME Init PROVE NamesInv
    OBVIOUS
  <1>1. /\ outer = <<>> /\ block = <<>> /\ bindings = <<>> /\ inits = <<>>
        /\ status = "building"
    BY DEF Init
  <1>2. Flushed = <<>>
    BY <1>1, ConcatEmptySeq, EmptySeq DEF Flushed
  <1>3. PhaseNamed /\ SectionsNamed
    BY <1>1, <1>2, NamesNone DEF PhaseNamed, SectionsNamed
  <1> QED
    BY <1>1, <1>3, InitInv DEF NamesInv

(* Every step keeps the invariant.                                         *)
LEMMA StepNames == NamesInv /\ [Next]_vars => NamesInv'
  <1> SUFFICES ASSUME NamesInv, [Next]_vars PROVE NamesInv'
    OBVIOUS
  <1>0. IInv'
    BY StepInv DEF NamesInv
  <1>1. ASSUME NEW o \in Outputs, StartChild(o) PROVE NamesInv'
    <2>1. UNCHANGED <<outer, block, bindings, inits, count, status>> /\ status = "building"
      BY <1>1 DEF StartChild, handler, phase
    <2> QED
      BY <1>0, <2>1, QuietNames
  <1>2. ASSUME NEW b \in Buf, NEW k \in Idx, LoadForwarded(b, k) PROVE NamesInv'
    <2>1. UNCHANGED <<outer, block, bindings, inits, count, status>> /\ child.mode # "idle"
      BY <1>2 DEF LoadForwarded, builder, handler, phase
    <2>2. status = "building"
      BY <2>1 DEF NamesInv, Idle
    <2> QED
      BY <1>0, <2>1, <2>2, QuietNames
  <1>3. ASSUME NEW b \in Buf, NEW k \in Idx, LoadMemory(b, k) PROVE NamesInv'
    BY <1>0, <1>3, LoadMemoryNames
  <1>4. ASSUME NEW is \in Positions(MaxArgs), Compute(is) PROVE NamesInv'
    BY <1>0, <1>4, ComputeNames
  <1>5. ASSUME NEW i \in DOMAIN child.vals, NEW k \in Idx,
               NEW op \in {"store", "atomic"}, Store(i, k, op)
        PROVE  NamesInv'
    BY <1>0, <1>5, StoreNames
  <1>6. ASSUME NEW i \in DOMAIN child.vals, Reduction(i) PROVE NamesInv'
    BY <1>0, <1>6, ReductionNames
  <1>7. ASSUME NEW k \in RowIdx, StoreReduction(k) PROVE NamesInv'
    BY <1>0, <1>7, StoreReductionNames
  <1>8. ASSUME NEW is \in Positions(MaxStates), is # <<>>, Scan(is) PROVE NamesInv'
    BY <1>0, <1>8, ScanNames
  <1>9. CASE DisableReduction
    BY <1>0, <1>9, MarkerNames DEF DisableReduction
  <1>10. CASE EnableReduction
    BY <1>0, <1>10, MarkerNames DEF EnableReduction
  <1>11. CASE Finish
    BY <1>0, <1>11, FinishNames
  <1>12. CASE Raise
    <2>1. /\ UNCHANGED <<outer, block, bindings, inits, count>>
          /\ child' = Idle /\ child # Idle /\ status' = "failed"
      BY <1>12 DEF Raise, Fails, handler, phase
    <2>2. status # "done"
      BY <2>1 DEF NamesInv
    <2> QED
      BY <1>0, <2>1, <2>2, QuietNames
  <1>13. CASE UNCHANGED vars
    <2>1. UNCHANGED <<outer, block, bindings, inits, count, status, child>>
      BY <1>13 DEF vars, builder, handler, phase
    <2> QED
      BY <1>0, <2>1, QuietNames DEF NamesInv
  <1>14. ASSUME NEW i \in DOMAIN child.vals, RaiseInReduction(i) PROVE NamesInv'
    BY <1>0, <1>14, RaiseInReductionNames
  <1> QED
    BY <1>1, <1>2, <1>3, <1>4, <1>5, <1>6, <1>7, <1>8, <1>9, <1>10, <1>11, <1>12, <1>13, <1>14
       DEF Next, Stopped

(* The sections of the region, the open phase last, declare every name at  *)
(* one place only.                                                         *)
LEMMA NamesAreUnique == NamesInv => DeclaredOnce
  <1> SUFFICES ASSUME NamesInv PROVE DeclaredOnce
    OBVIOUS
  <1>1. \A n \in DOMAIN Region :
          /\ Unique(Declarations(Region[n]))
          /\ \A m \in DOMAIN Region :
                m # n => Names(Declarations(Region[n])) \cap Names(Declarations(Region[m])) = {}
    <2>1. CASE status = "done"
      BY <2>1 DEF Region, NamesInv, SectionsNamed, SectionNames
    <2>2. CASE status # "done"
      <3>1. \A n \in DOMAIN Region : \/ n \in DOMAIN outer /\ Region[n] = outer[n]
                                     \/ n = Len(outer) + 1 /\ Region[n] = PhaseSection
        BY <2>2, PhaseDeclarations, AppendProperties, LenProperties
           DEF Region, NamesInv, IInv, TypeOK
      <3>2. \A n \in DOMAIN outer :
               SectionNames(n) \cap Names(Declarations(PhaseSection)) = {}
        BY <2>2, PhaseDeclarations DEF NamesInv, SectionsNamed
      <3> SUFFICES ASSUME NEW n \in DOMAIN Region
                   PROVE  /\ Unique(Declarations(Region[n]))
                          /\ \A m \in DOMAIN Region : m # n =>
                                Names(Declarations(Region[n]))
                                   \cap Names(Declarations(Region[m])) = {}
        OBVIOUS
      <3>3. Unique(Declarations(Region[n]))
        BY <3>1, PhaseDeclarations DEF NamesInv, SectionsNamed
      <3>4. ASSUME NEW m \in DOMAIN Region, m # n
            PROVE  Names(Declarations(Region[n])) \cap Names(Declarations(Region[m])) = {}
        <4>1. CASE n \in DOMAIN outer /\ m \in DOMAIN outer
                     /\ Region[n] = outer[n] /\ Region[m] = outer[m]
          BY <3>4, <4>1 DEF NamesInv, SectionsNamed, SectionNames
        <4>2. CASE Region[n] = PhaseSection /\ m \in DOMAIN outer /\ Region[m] = outer[m]
          BY <3>2, <4>2 DEF SectionNames
        <4>3. CASE Region[m] = PhaseSection /\ n \in DOMAIN outer /\ Region[n] = outer[n]
          BY <3>2, <4>3 DEF SectionNames
        <4> QED
          BY <3>1, <3>4, <4>1, <4>2, <4>3
      <3> QED
        BY <3>3, <3>4
    <2> QED
      BY <2>1, <2>2
  <1>2. ASSUME NEW n \in DOMAIN Region, NEW m \in DOMAIN Region,
               NEW i \in DOMAIN Declarations(Region[n]),
               NEW j \in DOMAIN Declarations(Region[m]),
               Declaring(Declarations(Region[n])[i]), Declaring(Declarations(Region[m])[j]),
               Declarations(Region[n])[i].dst = Declarations(Region[m])[j].dst
        PROVE  n = m /\ i = j
    <2>1. /\ Declarations(Region[n])[i].dst \in Names(Declarations(Region[n]))
          /\ Declarations(Region[m])[j].dst \in Names(Declarations(Region[m]))
      BY <1>2 DEF Names
    <2>2. n = m
      BY <1>1, <1>2, <2>1
    <2> QED
      BY <1>1, <1>2, <2>2 DEF Unique
  <1> QED
    BY <1>2 DEF DeclaredOnce

(* No local is declared twice in a region, in one phase or in two, by one  *)
(* LoopBody or by several, however many children and markers it has.       *)
THEOREM NamesDeclaredOnce == Spec => []DeclaredOnce
  BY InitNamesInv, StepNames, NamesAreUnique, PTL DEF Spec

(* Both ways of raising end the building of the region.                    *)
LEMMA RaisingFails ==
    (Raise \/ \E i \in DOMAIN child.vals : RaiseInReduction(i)) => Fails
  BY DEF Raise, RaiseInReduction

=============================================================================
