-------------------------- MODULE PostLoweringProofs --------------------------
(***************************************************************************)
(* Proofs about PostLowering: its signatures name what its bodies load, up *)
(* to the listed exceptions, its names resolve, and its returns are the    *)
(* graph's outputs.                                                        *)
(***************************************************************************)
EXTENDS PostLowering, FiniteSetTheorems, SequenceTheorems, TLAPS

-----------------------------------------------------------------------------
(* The inductive invariant. *)

Buffers == Inputs \cup {Name(i) : i \in Nat}
AllNames == Buffers \cup {Display(n) : n \in Buffers} \cup {ViewName(i) : i \in Nat}

OperationType ==
    {op \in [kind: Kinds, data: SUBSET Buffers, seeds: SUBSET Buffers,
             target: Targets \cup {None}, declared: SUBSET Buffers] :
        /\ op.declared \subseteq op.data \cup op.seeds
        /\ op.kind # "scan" => op.declared = op.data \cup op.seeds}
OutputType == [kind: {"view", "buffer", "value"}, of: Buffers \cup {None}]
RegionType == [kind: {"operation", "fused", "opaque", "view"}, ops: SUBSET Nat,
               ins: SUBSET AllNames, outs: SUBSET AllNames, loads: SUBSET AllNames]

(* The names a graph of n operations defines. *)
Defined(n) == Inputs \cup {Name(i) : i \in 1..n}

(* The graph: an operation reads what is defined before it, an output is   *)
(* one of the graph's buffers.                                             *)
GraphKnown ==
    /\ mode \in {"operations", "nodes"}
    /\ operations \in Seq(OperationType)
    /\ outputs \in Seq(OutputType)
    /\ \A i \in DOMAIN operations : Reads(operations[i]) \subseteq Defined(i - 1)
    /\ \A k \in DOMAIN outputs :
          IF outputs[k].kind = "value" THEN outputs[k].of = None
          ELSE outputs[k].of \in Defined(Len(operations))
    /\ DOMAIN value = Defined(Len(operations))

(* How far the program is: the graph is complete when the first region is  *)
(* printed, the regions are complete when the outputs are gone through.    *)
ProgramGrows ==
    /\ printed \subseteq DOMAIN operations
    /\ running \subseteq printed
    /\ regions \in Seq(RegionType)
    /\ viewed \in 0..Len(outputs)
    /\ outputs # <<>> => operations # <<>>
    /\ outputs = <<>> => printed = {}
    /\ printed = {} => regions = <<>>
    /\ viewed > 0 => printed = DOMAIN operations /\ running = {}
    /\ returns # <<>> => outputs # <<>> /\ viewed = Len(outputs)

(* What is printed is closed under what it reads, in both orders.          *)
ReadsPrinted(S, T) ==
    \A i \in S : \A m \in Nat : Name(m) \in Reads(operations[i]) => m \in T
PrintedInOrder ==
    /\ mode = "operations" => \E n \in Nat : printed = 1..n
    /\ ReadsPrinted(printed, printed)

(* A printed operation's buffer has a region, which names it or has no     *)
(* rendering.                                                              *)
Provides(r) == r.outs \cup (IF r.kind = "opaque" THEN {Name(i) : i \in r.ops} ELSE {})
PrintedProvided ==
    \A i \in printed : \E k \in DOMAIN regions : Name(i) \in Provides(regions[k])

PrintInv == GraphKnown /\ ProgramGrows /\ PrintedInOrder /\ PrintedProvided

(* Values.  The printed program reads inputs as they were, whatever was    *)
(* written through an alias.                                               *)
Reading(v) == [n \in DOMAIN v |-> IF n \in Inputs THEN Original(n) ELSE v[n]]

GraphMeaning ==
    /\ \A n \in DOMAIN value : value[n] # Undefined
    /\ \A n \in Inputs : \/ value[n] = Original(n)
                         \/ \E i \in DOMAIN operations : operations[i].target = n
    /\ \/ Stale
       \/ \A i \in DOMAIN operations :
             value[Name(i)] = Result(i, operations[i], Reading(value))

(* What has been run has the graph's value, or none at all if some node    *)
(* has no rendering.                                                       *)
MemoryMeaning ==
    /\ \A n \in Inputs : n \in DOMAIN memory /\ memory[n] = Original(n)
    /\ \A i \in Nat : Name(i) \in DOMAIN memory => i \in printed \ running
    /\ Opaque \/ \A i \in printed \ running : Name(i) \in DOMAIN memory
    /\ \/ Stale
       \/ \A i \in DOMAIN operations : Name(i) \in DOMAIN memory =>
             \/ memory[Name(i)] = value[Name(i)]
             \/ Opaque /\ memory[Name(i)] = Undefined

(* Views and returns. *)
OutputsMeaning ==
    /\ \A k \in 1..viewed : IsView(k) =>
          /\ ViewName(k) \in DOMAIN memory
          /\ memory[ViewName(k)] = ViewOf(At(memory, outputs[k].of))
    /\ returns # <<>> => returns = [k \in DOMAIN outputs |-> ReturnName(k)]

ValuesInv == PrintInv /\ GraphMeaning /\ MemoryMeaning /\ OutputsMeaning

-----------------------------------------------------------------------------
(* Names. *)

(* Buffers, inputs, views and "no name" are told apart. *)
LEMMA NamesDiffer ==
    /\ \A i, j : Name(i) = Name(j) => i = j
    /\ \A i : Name(i) \notin Inputs /\ Name(i) # None
    /\ None \notin Inputs /\ None \notin Buffers
    /\ \A i, j : ViewName(i) = ViewName(j) => i = j
    /\ \A i, j : ViewName(i) # Name(j)
    /\ \A i : ViewName(i) \notin Inputs /\ ViewName(i) \notin Buffers
  <1>1. \A i : Name(i)[1] = "buf" /\ Name(i)[2] = i
    BY DEF Name
  <1>2. \A i : ViewName(i)[1] = "output" /\ ViewName(i)[2] = i
    BY DEF ViewName
  <1>3. None[1] = "none"
    BY DEF None
  <1>4. \A n \in Inputs : n[1] # "none" /\ n[1] # "buf" /\ n[1] # "output"
    BY NamesAssumption
  <1>5. \A n \in Buffers : n[1] # "none" /\ n[1] # "output"
    BY <1>1, <1>4 DEF Buffers
  <1> QED
    BY <1>1, <1>2, <1>3, <1>4, <1>5

(* Later operations see what earlier ones define. *)
LEMMA DefinedGrows ==
    ASSUME NEW m \in Nat, NEW n \in Nat, m <= n
    PROVE  Defined(m) \subseteq Defined(n) /\ Defined(n) \subseteq Buffers
  BY DEF Defined, Buffers

(* Each operation defines one buffer more. *)
LEMMA DefinedNext ==
    ASSUME NEW n \in Nat
    PROVE  Defined(n + 1) = Defined(n) \cup {Name(n + 1)}
  BY DEF Defined

(* A defined buffer belongs to one of the operations counted. *)
LEMMA DefinedName ==
    ASSUME NEW n \in Nat, NEW i, Name(i) \in Defined(n)
    PROVE  i \in 1..n
  BY NamesDiffer DEF Defined

(* What an operation reads. *)
LEMMA ReadsOfOperation ==
    ASSUME NEW op \in OperationType
    PROVE  /\ Reads(op) \subseteq Buffers
           /\ op.data \subseteq Buffers /\ op.seeds \subseteq Buffers
           /\ op.declared \subseteq Reads(op)
           /\ op.kind # "scan" => op.declared = Reads(op)
           /\ op.target \in Targets \cup {None}
           /\ Reads(op) = op.data \cup op.seeds
  BY NamesAssumption DEF OperationType, Reads, Buffers

-----------------------------------------------------------------------------
(* Regions are well-formed. *)

(* The fields of a region, and its type. *)
LEMMA RegionFields ==
    ASSUME NEW kind, NEW ops, NEW ins, NEW outs, NEW loads
    PROVE  LET r == Region(kind, ops, ins, outs, loads) IN
           /\ r.kind = kind /\ r.ops = ops /\ r.ins = ins /\ r.outs = outs /\ r.loads = loads
           /\ kind \in {"operation", "fused", "opaque", "view"} /\ ops \subseteq Nat
              /\ ins \subseteq AllNames /\ outs \subseteq AllNames /\ loads \subseteq AllNames
              => r \in RegionType
  BY DEF Region, RegionType

(* Inputs of a signature are names. *)
LEMMA InputNames ==
    ASSUME NEW names, NEW renamed, names \subseteq Buffers
    PROVE  InputVariables(names, renamed) \subseteq AllNames
  BY DEF InputVariables, AllNames

(* So are the names in a body. *)
LEMMA BodyNamesKnown ==
    ASSUME NEW op \in OperationType
    PROVE  BodyNames(op) \subseteq AllNames
  <1>1. op.seeds \subseteq Buffers
    BY ReadsOfOperation
  <1> QED
    BY <1>1, ReadsOfOperation DEF BodyNames, AllNames

(* The regions that print the operations of S. *)
Prints(S, r) ==
    /\ r.ops = S
    /\ \/ \E i \in S : S = {i} /\ r = FormatOperation(i)
       \/ r = FusedNode(S)
       \/ r = OpaqueNode(S)

(* Every region that is printed is well typed. *)
LEMMA PrintedRegion ==
    ASSUME operations \in Seq(OperationType),
           NEW S \in SUBSET DOMAIN operations, NEW r, Prints(S, r)
    PROVE  r \in RegionType
  <1>1. \A i \in S : i \in Nat /\ operations[i] \in OperationType
    OBVIOUS
  <1>2. \A i \in S : Name(i) \in AllNames
    BY <1>1 DEF AllNames, Buffers
  <1>3. CASE \E i \in S : S = {i} /\ r = FormatOperation(i)
    <2>1. PICK i \in S : S = {i} /\ r = FormatOperation(i)
      BY <1>3
    <2>2. Reads(operations[i]) \subseteq Buffers /\ operations[i].declared \subseteq Buffers
      BY <1>1, <2>1, ReadsOfOperation
    <2>3. r \in {Loops(i), Scan(i), Unimplemented(i)}
      BY <2>1 DEF FormatOperation
    <2>4. CASE r = Loops(i)
      BY <1>1, <1>2, <2>1, <2>2, <2>4, InputNames, BodyNamesKnown, RegionFields DEF Loops
    <2>5. CASE r = Scan(i)
      BY <1>1, <1>2, <2>1, <2>2, <2>5, InputNames, BodyNamesKnown, RegionFields DEF Scan
    <2>6. CASE r = Unimplemented(i)
      BY <1>1, <1>2, <2>1, <2>2, <2>6, InputNames, RegionFields DEF Unimplemented
    <2> QED
      BY <2>3, <2>4, <2>5, <2>6
  <1>4. CASE r = FusedNode(S)
    <2>1. FusedInputs(S) \subseteq AllNames
      BY <1>1, ReadsOfOperation DEF FusedInputs, AllNames
    <2>2. UNION {BodyNames(operations[i]) : i \in S} \subseteq AllNames
      BY <1>1, BodyNamesKnown
    <2>3. {Name(i) : i \in S} \subseteq AllNames
      BY <1>2
    <2> QED
      BY <1>1, <1>4, <2>1, <2>2, <2>3, RegionFields DEF FusedNode
  <1>5. CASE r = OpaqueNode(S)
    BY <1>1, <1>5, RegionFields DEF OpaqueNode
  <1> QED
    BY <1>3, <1>4, <1>5 DEF Prints

-----------------------------------------------------------------------------
(* What the three loops have in common: a region for operations that are   *)
(* not printed yet, and whose reads are printed or among them.             *)

Emits(S, r) ==
    /\ S \in SUBSET Unprinted /\ S # {}
    /\ Prints(S, r)
    /\ ReadsPrinted(S, printed \cup S)
    /\ mode = "operations" => \E n \in Nat : printed \cup S = 1..n
    /\ Emit(r)

(* The operations that a region stands for. *)
LEMMA OpsOfRegions ==
    /\ \A i : FormatOperation(i).ops = {i}
    /\ \A S : FusedNode(S).ops = S
    /\ \A S : OpaqueNode(S).ops = S
  BY RegionFields DEF FormatOperation, Loops, Scan, Unimplemented, FusedNode, OpaqueNode

(* An operation reads only what earlier ones define. *)
LEMMA ReadsBelow ==
    ASSUME GraphKnown, NEW i \in DOMAIN operations, NEW m \in Nat,
           Name(m) \in Reads(operations[i])
    PROVE  m \in DOMAIN operations /\ m < i
  <1>1. operations \in Seq(OperationType) /\ i \in Nat /\ i \in 1..Len(operations)
    BY DEF GraphKnown
  <1>2. Name(m) \in Defined(i - 1) /\ i - 1 \in Nat
    BY <1>1 DEF GraphKnown
  <1>3. m \in 1..(i - 1)
    BY <1>2, DefinedName
  <1> QED
    BY <1>1, <1>3

(* What is ready to print reads what has been printed, or itself. *)
LEMMA ReadyIsClosed ==
    ASSUME GraphKnown, NEW S \in SUBSET Unprinted, Ready(S)
    PROVE  ReadsPrinted(S, printed \cup S) /\ mode # "operations" /\ S # {}
  <1>1. SUFFICES ASSUME NEW j \in S, NEW m \in Nat, Name(m) \in Reads(operations[j])
                 PROVE  m \in printed \cup S
    BY DEF ReadsPrinted, Ready
  <1>2. m \in DOMAIN operations /\ m < j
    BY <1>1, ReadsBelow DEF Unprinted
  <1>3. SUFFICES ASSUME m \in Unprinted \ S PROVE FALSE
    BY <1>2 DEF Unprinted
  <1>4. Name(m) \in Writes(m)
    BY NamesDiffer DEF Writes
  <1>5. Name(m) \in Touches(j)
    BY <1>1 DEF Touches
  <1> QED
    BY <1>2, <1>3, <1>4, <1>5 DEF Ready

(* Printing the next operation of the flat list emits a region. *)
LEMMA EmitsNext ==
    ASSUME PrintInv, FormatNext
    PROVE  \E S, r : Emits(S, r)
  <1>1. PICK n \in Nat : printed = 1..n
    BY DEF PrintInv, PrintedInOrder, FormatNext
  <1>2. Cardinality(printed) = n
    BY <1>1, FS_Interval
  <1>3. DOMAIN operations = 1..Len(operations) /\ Len(operations) \in Nat
    BY DEF PrintInv, GraphKnown
  <1>4. n + 1 \in Unprinted
    <2>1. PICK m \in DOMAIN operations : m \notin printed
      BY DEF FormatNext, Unprinted
    <2>2. n + 1 \in 1..Len(operations)
      BY <1>1, <1>3, <2>1
    <2> QED
      BY <1>1, <1>3, <2>2 DEF Unprinted
  <1>5. printed \cup {n + 1} = 1..(n + 1)
    BY <1>1
  <1>6. ReadsPrinted({n + 1}, printed \cup {n + 1})
    <2>1. \A m \in Nat : Name(m) \in Reads(operations[n + 1]) =>
              m \in DOMAIN operations /\ m < n + 1
      BY <1>4, ReadsBelow DEF PrintInv, Unprinted
    <2>2. \A m \in Nat : Name(m) \in Reads(operations[n + 1]) => m \in 1..n
      BY <1>3, <2>1
    <2> QED
      BY <1>1, <2>2 DEF ReadsPrinted
  <1>7. Prints({n + 1}, FormatOperation(n + 1))
    BY OpsOfRegions DEF Prints
  <1>8. Emit(FormatOperation(n + 1))
    BY <1>2 DEF FormatNext
  <1>9. Emits({n + 1}, FormatOperation(n + 1))
    BY <1>4, <1>5, <1>6, <1>7, <1>8 DEF Emits
  <1> QED
    BY <1>9

(* So does printing a scheduler node. *)
LEMMA EmitsScheduled ==
    ASSUME PrintInv, FormatSchedulerNode \/ FormatFusedNode \/ FormatOpaqueNode
    PROVE  \E S, r : Emits(S, r)
  <1>1. GraphKnown
    BY DEF PrintInv
  <1>2. CASE FormatSchedulerNode
    <2>1. PICK i \in Unprinted : Ready({i}) /\ Emit(FormatOperation(i))
      BY <1>2 DEF FormatSchedulerNode
    <2>2. Prints({i}, FormatOperation(i))
      BY OpsOfRegions DEF Prints
    <2>3. ReadsPrinted({i}, printed \cup {i}) /\ mode # "operations"
      BY <1>1, <2>1, ReadyIsClosed
    <2>4. Emits({i}, FormatOperation(i))
      BY <2>1, <2>2, <2>3 DEF Emits
    <2> QED
      BY <2>4
  <1>3. CASE FormatFusedNode
    <2>1. PICK S \in SUBSET Unprinted : Ready(S) /\ Emit(FusedNode(S))
      BY <1>3 DEF FormatFusedNode
    <2>2. Prints(S, FusedNode(S))
      BY OpsOfRegions DEF Prints
    <2>3. ReadsPrinted(S, printed \cup S) /\ mode # "operations" /\ S # {}
      BY <1>1, <2>1, ReadyIsClosed
    <2>4. Emits(S, FusedNode(S))
      BY <2>1, <2>2, <2>3 DEF Emits
    <2> QED
      BY <2>4
  <1>4. CASE FormatOpaqueNode
    <2>1. PICK S \in SUBSET Unprinted : Ready(S) /\ Emit(OpaqueNode(S))
      BY <1>4 DEF FormatOpaqueNode
    <2>2. Prints(S, OpaqueNode(S))
      BY OpsOfRegions DEF Prints
    <2>3. ReadsPrinted(S, printed \cup S) /\ mode # "operations" /\ S # {}
      BY <1>1, <2>1, ReadyIsClosed
    <2>4. Emits(S, OpaqueNode(S))
      BY <2>1, <2>2, <2>3 DEF Emits
    <2> QED
      BY <2>4
  <1> QED
    BY <1>2, <1>3, <1>4

-----------------------------------------------------------------------------
(* PrintInv is inductive. *)

(* The invariant of printing holds at first. *)
LEMMA PrintInvInit == Init => PrintInv
  <1> SUFFICES ASSUME Init PROVE PrintInv
    OBVIOUS
  <1>1. GraphKnown
    <2>1. DOMAIN value = Inputs /\ Len(operations) = 0
      BY DEF Init
    <2>2. Defined(0) = Inputs
      BY DEF Defined
    <2> QED
      BY <2>1, <2>2 DEF Init, GraphKnown
  <1>2. ProgramGrows
    BY DEF Init, ProgramGrows
  <1>3. PrintedInOrder
    <2>1. printed = 1..0
      BY DEF Init
    <2> QED
      BY <2>1 DEF PrintedInOrder, ReadsPrinted
  <1>4. PrintedProvided
    BY DEF Init, PrintedProvided
  <1> QED
    BY <1>1, <1>2, <1>3, <1>4 DEF PrintInv

(* Appending to a sequence. *)
LEMMA SequencesGrow ==
    ASSUME NEW T, NEW s \in Seq(T), NEW e \in T
    PROVE  /\ Append(s, e) \in Seq(T) /\ Append(s, e) # <<>>
           /\ Len(Append(s, e)) = Len(s) + 1
           /\ DOMAIN Append(s, e) = DOMAIN s \cup {Len(s) + 1}
           /\ \A i \in DOMAIN s : Append(s, e)[i] = s[i]
           /\ Append(s, e)[Len(s) + 1] = e
           /\ DOMAIN s = 1..Len(s) /\ Len(s) \in Nat /\ Len(s) + 1 \notin DOMAIN s
           /\ \A i \in DOMAIN s : i \in Nat /\ s[i] \in T
           /\ s # <<>> <=> Len(s) > 0
  OBVIOUS

(* Updating a function at one name. *)
LEMMA UpdatedFacts ==
    ASSUME NEW f, NEW n, NEW v
    PROVE  /\ DOMAIN Updated(f, n, v) = DOMAIN f \cup {n}
           /\ Updated(f, n, v)[n] = v
           /\ \A m \in DOMAIN f : m # n => Updated(f, n, v)[m] = f[m]
  BY DEF Updated

(* What AddOperation does, apart from the bounds. *)
Added(op) ==
    LET i == Len(operations) + 1 IN
    /\ op \in OperationType /\ Reads(op) \subseteq DOMAIN value
    /\ outputs = <<>>
    /\ operations' = Append(operations, op)
    /\ value' = Updated(IF op.target = None THEN value
                        ELSE [value EXCEPT ![op.target] = Result(i, op, value)],
                        Name(i), Result(i, op, value))
    /\ UNCHANGED <<mode, outputs, printed, regions, running, memory, viewed, returns>>

(* Lowering adds one operation. *)
LEMMA AddsOperation ==
    ASSUME GraphKnown, AddOperation
    PROVE  \E op : Added(op)
  <1> DEFINE i == Len(operations) + 1
             Op(kind, data, seeds, target, declared) ==
               [kind |-> kind, data |-> data, seeds |-> seeds, target |-> target,
                declared |-> declared]
             Adds(op, target) ==
               /\ operations' = Append(operations, op)
               /\ value' = Updated(IF target = None THEN value
                                   ELSE [value EXCEPT ![target] = Result(i, op, value)],
                                   Name(i), Result(i, op, value))
  <1>1. /\ outputs = <<>>
        /\ UNCHANGED <<mode, outputs, printed, regions, running, memory, viewed, returns>>
        /\ \E kind \in Kinds, data, seeds \in SUBSET DOMAIN value, target \in Targets \cup {None} :
           \E declared \in Declared(kind, data \cup seeds) :
             Adds(Op(kind, data, seeds, target, declared), target)
    BY DEF AddOperation
  <1>2. PICK kind \in Kinds, data \in SUBSET DOMAIN value, seeds \in SUBSET DOMAIN value,
             target \in Targets \cup {None} :
           \E declared \in Declared(kind, data \cup seeds) :
             Adds(Op(kind, data, seeds, target, declared), target)
    BY <1>1
  <1>3. PICK declared \in Declared(kind, data \cup seeds) :
             Adds(Op(kind, data, seeds, target, declared), target)
    BY <1>2
  <1> DEFINE op == Op(kind, data, seeds, target, declared)
  <1>4. DOMAIN value \subseteq Buffers
    BY DefinedGrows DEF GraphKnown
  <1>5. declared \subseteq data \cup seeds /\ (kind # "scan" => declared = data \cup seeds)
    BY DEF Declared
  <1>6. op \in OperationType
    BY <1>4, <1>5 DEF OperationType
  <1>7. Reads(op) \subseteq DOMAIN value
    BY DEF Reads
  <1>8. Added(op)
    BY <1>1, <1>3, <1>6, <1>7 DEF Added
  <1> QED
    BY <1>8

(* It computes one value more, and may overwrite its target. *)
LEMMA AddedValue ==
    ASSUME GraphKnown, NEW op, Added(op)
    PROVE  LET i == Len(operations) + 1 IN
           /\ DOMAIN value' = DOMAIN value \cup {Name(i)}
           /\ i \in Nat /\ Name(i) \notin DOMAIN value
           /\ value'[Name(i)] = Result(i, op, value)
           /\ op.target # None => op.target \in DOMAIN value
                                  /\ value'[op.target] = Result(i, op, value)
           /\ \A n \in DOMAIN value : n # op.target => value'[n] = value[n]
  <1> DEFINE i == Len(operations) + 1
             v == Result(i, op, value)
             f == IF op.target = None THEN value ELSE [value EXCEPT ![op.target] = v]
  <1>1. i \in Nat /\ Len(operations) \in Nat
    BY DEF GraphKnown
  <1>2. Name(i) \notin DOMAIN value
    BY <1>1, DefinedName DEF GraphKnown
  <1>3. op.target # None => op.target \in DOMAIN value
    BY ReadsOfOperation, NamesAssumption DEF Added, GraphKnown, Defined
  <1>4. DOMAIN f = DOMAIN value /\ \A n \in DOMAIN value : n # op.target => f[n] = value[n]
    OBVIOUS
  <1>5. op.target # None => f[op.target] = v
    BY <1>3
  <1>6. value' = Updated(f, Name(i), v)
    BY DEF Added
  <1> HIDE DEF f, v
  <1>7. /\ DOMAIN value' = DOMAIN value \cup {Name(i)}
        /\ value'[Name(i)] = v
        /\ \A n \in DOMAIN value : value'[n] = f[n]
    <2> DEFINE b == Name(i)
    <2>1. b \notin DOMAIN value /\ value' = Updated(f, b, v)
      BY <1>2, <1>6
    <2> HIDE DEF b
    <2>2. /\ DOMAIN value' = DOMAIN value \cup {b} /\ value'[b] = v
          /\ \A n \in DOMAIN value : value'[n] = f[n]
      BY <1>4, <2>1 DEF Updated
    <2> QED
      BY <2>2 DEF b
  <1> QED
    BY <1>1, <1>2, <1>3, <1>4, <1>5, <1>7 DEF v

(* The graph stays in order when it is added, *)
LEMMA AddedKeepsGraph ==
    ASSUME PrintInv, NEW op, Added(op)
    PROVE  GraphKnown'
  <1> DEFINE i == Len(operations) + 1
  <1>1. GraphKnown
    BY DEF PrintInv
  <1>2. /\ operations' \in Seq(OperationType) /\ Len(operations') = i
        /\ DOMAIN operations' = DOMAIN operations \cup {i} /\ operations'[i] = op
        /\ \A j \in DOMAIN operations : operations'[j] = operations[j]
        /\ DOMAIN operations = 1..Len(operations) /\ Len(operations) \in Nat
    BY <1>1, SequencesGrow DEF Added, GraphKnown
  <1>3. DOMAIN value' = Defined(i) /\ DOMAIN value = Defined(i - 1)
    <2>1. i - 1 = Len(operations)
      BY <1>2
    <2>2. DOMAIN value = Defined(Len(operations))
      BY <1>1 DEF GraphKnown
    <2>3. DOMAIN value' = DOMAIN value \cup {Name(i)}
      BY <1>1, AddedValue
    <2> QED
      BY <1>2, <2>1, <2>2, <2>3, DefinedNext
  <1>4. \A j \in DOMAIN operations' : Reads(operations'[j]) \subseteq Defined(j - 1)
    BY <1>1, <1>2, <1>3 DEF GraphKnown, Added
  <1>5. outputs = <<>> /\ outputs' = <<>> /\ mode' = mode
    BY DEF Added
  <1> QED
    BY <1>1, <1>2, <1>3, <1>4, <1>5 DEF GraphKnown

(* and the invariant of printing holds, *)
LEMMA AddedKeepsPrintInv ==
    ASSUME PrintInv, NEW op, Added(op)
    PROVE  PrintInv'
  <1>1. /\ printed = {} /\ regions = <<>> /\ running = {} /\ viewed = 0 /\ returns = <<>>
        /\ outputs = <<>>
    BY DEF PrintInv, ProgramGrows, Added
  <1>2. /\ printed' = {} /\ regions' = <<>> /\ running' = {} /\ viewed' = 0
        /\ returns' = <<>> /\ outputs' = <<>>
    BY <1>1 DEF Added
  <1>3. GraphKnown'
    BY AddedKeepsGraph
  <1>4. ProgramGrows'
    BY <1>2 DEF ProgramGrows
  <1>5. PrintedInOrder' /\ PrintedProvided'
    <2>1. printed' = 1..0
      BY <1>2
    <2> QED
      BY <1>2, <2>1 DEF PrintedInOrder, PrintedProvided, ReadsPrinted
  <1> QED
    BY <1>3, <1>4, <1>5 DEF PrintInv

(* also when an output is added. *)
LEMMA AddOutputKeepsPrintInv ==
    ASSUME PrintInv, AddOutput
    PROVE  PrintInv'
  <1>1. PICK kind \in {"view", "buffer", "value"}, of \in DOMAIN value \cup {None} :
            /\ kind = "value" <=> of = None
            /\ operations # <<>> /\ printed = {}
            /\ outputs' = Append(outputs, [kind |-> kind, of |-> of])
            /\ UNCHANGED <<mode, operations, value, printed, regions, running, memory,
                           viewed, returns>>
    BY ZenonT(30) DEF AddOutput
  <1> DEFINE o == [kind |-> kind, of |-> of]
  <1>2. GraphKnown /\ ProgramGrows /\ Len(operations) \in Nat
    BY DEF PrintInv, GraphKnown
  <1>3. of \in Buffers \cup {None}
    BY <1>1, <1>2, DefinedGrows DEF GraphKnown
  <1>4. o \in OutputType
    BY <1>3 DEF OutputType
  <1>5. /\ outputs' \in Seq(OutputType) /\ outputs' # <<>> /\ Len(outputs') = Len(outputs) + 1
        /\ DOMAIN outputs' = DOMAIN outputs \cup {Len(outputs) + 1}
        /\ \A k \in DOMAIN outputs : outputs'[k] = outputs[k]
        /\ outputs'[Len(outputs) + 1] = o /\ Len(outputs) \in Nat
    BY <1>1, <1>2, <1>4, SequencesGrow DEF GraphKnown
  <1>6. GraphKnown'
    <2>1. \A k \in DOMAIN outputs' :
              IF outputs'[k].kind = "value" THEN outputs'[k].of = None
              ELSE outputs'[k].of \in Defined(Len(operations))
      BY <1>1, <1>2, <1>5 DEF GraphKnown
    <2> QED
      BY <1>1, <1>2, <1>5, <2>1 DEF GraphKnown
  <1>7. viewed = 0 /\ returns = <<>>
    <2>1. printed # DOMAIN operations
      BY <1>1, <1>2 DEF GraphKnown
    <2>2. viewed = 0
      BY <1>2, <1>5, <2>1 DEF ProgramGrows
    <2> QED
      BY <1>2, <1>5, <2>2, SequencesGrow DEF ProgramGrows, GraphKnown
  <1>8. ProgramGrows'
    BY <1>1, <1>2, <1>5, <1>7 DEF ProgramGrows
  <1>9. PrintedInOrder' /\ PrintedProvided'
    BY <1>1 DEF PrintInv, PrintedInOrder, PrintedProvided, ReadsPrinted
  <1> QED
    BY <1>6, <1>8, <1>9 DEF PrintInv

(* What emitting a region changes, and what it leaves alone. *)
LEMMA EmitFacts ==
    ASSUME PrintInv, NEW S, NEW r, Emits(S, r)
    PROVE  /\ S \subseteq DOMAIN operations /\ S \cap printed = {} /\ S # {} /\ r.ops = S
           /\ r \in RegionType
           /\ outputs # <<>> /\ running = {} /\ viewed = 0 /\ returns = <<>>
           /\ printed' = printed \cup S
           /\ running' = {i \in S : Name(i) \in r.outs}
           /\ regions' = Append(regions, r)
           /\ DOMAIN regions' = DOMAIN regions \cup {Len(regions) + 1}
           /\ \A k \in DOMAIN regions : regions'[k] = regions[k]
           /\ regions'[Len(regions) + 1] = r /\ Len(regions) + 1 \notin DOMAIN regions
           /\ regions' \in Seq(RegionType)
           /\ UNCHANGED <<mode, operations, outputs, value, memory, viewed, returns>>
  <1>1. /\ S \subseteq DOMAIN operations /\ S \cap printed = {} /\ S # {} /\ r.ops = S
        /\ outputs # <<>> /\ running = {}
        /\ UNCHANGED <<mode, operations, outputs, value, memory, viewed, returns>>
        /\ printed' = printed \cup S /\ regions' = Append(regions, r)
        /\ running' = {i \in S : Name(i) \in r.outs}
    BY DEF Emits, Prints, Emit, Unprinted, graph
  <1>2. r \in RegionType
    BY <1>1, PrintedRegion DEF PrintInv, GraphKnown, Emits
  <1>3. regions \in Seq(RegionType)
    BY DEF PrintInv, ProgramGrows
  <1>4. viewed = 0 /\ viewed \in Nat
    BY <1>1 DEF PrintInv, ProgramGrows
  <1>5. returns = <<>>
    BY <1>1, <1>4, SequencesGrow DEF PrintInv, ProgramGrows, GraphKnown
  <1> QED
    BY <1>1, <1>2, <1>3, <1>4, <1>5, SequencesGrow

(* The region that prints operations provides their buffers. *)
LEMMA PrintedOuts ==
    ASSUME NEW S, NEW r, Prints(S, r)
    PROVE  /\ \A i \in S : Name(i) \in Provides(r)
           /\ r.kind = "opaque" \/ \A i \in S : Name(i) \in r.outs
           /\ r.outs \subseteq {Name(i) : i \in S}
  <1>1. CASE \E i \in S : S = {i} /\ r = FormatOperation(i)
    <2>1. PICK i \in S : S = {i} /\ r = FormatOperation(i)
      BY <1>1
    <2>2. r.outs = {Name(i)}
      BY <2>1, RegionFields DEF FormatOperation, Loops, Scan, Unimplemented
    <2> QED
      BY <2>1, <2>2 DEF Provides
  <1>2. CASE r = FusedNode(S)
    BY <1>2, RegionFields DEF FusedNode, Provides
  <1>3. CASE r = OpaqueNode(S)
    BY <1>3, RegionFields DEF OpaqueNode, Provides
  <1> QED
    BY <1>1, <1>2, <1>3 DEF Prints

(* Emitting a region keeps the invariant. *)
LEMMA EmitsKeepsPrintInv ==
    ASSUME PrintInv, NEW S, NEW r, Emits(S, r)
    PROVE  PrintInv'
  <1> USE EmitFacts
  <1>1. GraphKnown'
    BY DEF PrintInv, GraphKnown
  <1>2. ProgramGrows'
    <2>1. running' \subseteq printed' /\ printed' \subseteq DOMAIN operations'
      BY DEF PrintInv, ProgramGrows
    <2>2. printed' # {} /\ viewed' = 0 /\ returns' = <<>> /\ outputs' # <<>>
      OBVIOUS
    <2> QED
      BY <2>1, <2>2 DEF PrintInv, ProgramGrows
  <1>3. PrintedInOrder'
    <2>1. ReadsPrinted(printed, printed) /\ ReadsPrinted(S, printed \cup S)
      BY DEF PrintInv, PrintedInOrder, Emits
    <2>2. ReadsPrinted(printed, printed)' <=>
            \A i \in printed \cup S : \A m \in Nat :
               Name(m) \in Reads(operations[i]) => m \in printed \cup S
      BY DEF ReadsPrinted
    <2>3. ReadsPrinted(printed, printed)'
      BY <2>1, <2>2 DEF ReadsPrinted
    <2>4. (mode = "operations" => \E n \in Nat : printed = 1..n)'
      BY DEF Emits
    <2> QED
      BY <2>3, <2>4 DEF PrintedInOrder
  <1>4. PrintedProvided'
    <2>1. \A i \in printed : \E k \in DOMAIN regions : Name(i) \in Provides(regions[k])
      BY DEF PrintInv, PrintedProvided
    <2>2. \A i \in S : Name(i) \in Provides(r)
      BY PrintedOuts DEF Emits
    <2>3. \A i \in printed' : \E k \in DOMAIN regions' : Name(i) \in Provides(regions'[k])
      BY <2>1, <2>2
    <2> QED
      BY <2>3 DEF PrintedProvided
  <1> QED
    BY <1>1, <1>2, <1>3, <1>4 DEF PrintInv

(* So does running one of its operations. *)
LEMMA RunKeepsPrintInv ==
    ASSUME PrintInv, RunOperation
    PROVE  PrintInv'
  <1>1. running' \subseteq running /\ viewed = 0 /\ viewed \in Nat
        /\ UNCHANGED <<mode, operations, outputs, value, printed, regions, viewed, returns>>
    BY DEF RunOperation, graph, PrintInv, ProgramGrows
  <1>2. GraphKnown'
    BY <1>1 DEF PrintInv, GraphKnown
  <1>3. ProgramGrows'
    BY <1>1 DEF PrintInv, ProgramGrows
  <1>4. PrintedInOrder' /\ PrintedProvided'
    BY <1>1 DEF PrintInv, PrintedInOrder, PrintedProvided, ReadsPrinted
  <1> QED
    BY <1>2, <1>3, <1>4 DEF PrintInv

(* An output that is gone through, when its region is printed. *)
LEMMA ViewRegionKnown ==
    ASSUME PrintInv, NEW k \in DOMAIN outputs, IsView(k)
    PROVE  /\ ViewRegion(k) \in RegionType
           /\ outputs[k].of \in Defined(Len(operations)) /\ outputs[k].of \in Buffers
  <1>1. /\ outputs \in Seq(OutputType) /\ operations \in Seq(OperationType)
        /\ outputs[k].of \in Defined(Len(operations))
    BY DEF PrintInv, GraphKnown, IsView
  <1>2. outputs[k].of \in Buffers /\ k \in Nat
    BY <1>1, DefinedGrows
  <1>3. {outputs[k].of} \subseteq AllNames /\ {ViewName(k)} \subseteq AllNames
        /\ InputVariables({outputs[k].of}, {}) \subseteq AllNames
    BY <1>2, InputNames DEF AllNames
  <1> QED
    BY <1>1, <1>2, <1>3, RegionFields DEF ViewRegion

(* What printing an output changes, and what it leaves alone. *)
LEMMA OutputFacts ==
    ASSUME PrintInv, FormatOutput
    PROVE  LET k == viewed + 1 IN
           /\ k \in DOMAIN outputs /\ k \in Nat /\ viewed' = k /\ outputs # <<>>
           /\ printed = DOMAIN operations /\ running = {} /\ printed # {}
           /\ returns = <<>> /\ viewed # Len(outputs)
           /\ UNCHANGED <<mode, operations, outputs, value, printed, running, returns>>
           /\ IF IsView(k)
              THEN /\ regions' = Append(regions, ViewRegion(k))
                   /\ memory' = Updated(memory, ViewName(k), ViewOf(At(memory, outputs[k].of)))
                   /\ regions' \in Seq(RegionType)
                   /\ DOMAIN regions' = DOMAIN regions \cup {Len(regions) + 1}
                   /\ \A n \in DOMAIN regions : regions'[n] = regions[n]
                   /\ regions'[Len(regions) + 1] = ViewRegion(k)
                   /\ Len(regions) + 1 \notin DOMAIN regions
              ELSE UNCHANGED <<regions, memory>>
  <1> DEFINE k == viewed + 1
  <1>1. /\ outputs # <<>> /\ DOMAIN operations \ printed = {} /\ running = {}
        /\ k <= Len(outputs) /\ viewed' = k
        /\ IF IsView(k)
           THEN /\ regions' = Append(regions, ViewRegion(k))
                /\ memory' = Updated(memory, ViewName(k), ViewOf(At(memory, outputs[k].of)))
           ELSE UNCHANGED <<regions, memory>>
        /\ UNCHANGED <<mode, operations, outputs, value, printed, running, returns>>
    BY DEF FormatOutput, graph, Unprinted
  <1>2. /\ viewed \in 0..Len(outputs) /\ Len(outputs) \in Nat
        /\ printed \subseteq DOMAIN operations /\ operations # <<>>
        /\ operations \in Seq(OperationType) /\ regions \in Seq(RegionType)
        /\ outputs \in Seq(OutputType) /\ (returns # <<>> => viewed = Len(outputs))
    BY <1>1 DEF PrintInv, GraphKnown, ProgramGrows
  <1>3. k \in DOMAIN outputs /\ k \in Nat /\ viewed # Len(outputs)
    BY <1>1, <1>2
  <1>4. printed = DOMAIN operations /\ returns = <<>>
    BY <1>1, <1>2, <1>3
  <1>5. printed # {}
    <2>1. Len(operations) > 0 /\ Len(operations) \in Nat /\ DOMAIN operations = 1..Len(operations)
      BY <1>2
    <2> QED
      BY <1>4, <2>1
  <1>6. IsView(k) =>
          /\ regions' \in Seq(RegionType)
          /\ DOMAIN regions' = DOMAIN regions \cup {Len(regions) + 1}
          /\ \A n \in DOMAIN regions : regions'[n] = regions[n]
          /\ regions'[Len(regions) + 1] = ViewRegion(k)
          /\ Len(regions) + 1 \notin DOMAIN regions
    <2> HAVE IsView(k)
    <2>1. ViewRegion(k) \in RegionType
      BY <1>3, ViewRegionKnown
    <2>2. regions' = Append(regions, ViewRegion(k))
      BY <1>1
    <2> HIDE DEF k
    <2> QED
      BY <1>2, <2>1, <2>2, SequencesGrow
  <1> HIDE DEF k
  <1>7. /\ k \in DOMAIN outputs /\ k \in Nat /\ viewed' = k /\ outputs # <<>>
        /\ printed = DOMAIN operations /\ running = {} /\ printed # {}
        /\ returns = <<>> /\ viewed # Len(outputs)
        /\ UNCHANGED <<mode, operations, outputs, value, printed, running, returns>>
    BY <1>1, <1>3, <1>4, <1>5
  <1>8. IF IsView(k)
        THEN /\ regions' = Append(regions, ViewRegion(k))
             /\ memory' = Updated(memory, ViewName(k), ViewOf(At(memory, outputs[k].of)))
             /\ regions' \in Seq(RegionType)
             /\ DOMAIN regions' = DOMAIN regions \cup {Len(regions) + 1}
             /\ \A n \in DOMAIN regions : regions'[n] = regions[n]
             /\ regions'[Len(regions) + 1] = ViewRegion(k)
             /\ Len(regions) + 1 \notin DOMAIN regions
        ELSE UNCHANGED <<regions, memory>>
    BY <1>1, <1>6
  <1> QED
    BY <1>7, <1>8 DEF k

(* Printing an output keeps the invariant. *)
LEMMA OutputKeepsPrintInv ==
    ASSUME PrintInv, FormatOutput
    PROVE  PrintInv'
  <1> DEFINE k == viewed + 1
  <1>1. GraphKnown'
    BY OutputFacts DEF PrintInv, GraphKnown
  <1>2. ProgramGrows'
    <2>1. /\ printed' = DOMAIN operations' /\ running' = {} /\ printed' # {}
          /\ regions' \in Seq(RegionType) /\ viewed' \in 0..Len(outputs')
          /\ outputs' # <<>> /\ operations' # <<>> /\ returns' = <<>>
      BY OutputFacts DEF PrintInv, ProgramGrows, GraphKnown
    <2> QED
      BY <2>1 DEF ProgramGrows
  <1>3. PrintedInOrder'
    BY OutputFacts DEF PrintInv, PrintedInOrder, ReadsPrinted
  <1>4. PrintedProvided'
    <2>1. /\ printed' = printed /\ DOMAIN regions \subseteq DOMAIN regions'
          /\ \A n \in DOMAIN regions : regions'[n] = regions[n]
      BY OutputFacts
    <2> QED
      BY <2>1 DEF PrintInv, PrintedProvided
  <1> QED
    BY <1>1, <1>2, <1>3, <1>4 DEF PrintInv

(* So does printing the returned names, *)
LEMMA ReturnsKeepPrintInv ==
    ASSUME PrintInv, FormatReturns
    PROVE  PrintInv'
  <1>1. UNCHANGED <<mode, operations, outputs, value, printed, regions, running, viewed>>
        /\ outputs # <<>> /\ viewed = Len(outputs)
    BY DEF FormatReturns, graph
  <1>2. GraphKnown'
    BY <1>1 DEF PrintInv, GraphKnown
  <1>3. ProgramGrows'
    BY <1>1 DEF PrintInv, ProgramGrows
  <1>4. PrintedInOrder' /\ PrintedProvided'
    BY <1>1 DEF PrintInv, PrintedInOrder, PrintedProvided, ReadsPrinted
  <1> QED
    BY <1>2, <1>3, <1>4 DEF PrintInv

(* and raising, or doing nothing. *)
LEMMA StutterKeepsPrintInv ==
    ASSUME PrintInv, Raise \/ UNCHANGED vars
    PROVE  PrintInv'
  <1>1. UNCHANGED <<mode, operations, outputs, value, printed, regions, running, viewed,
                    returns>>
    BY DEF Raise, vars, graph
  <1>2. GraphKnown'
    BY <1>1 DEF PrintInv, GraphKnown
  <1>3. ProgramGrows'
    BY <1>1 DEF PrintInv, ProgramGrows
  <1>4. PrintedInOrder' /\ PrintedProvided'
    BY <1>1 DEF PrintInv, PrintedInOrder, PrintedProvided, ReadsPrinted
  <1> QED
    BY <1>2, <1>3, <1>4 DEF PrintInv

(* The graph, the program and its order keep to PrintInv. *)
LEMMA PrintInvNext == PrintInv /\ [Next]_vars => PrintInv'
  <1> SUFFICES ASSUME PrintInv, [Next]_vars PROVE PrintInv'
    OBVIOUS
  <1>1. ASSUME AddOperation PROVE PrintInv'
    <2>1. PICK op : Added(op)
      BY <1>1, AddsOperation DEF PrintInv
    <2> QED
      BY <2>1, AddedKeepsPrintInv
  <1>2. ASSUME FormatNext \/ FormatSchedulerNode \/ FormatFusedNode \/ FormatOpaqueNode
        PROVE  PrintInv'
    <2>1. PICK S, r : Emits(S, r)
      BY <1>2, EmitsNext, EmitsScheduled
    <2> QED
      BY <2>1, EmitsKeepsPrintInv
  <1>3. Finished => UNCHANGED vars
    BY DEF Finished
  <1> QED
    BY <1>1, <1>2, <1>3, AddOutputKeepsPrintInv, RunKeepsPrintInv, OutputKeepsPrintInv,
       ReturnsKeepPrintInv, StutterKeepsPrintInv DEF Next

(* The invariant of printing holds in every state. *)
LEMMA PrintInvariant == Spec => []PrintInv
  BY PrintInvInit, PrintInvNext, PTL DEF Spec

-----------------------------------------------------------------------------
(* Signatures.  SignatureRight is SignaturesNameLoads for one region r of  *)
(* a program for the operations all.                                       *)

SignatureRight(all, r) ==
    LET ops == {all[i] : i \in r.ops}
    IN Unnamed(r) =
         CASE r.kind = "fused" ->
                UNION {Suffixed(op) : op \in ops}
           [] r.kind = "operation" ->
                UNION {{n \in op.data \cap op.seeds : Display(n) # n} :
                         op \in {x \in ops : x.kind \in {"loops", "scan"}}}
           [] OTHER -> {}

(* The property, one region at a time, before and after a step. *)
LEMMA SignaturesByRegion ==
    /\ SignaturesNameLoads <=> \A k \in DOMAIN regions : SignatureRight(operations, regions[k])
    /\ SignaturesNameLoads' <=>
          \A k \in DOMAIN regions' : SignatureRight(operations', regions'[k])
  BY DEF SignaturesNameLoads, SignatureRight

(* A seed is displayed under a name of its own, or under its input's. *)
LEMMA SeedNames ==
    ASSUME NEW n \in Buffers
    PROVE  /\ Display(n) = n \/ \A i : Display(n) # Name(i)
           /\ Display(n) = n \/ Display(n) \notin Buffers
  <1>1. \A i : Name(i)[1] = "buf"
    BY DEF Name
  <1>2. CASE n \in Inputs
    BY <1>1, <1>2, NamesAssumption DEF Buffers
  <1>3. CASE n \notin Inputs
    <2>1. PICK i \in Nat : n = Name(i)
      BY <1>3 DEF Buffers
    <2>2. Display(n)[1] = Display(Name(1))[1]
      BY <2>1 DEF Display, Name
    <2>3. Display(n)[1] # "buf" /\ \A m \in Inputs : Display(n)[1] # m[1]
      BY <2>2, NamesAssumption
    <2> QED
      BY <1>1, <2>3 DEF Buffers
  <1> QED
    BY <1>2, <1>3

(* What the body of a loop names beyond its signature: displayed seeds. *)
LEMMA LoopsSignature ==
    ASSUME NEW op \in OperationType, NEW i, Name(i) \notin Reads(op)
    PROVE  BodyNames(op) \ (InputVariables(Reads(op), op.seeds) \cup {Name(i)})
             = {n \in op.data \cap op.seeds : Display(n) # n}
  <1> DEFINE ins == InputVariables(Reads(op), op.seeds)
             loads == BodyNames(op)
             excepted == {n \in op.data \cap op.seeds : Display(n) # n}
  <1>1. \A x : x \in ins <=> \/ x \in op.data \ op.seeds
                             \/ \E n \in op.seeds : x = Display(n)
    BY ReadsOfOperation DEF InputVariables
  <1>2. \A x : x \in loads <=> x \in op.data \/ \E n \in op.seeds : x = Display(n)
    BY DEF BodyNames
  <1>3. ASSUME NEW x \in excepted PROVE x \in loads /\ x \notin ins /\ x # Name(i)
    <2>1. x \in op.seeds /\ x \in op.data /\ x \in Buffers /\ x # Name(i) /\ Display(x) # x
      BY <1>3, ReadsOfOperation
    <2>2. \A n \in op.seeds : x # Display(n)
      BY <2>1, ReadsOfOperation, SeedNames
    <2> QED
      BY <1>1, <1>2, <2>1, <2>2
  <1>4. ASSUME NEW x \in loads, x \notin ins PROVE x \in excepted
    BY <1>1, <1>2, <1>4
  <1> QED
    BY <1>3, <1>4

(* What the body of a fused region names beyond its signature. *)
LEMMA FusedSignature ==
    ASSUME operations \in Seq(OperationType), NEW S \in SUBSET DOMAIN operations
    PROVE  Unnamed(FusedNode(S)) = UNION {Suffixed(operations[i]) : i \in S}
  <1> DEFINE reads == UNION {Reads(operations[i]) : i \in S}
             names == {Name(i) : i \in S}
             loads == UNION {BodyNames(operations[i]) : i \in S}
             seeds == UNION {Suffixed(operations[i]) : i \in S}
  <1>1. \A i \in S : operations[i] \in OperationType
    OBVIOUS
  <1>2. Unnamed(FusedNode(S)) = loads \ ((reads \ names) \cup names)
    BY RegionFields DEF Unnamed, FusedNode, FusedInputs
  <1>3. ASSUME NEW x \in seeds
        PROVE  x \in loads /\ x \notin reads /\ x \notin names
    <2>1. PICK i \in S : x \in Suffixed(operations[i])
      OBVIOUS
    <2>2. PICK n \in operations[i].seeds : x = Display(n) /\ Display(n) # n
      BY <2>1 DEF Suffixed
    <2>3. n \in Buffers
      BY <1>1, <2>2, ReadsOfOperation
    <2>4. x \notin Buffers /\ x \notin names
      BY <2>2, <2>3, SeedNames
    <2>5. reads \subseteq Buffers
      BY <1>1, ReadsOfOperation
    <2>6. x \in BodyNames(operations[i])
      BY <2>2 DEF BodyNames
    <2> QED
      BY <2>4, <2>5, <2>6
  <1>4. ASSUME NEW x \in loads, x \notin reads PROVE x \in seeds
    <2>1. PICK i \in S : x \in BodyNames(operations[i])
      OBVIOUS
    <2>2. \A n \in Reads(operations[i]) : n # x
      BY <1>4
    <2>3. PICK n \in operations[i].seeds : x = Display(n)
      BY <1>1, <2>1, <2>2, ReadsOfOperation DEF BodyNames
    <2>4. Display(n) # n
      BY <1>1, <2>2, <2>3, ReadsOfOperation
    <2> QED
      BY <2>3, <2>4 DEF Suffixed
  <1> QED
    BY <1>2, <1>3, <1>4

(* Every printed region names what its signature lists. *)
LEMMA PrintedSignature ==
    ASSUME GraphKnown, NEW S \in SUBSET DOMAIN operations, NEW r, Prints(S, r)
    PROVE  SignatureRight(operations, r)
  <1>1. operations \in Seq(OperationType) /\ \A i \in S : operations[i] \in OperationType
    BY DEF GraphKnown
  <1>2. CASE \E i \in S : S = {i} /\ r = FormatOperation(i)
    <2>1. PICK i \in S : S = {i} /\ r = FormatOperation(i)
      BY <1>2
    <2> DEFINE op == operations[i]
    <2>2. {operations[j] : j \in r.ops} = {op}
      BY <2>1, OpsOfRegions
    <2>3. CASE op.kind \in {"loops", "scan"}
      <3>1. /\ r.kind = "operation" /\ r.loads = BodyNames(op)
            /\ r.ins \cup r.outs = InputVariables(Reads(op), op.seeds) \cup {Name(i)}
        BY <1>1, <2>1, <2>3, ReadsOfOperation, RegionFields DEF FormatOperation, Loops, Scan
      <3>2. Name(i) \notin Reads(op)
        BY <1>1, ReadsBelow DEF GraphKnown
      <3>3. Unnamed(r) = {n \in op.data \cap op.seeds : Display(n) # n}
        BY <1>1, <3>1, <3>2, LoopsSignature DEF Unnamed
      <3> QED
        BY <2>2, <2>3, <3>1, <3>3 DEF SignatureRight
    <2>4. CASE op.kind \notin {"loops", "scan"}
      <3>1. r = Unimplemented(i)
        BY <2>1, <2>4 DEF FormatOperation
      <3>2. r.kind = "operation" /\ Unnamed(r) = {}
        BY <3>1, RegionFields DEF Unimplemented, Unnamed
      <3> QED
        BY <2>2, <2>4, <3>2 DEF SignatureRight
    <2> QED
      BY <2>3, <2>4
  <1>3. CASE r = FusedNode(S)
    <2>1. r.kind = "fused" /\ r.ops = S
      BY <1>3, RegionFields DEF FusedNode
    <2>2. UNION {Suffixed(op) : op \in {operations[i] : i \in S}}
            = UNION {Suffixed(operations[i]) : i \in S}
      OBVIOUS
    <2> QED
      BY <1>1, <1>3, <2>1, <2>2, FusedSignature DEF SignatureRight
  <1>4. CASE r = OpaqueNode(S)
    <2>1. r.kind = "opaque" /\ Unnamed(r) = {}
      BY <1>4, RegionFields DEF OpaqueNode, Unnamed
    <2> QED
      BY <2>1 DEF SignatureRight
  <1> QED
    BY <1>2, <1>3, <1>4 DEF Prints

(* So does a view of an output. *)
LEMMA ViewSignature == ASSUME NEW k PROVE SignatureRight(operations, ViewRegion(k))
  <1>1. ViewRegion(k).kind = "view"
        /\ Unnamed(ViewRegion(k)) =
             {outputs[k].of} \ (InputVariables({outputs[k].of}, {}) \cup {ViewName(k)})
    BY RegionFields DEF ViewRegion, Unnamed
  <1>2. InputVariables({outputs[k].of}, {}) = {outputs[k].of}
    BY DEF InputVariables
  <1>3. Unnamed(ViewRegion(k)) = {}
    BY <1>1, <1>2
  <1> QED
    BY <1>1, <1>3 DEF SignatureRight

(* Signatures, step by step. *)
LEMMA SignaturesNext ==
    PrintInv /\ SignaturesNameLoads /\ [Next]_vars => SignaturesNameLoads'
  <1> SUFFICES ASSUME PrintInv, SignaturesNameLoads, [Next]_vars
               PROVE  SignaturesNameLoads'
    OBVIOUS
  <1>1. \A k \in DOMAIN regions : SignatureRight(operations, regions[k])
    BY SignaturesByRegion
  <1>2. ASSUME AddOperation PROVE SignaturesNameLoads'
    <2>1. PICK op : Added(op)
      BY <1>2, AddsOperation DEF PrintInv
    <2>2. regions' = <<>>
      BY <2>1 DEF Added, PrintInv, ProgramGrows
    <2> QED
      BY <2>2, SignaturesByRegion
  <1>3. ASSUME FormatNext \/ FormatSchedulerNode \/ FormatFusedNode \/ FormatOpaqueNode
        PROVE  SignaturesNameLoads'
    <2>1. PICK S, r : Emits(S, r)
      BY <1>3, EmitsNext, EmitsScheduled
    <2>2. SignatureRight(operations, r)
      BY <2>1, EmitFacts, PrintedSignature DEF Emits, PrintInv
    <2>3. \A k \in DOMAIN regions' : SignatureRight(operations, regions'[k])
      BY <1>1, <2>1, <2>2, EmitFacts
    <2>4. operations' = operations
      BY <2>1, EmitFacts
    <2> QED
      BY <2>3, <2>4, SignaturesByRegion
  <1>4. ASSUME FormatOutput PROVE SignaturesNameLoads'
    <2> DEFINE k == viewed + 1
    <2>1. operations' = operations
      BY <1>4, OutputFacts
    <2>2. CASE IsView(k)
      <3>1. /\ DOMAIN regions' = DOMAIN regions \cup {Len(regions) + 1}
            /\ \A n \in DOMAIN regions : regions'[n] = regions[n]
            /\ regions'[Len(regions) + 1] = ViewRegion(k)
        BY <1>4, <2>2, OutputFacts
      <3> QED
        BY <1>1, <2>1, <3>1, ViewSignature, SignaturesByRegion
    <2>3. CASE ~IsView(k)
      <3>1. regions' = regions
        BY <1>4, <2>3, OutputFacts
      <3> QED
        BY <1>1, <2>1, <3>1, SignaturesByRegion
    <2> QED
      BY <2>2, <2>3
  <1>5. ASSUME UNCHANGED <<operations, regions>> PROVE SignaturesNameLoads'
    BY <1>1, <1>5, SignaturesByRegion
  <1>6. AddOutput \/ RunOperation \/ FormatReturns \/ Raise \/ Finished \/ UNCHANGED vars
          => UNCHANGED <<operations, regions>>
    BY DEF AddOutput, RunOperation, FormatReturns, Raise, Finished, vars, graph
  <1> QED
    BY <1>2, <1>3, <1>4, <1>5, <1>6 DEF Next

(* Signatures name what bodies load, for graphs of any size, in the        *)
(* graph's order and in every order of a scheduler, but for the names of   *)
(* seeds (_input_variables, loop_ir.py:622; fused_scheduler.py:369).       *)
THEOREM SignaturesCoverLoads == Spec => []SignaturesNameLoads
  <1>1. Init => SignaturesNameLoads
    BY DEF Init, SignaturesNameLoads
  <1> QED
    BY <1>1, PrintInvariant, SignaturesNext, PTL DEF Spec

-----------------------------------------------------------------------------
(* Names.  ResolvesAt is NamesResolve for region k of the program regs.    *)

Before(regs, k) == Inputs \cup UNION {Provides(regs[j]) : j \in 1..(k - 1)}
ResolvesAt(regs, k) ==
    regs[k].ins \subseteq Before(regs, k) \cup {Display(n) : n \in Before(regs, k)}

(* The property, one region at a time, before and after a step. *)
LEMMA NamesByRegion ==
    /\ NamesResolve <=> \A k \in DOMAIN regions : ResolvesAt(regions, k)
    /\ NamesResolve' <=> \A k \in DOMAIN regions' : ResolvesAt(regions', k)
  BY DEF NamesResolve, ResolvesAt, Before, Provides

(* What resolves still does when more regions follow. *)
LEMMA ResolvesInLonger ==
    ASSUME NEW regs \in Seq(RegionType), NEW longer, NEW k \in DOMAIN regs,
           \A n \in DOMAIN regs : longer[n] = regs[n],
           ResolvesAt(regs, k)
    PROVE  ResolvesAt(longer, k)
  <1>1. k \in 1..Len(regs) /\ DOMAIN regs = 1..Len(regs) /\ Len(regs) \in Nat
    OBVIOUS
  <1>2. \A j \in 1..(k - 1) : longer[j] = regs[j]
    BY <1>1
  <1>3. Before(longer, k) = Before(regs, k)
    BY <1>2 DEF Before
  <1> QED
    BY <1>3 DEF ResolvesAt

(* Inputs and the buffers of printed operations resolve in a region that   *)
(* is printed next.                                                        *)
Known == Inputs \cup {Name(i) : i \in printed}

(* A region whose inputs are known resolves. *)
LEMMA KnownResolves ==
    ASSUME PrintInv, NEW regs, NEW names, NEW renamed,
           \A n \in DOMAIN regions : regs[n] = regions[n],
           names \subseteq Known,
           regs[Len(regions) + 1].ins = InputVariables(names, renamed)
    PROVE  ResolvesAt(regs, Len(regions) + 1)
  <1> DEFINE k == Len(regions) + 1
  <1>1. DOMAIN regions = 1..(k - 1)
    BY DEF PrintInv, ProgramGrows
  <1>2. \A i \in printed : \E j \in 1..(k - 1) : Name(i) \in Provides(regs[j])
    BY <1>1 DEF PrintInv, PrintedProvided
  <1>3. Known \subseteq Before(regs, k)
    BY <1>2 DEF Known, Before
  <1>4. InputVariables(names, renamed) \subseteq
          Before(regs, k) \cup {Display(n) : n \in Before(regs, k)}
    BY <1>3 DEF InputVariables
  <1> QED
    BY <1>4 DEF ResolvesAt

(* What the regions of S take in. *)
LEMMA PrintedInputs ==
    ASSUME PrintInv, NEW S, NEW r, Emits(S, r)
    PROVE  \E names, renamed : names \subseteq Known /\ r.ins = InputVariables(names, renamed)
  <1>1. \A i \in S : i \in DOMAIN operations /\ operations[i] \in OperationType
    BY EmitFacts DEF PrintInv, GraphKnown
  <1>2. ASSUME NEW i \in S, NEW n \in Reads(operations[i])
        PROVE  n \in Inputs \/ \E m \in printed \cup S : n = Name(m) /\ m # i
    <2>1. n \in Inputs \/ \E m \in Nat : n = Name(m)
      BY <1>1, <1>2, ReadsOfOperation DEF Buffers
    <2>2. \A m \in Nat : n = Name(m) => m \in printed \cup S
      BY <1>2 DEF Emits, ReadsPrinted
    <2>3. \A m \in Nat : n = Name(m) => m < i
      BY <1>1, <1>2, ReadsBelow DEF PrintInv
    <2>4. i \in Nat
      BY <1>1 DEF PrintInv, GraphKnown
    <2> QED
      BY <2>1, <2>2, <2>3, <2>4
  <1>3. CASE \E i \in S : S = {i} /\ r = FormatOperation(i)
    <2>1. PICK i \in S : S = {i} /\ r = FormatOperation(i)
      BY <1>3
    <2>2. Reads(operations[i]) \subseteq Known
      BY <1>2, <2>1 DEF Known
    <2>3. \/ \E renamed : r.ins = InputVariables(Reads(operations[i]), renamed)
          \/ \E renamed : r.ins = InputVariables(operations[i].declared, renamed)
      BY <2>1, RegionFields DEF FormatOperation, Loops, Scan, Unimplemented
    <2>4. operations[i].declared \subseteq Reads(operations[i])
      BY <1>1, <2>1, ReadsOfOperation
    <2> QED
      BY <2>2, <2>3, <2>4
  <1>4. CASE r = FusedNode(S)
    <2>1. r.ins = FusedInputs(S)
      BY <1>4, RegionFields DEF FusedNode
    <2>2. FusedInputs(S) \subseteq Known
      BY <1>2 DEF FusedInputs, Known
    <2>3. FusedInputs(S) = InputVariables(FusedInputs(S), {})
      BY DEF InputVariables
    <2> QED
      BY <2>1, <2>2, <2>3
  <1>5. CASE r = OpaqueNode(S)
    <2>1. r.ins = InputVariables({}, {})
      BY <1>5, RegionFields DEF OpaqueNode, InputVariables
    <2> QED
      BY <2>1
  <1> QED
    BY <1>3, <1>4, <1>5 DEF Emits, Prints

(* Every step keeps names resolvable. *)
LEMMA NamesNext == PrintInv /\ NamesResolve /\ [Next]_vars => NamesResolve'
  <1> SUFFICES ASSUME PrintInv, NamesResolve, [Next]_vars PROVE NamesResolve'
    OBVIOUS
  <1>1. \A k \in DOMAIN regions : ResolvesAt(regions, k)
    BY NamesByRegion
  <1>2. regions \in Seq(RegionType)
    BY DEF PrintInv, ProgramGrows
  <1>3. ASSUME AddOperation PROVE NamesResolve'
    <2>1. PICK op : Added(op)
      BY <1>3, AddsOperation DEF PrintInv
    <2>2. regions' = <<>>
      BY <2>1 DEF Added, PrintInv, ProgramGrows
    <2> QED
      BY <2>2, NamesByRegion
  <1>4. ASSUME FormatNext \/ FormatSchedulerNode \/ FormatFusedNode \/ FormatOpaqueNode
        PROVE  NamesResolve'
    <2>1. PICK S, r : Emits(S, r)
      BY <1>4, EmitsNext, EmitsScheduled
    <2>2. PICK names, renamed : names \subseteq Known /\ r.ins = InputVariables(names, renamed)
      BY <2>1, PrintedInputs
    <2>3. /\ DOMAIN regions' = DOMAIN regions \cup {Len(regions) + 1}
          /\ \A k \in DOMAIN regions : regions'[k] = regions[k]
          /\ regions'[Len(regions) + 1] = r
      BY <2>1, EmitFacts
    <2>4. ResolvesAt(regions', Len(regions) + 1)
      BY <2>2, <2>3, KnownResolves
    <2>5. \A k \in DOMAIN regions : ResolvesAt(regions', k)
      BY <1>1, <1>2, <2>3, ResolvesInLonger
    <2> QED
      BY <2>3, <2>4, <2>5, NamesByRegion
  <1>5. ASSUME FormatOutput PROVE NamesResolve'
    <2> DEFINE k == viewed + 1
    <2>1. CASE IsView(k)
      <3>1. /\ DOMAIN regions' = DOMAIN regions \cup {Len(regions) + 1}
            /\ \A n \in DOMAIN regions : regions'[n] = regions[n]
            /\ regions'[Len(regions) + 1] = ViewRegion(k)
            /\ printed = DOMAIN operations /\ k \in DOMAIN outputs
        BY <1>5, <2>1, OutputFacts
      <3>2. {outputs[k].of} \subseteq Known
        <4>1. outputs[k].of \in Defined(Len(operations))
          BY <2>1, <3>1, ViewRegionKnown
        <4>2. DOMAIN operations = 1..Len(operations)
          BY DEF PrintInv, GraphKnown
        <4> QED
          BY <3>1, <4>1, <4>2 DEF Known, Defined
      <3>3. ViewRegion(k).ins = InputVariables({outputs[k].of}, {})
        BY RegionFields DEF ViewRegion
      <3>4. ResolvesAt(regions', Len(regions) + 1)
        BY <3>1, <3>2, <3>3, KnownResolves
      <3>5. \A n \in DOMAIN regions : ResolvesAt(regions', n)
        BY <1>1, <1>2, <3>1, ResolvesInLonger
      <3> QED
        BY <3>1, <3>4, <3>5, NamesByRegion
    <2>2. CASE ~IsView(k)
      <3>1. regions' = regions
        BY <1>5, <2>2, OutputFacts
      <3> QED
        BY <1>1, <3>1, NamesByRegion
    <2> QED
      BY <2>1, <2>2
  <1>6. ASSUME UNCHANGED regions PROVE NamesResolve'
    BY <1>1, <1>6, NamesByRegion
  <1>7. AddOutput \/ RunOperation \/ FormatReturns \/ Raise \/ Finished \/ UNCHANGED vars
          => UNCHANGED regions
    BY DEF AddOutput, RunOperation, FormatReturns, Raise, Finished, vars, graph
  <1> QED
    BY <1>3, <1>4, <1>5, <1>6, <1>7 DEF Next

(* Every name in a signature is a graph input or the buffer of an earlier  *)
(* region, up to the suffix of seeds, in the graph's order and in every    *)
(* order of a scheduler that keeps data dependences                        *)
(* (build_fused_scheduler_loop_ir, fused_scheduler.py:392).                *)
THEOREM NamesAlwaysResolve == Spec => []NamesResolve
  <1>1. Init => NamesResolve
    BY DEF Init, NamesResolve
  <1> QED
    BY <1>1, PrintInvariant, NamesNext, PTL DEF Spec

-----------------------------------------------------------------------------
(* Values.  What an operation computes depends on the buffers it reads.    *)

(* Values are told apart from the lack of one. *)
LEMMA KindsDiffer ==
    /\ \A n : Original(n) # Undefined
    /\ \A v : ViewOf(v) = Undefined <=> v = Undefined
  <1>1. Undefined.kind = "undefined" /\ \A n : Original(n).kind = "input"
    BY DEF Undefined, Original
  <1>2. \A v : v # Undefined => ViewOf(v).kind = "view"
    BY DEF ViewOf
  <1>3. ViewOf(Undefined) = Undefined
    BY DEF ViewOf
  <1> QED
    BY <1>1, <1>2, <1>3

Agree(f, g, names) ==
    \A n \in names : n \in DOMAIN f /\ n \in DOMAIN g /\ f[n] = g[n] /\ f[n] # Undefined

(* A result depends only on what the operation reads. *)
LEMMA ResultCongruent ==
    ASSUME NEW op \in OperationType, NEW i, NEW f, NEW g, Agree(f, g, Reads(op))
    PROVE  Result(i, op, f) = Result(i, op, g) /\ Result(i, op, f) # Undefined
  <1>1. \A n \in Reads(op) : At(f, n) # Undefined /\ At(g, n) # Undefined
    BY DEF At, Agree
  <1>2. [n \in op.data |-> f[n]] = [n \in op.data |-> g[n]]
        /\ [n \in op.seeds |-> f[n]] = [n \in op.seeds |-> g[n]]
    BY ReadsOfOperation DEF Agree
  <1>3. Result(i, op, f) = Result(i, op, g) /\ Result(i, op, f).kind = "result"
    BY <1>1, <1>2 DEF Result
  <1> QED
    BY <1>3 DEF Undefined

(* It is undefined when something it reads is. *)
LEMMA ResultUndefined ==
    ASSUME NEW op, NEW i, NEW f, NEW n \in Reads(op), At(f, n) = Undefined
    PROVE  Result(i, op, f) = Undefined
  BY DEF Result

(* What the operations read: inputs as they were first. *)
LEMMA ReadingFacts ==
    ASSUME NEW v, NEW n \in DOMAIN v
    PROVE  /\ DOMAIN Reading(v) = DOMAIN v
           /\ n \in Inputs => Reading(v)[n] = Original(n)
           /\ n \notin Inputs => Reading(v)[n] = v[n]
  BY DEF Reading

-----------------------------------------------------------------------------
(* The graph's values. *)

(* Only inputs are overwritten. *)
LEMMA TargetsAreInputs ==
    ASSUME GraphKnown, NEW i \in DOMAIN operations, operations[i].target # None
    PROVE  operations[i].target \in Inputs
  BY ReadsOfOperation, NamesAssumption DEF GraphKnown

(* Values keep their meaning when an operation is added, *)
LEMMA AddedMeaning ==
    ASSUME PrintInv, GraphMeaning, NEW op, Added(op)
    PROVE  GraphMeaning'
  <1> DEFINE i == Len(operations) + 1
  <1>1. GraphKnown /\ op \in OperationType /\ Reads(op) \subseteq DOMAIN value
    BY DEF PrintInv, Added
  <1>2. /\ DOMAIN operations' = DOMAIN operations \cup {i} /\ operations'[i] = op
        /\ \A j \in DOMAIN operations : operations'[j] = operations[j] /\ j < i
        /\ i \notin DOMAIN operations
    BY <1>1, SequencesGrow DEF Added, GraphKnown
  <1>3. /\ DOMAIN value' = DOMAIN value \cup {Name(i)} /\ Name(i) \notin DOMAIN value
        /\ value'[Name(i)] = Result(i, op, value)
        /\ op.target # None => op.target \in DOMAIN value
                               /\ value'[op.target] = Result(i, op, value)
        /\ \A n \in DOMAIN value : n # op.target => value'[n] = value[n]
    BY <1>1, AddedValue
  <1>4. Inputs \subseteq DOMAIN value /\ None \notin DOMAIN value
    BY <1>1, NamesDiffer, DefinedGrows DEF GraphKnown, Defined
  <1>5. op.target \in Inputs \/ op.target = None
    BY <1>1, ReadsOfOperation, NamesAssumption
  <1> HIDE DEF i
  <1>6. Agree(value, value, Reads(op))
    BY <1>1 DEF Agree, GraphMeaning
  <1>7. Result(i, op, value) # Undefined
    BY <1>1, <1>6, ResultCongruent
  <1>8. \A n \in DOMAIN value' : value'[n] # Undefined
    <2> SUFFICES ASSUME NEW n \in DOMAIN value' PROVE value'[n] # Undefined
      OBVIOUS
    <2>1. CASE n = Name(i) \/ n = op.target
      BY <1>3, <1>4, <1>7, <2>1
    <2>2. CASE n \in DOMAIN value /\ n # op.target
      BY <1>3, <2>2 DEF GraphMeaning
    <2> QED
      BY <1>3, <2>1, <2>2
  <1>9. \A n \in Inputs : \/ value'[n] = Original(n)
                          \/ \E j \in DOMAIN operations' : operations'[j].target = n
    <2> SUFFICES ASSUME NEW n \in Inputs, n # op.target
                 PROVE  \/ value'[n] = Original(n)
                        \/ \E j \in DOMAIN operations' : operations'[j].target = n
      BY <1>2
    <2>1. value'[n] = value[n]
      BY <1>3, <1>4
    <2> QED
      BY <1>2, <2>1 DEF GraphMeaning
  <1>10. ASSUME ~Stale'
         PROVE  \A j \in DOMAIN operations' :
                   value'[Name(j)] = Result(j, operations'[j], Reading(value'))
    <2>1. \A j, k \in DOMAIN operations' :
              operations'[j].target # None /\ k > j
                => operations'[j].target \notin Reads(operations'[k])
      BY <1>10 DEF Stale
    <2>2. ~Stale
      <3>1. \A j, k \in DOMAIN operations :
                operations[j].target # None /\ k > j
                  => operations[j].target \notin Reads(operations[k])
        BY <1>2, <2>1
      <3>2. outputs = <<>>
        BY DEF Added
      <3> QED
        BY <3>1, <3>2 DEF Stale
    <2>3. \A n \in DOMAIN value : Reading(value')[n] = Reading(value)[n]
                                  /\ Reading(value)[n] # Undefined
      <3> SUFFICES ASSUME NEW n \in DOMAIN value
                   PROVE  Reading(value')[n] = Reading(value)[n]
                          /\ Reading(value)[n] # Undefined
        OBVIOUS
      <3>1. n \in DOMAIN value'
        BY <1>3
      <3>2. CASE n \in Inputs
        BY <3>1, <3>2, ReadingFacts, KindsDiffer
      <3>3. CASE n \notin Inputs
        <4>1. value'[n] = value[n]
          BY <1>3, <1>4, <1>5, <3>3
        <4> QED
          BY <3>1, <3>3, <4>1, ReadingFacts DEF GraphMeaning
      <3> QED
        BY <3>2, <3>3
    <2>4. DOMAIN Reading(value) = DOMAIN value /\ DOMAIN Reading(value') = DOMAIN value'
      BY DEF Reading
    <2>5. \A n \in Reads(op) : Reading(value)[n] = value[n]
      <3> SUFFICES ASSUME NEW n \in Reads(op), n \in Inputs PROVE Reading(value)[n] = value[n]
        BY <1>1, ReadingFacts
      <3>1. \A j \in DOMAIN operations : operations[j].target # n
        BY <1>2, <2>1, NamesDiffer
      <3> QED
        BY <1>1, <3>1, ReadingFacts DEF GraphMeaning
    <2>6. CASE \A j \in DOMAIN operations :
                  value[Name(j)] = Result(j, operations[j], Reading(value))
      <3>1. Agree(value, Reading(value'), Reads(op))
        BY <1>1, <1>3, <2>3, <2>4, <2>5 DEF Agree
      <3>2. value'[Name(i)] = Result(i, op, Reading(value'))
        BY <1>1, <1>3, <3>1, ResultCongruent
      <3>3. ASSUME NEW j \in DOMAIN operations
            PROVE  value'[Name(j)] = Result(j, operations'[j], Reading(value'))
        <4>1. operations[j] \in OperationType /\ Reads(operations[j]) \subseteq DOMAIN value
          <5>1. j - 1 \in Nat /\ j - 1 <= Len(operations) /\ Len(operations) \in Nat
            BY <1>1 DEF GraphKnown
          <5> QED
            BY <1>1, <5>1, DefinedGrows DEF GraphKnown
        <4>2. Agree(Reading(value), Reading(value'), Reads(operations[j]))
          BY <1>3, <2>3, <2>4, <4>1 DEF Agree
        <4>3. Name(j) \in DOMAIN value /\ Name(j) # op.target
          BY <1>1, <1>5, NamesDiffer DEF GraphKnown, Defined
        <4> QED
          BY <1>2, <1>3, <2>6, <4>1, <4>2, <4>3, ResultCongruent
      <3> QED
        BY <1>2, <3>2, <3>3
    <2> QED
      BY <2>2, <2>6 DEF GraphMeaning
  <1> QED
    BY <1>8, <1>9, <1>10 DEF GraphMeaning

(* or an output, *)
LEMMA AddOutputMeaning ==
    ASSUME PrintInv, GraphMeaning, AddOutput
    PROVE  GraphMeaning'
  <1>1. UNCHANGED <<operations, value>>
    BY DEF AddOutput
  <1>2. /\ DOMAIN outputs \subseteq DOMAIN outputs'
        /\ \A k \in DOMAIN outputs : outputs'[k] = outputs[k]
    BY DEF AddOutput, PrintInv, GraphKnown
  <1>3. Stale => Stale'
    BY <1>1, <1>2 DEF Stale
  <1> QED
    BY <1>1, <1>3 DEF GraphMeaning

(* or when the graph is left alone. *)
LEMMA SameGraphMeaning ==
    ASSUME GraphMeaning, UNCHANGED <<operations, outputs, value>>
    PROVE  GraphMeaning' /\ (Stale' <=> Stale)
  BY DEF GraphMeaning, Stale

-----------------------------------------------------------------------------
(* What running the program leaves. *)

(* While nothing is printed, memory holds nothing but inputs. *)
LEMMA NothingPrinted ==
    ASSUME PrintInv, PrintInv', MemoryMeaning, printed = {},
           UNCHANGED <<printed, regions, running, memory, viewed, returns>>
    PROVE  MemoryMeaning' /\ OutputsMeaning'
  <1>1. \A i \in Nat : Name(i) \notin DOMAIN memory
    BY DEF MemoryMeaning
  <1>2. DOMAIN operations' \subseteq Nat /\ operations' \in Seq(OperationType)
    BY DEF PrintInv, GraphKnown
  <1>3. MemoryMeaning'
    BY <1>1, <1>2 DEF MemoryMeaning
  <1>4. viewed' = 0
    <2>1. CASE outputs' = <<>>
      BY <2>1 DEF PrintInv, ProgramGrows
    <2>2. CASE outputs' # <<>>
      <3>1. operations' # <<>> /\ viewed' \in Nat /\ printed' = {}
        BY <2>2 DEF PrintInv, ProgramGrows, GraphKnown
      <3>2. Len(operations') > 0 /\ Len(operations') \in Nat
            /\ DOMAIN operations' = 1..Len(operations')
        BY <1>2, <3>1
      <3>3. DOMAIN operations' # {}
        BY <3>2
      <3> QED
        BY <3>1, <3>3 DEF PrintInv, ProgramGrows
    <2> QED
      BY <2>1, <2>2
  <1>5. returns' = <<>>
    <2>1. SUFFICES ASSUME outputs' # <<>>, Len(outputs') = 0 PROVE FALSE
      BY <1>4 DEF PrintInv, ProgramGrows
    <2> QED
      BY <2>1 DEF PrintInv, GraphKnown
  <1>6. OutputsMeaning'
    BY <1>4, <1>5 DEF OutputsMeaning
  <1> QED
    BY <1>3, <1>6

(* Emitting a region keeps what memory and outputs mean. *)
LEMMA EmitsKeepsValues ==
    ASSUME ValuesInv, NEW S, NEW r, Emits(S, r)
    PROVE  GraphMeaning' /\ MemoryMeaning' /\ OutputsMeaning'
  <1>1. PrintInv /\ GraphMeaning /\ MemoryMeaning
    BY DEF ValuesInv
  <1>2. /\ S \cap printed = {} /\ running = {} /\ viewed' = 0 /\ returns' = <<>>
        /\ printed' = printed \cup S
        /\ running' = {i \in S : Name(i) \in r.outs}
        /\ DOMAIN regions' = DOMAIN regions \cup {Len(regions) + 1}
        /\ \A k \in DOMAIN regions : regions'[k] = regions[k]
        /\ regions'[Len(regions) + 1] = r
        /\ UNCHANGED <<operations, outputs, value, memory>>
    BY <1>1, EmitFacts
  <1>3. GraphMeaning' /\ (Stale' <=> Stale)
    BY <1>1, <1>2, SameGraphMeaning
  <1>4. Opaque => Opaque'
    BY <1>2 DEF Opaque
  <1>5. Opaque' \/ (running' = S /\ ~Opaque)
    <2>1. r.kind = "opaque" \/ running' = S
      BY <1>2, PrintedOuts DEF Emits
    <2>2. r.kind = "opaque" => Opaque'
      BY <1>2 DEF Opaque
    <2> QED
      BY <1>4, <2>1, <2>2
  <1>6. \A i \in Nat : Name(i) \in DOMAIN memory => i \in printed' \ running'
    BY <1>1, <1>2 DEF MemoryMeaning
  <1>7. Opaque' \/ \A i \in printed' \ running' : Name(i) \in DOMAIN memory
    BY <1>1, <1>2, <1>5 DEF MemoryMeaning
  <1>8. MemoryMeaning'
    BY <1>1, <1>2, <1>3, <1>4, <1>6, <1>7 DEF MemoryMeaning
  <1>9. OutputsMeaning'
    BY <1>2 DEF OutputsMeaning
  <1> QED
    BY <1>3, <1>8, <1>9

(* What an operation of the last region computes: its reads are inputs or  *)
(* have been run, unless some node has no rendering.                       *)
LEMMA RunResult ==
    ASSUME ValuesInv, NEW i \in running, \A j \in running : i <= j
    PROVE  \/ Stale
           \/ Result(i, operations[i], memory) = value[Name(i)]
           \/ Opaque /\ Result(i, operations[i], memory) = Undefined
  <1> DEFINE op == operations[i]
  <1>1. PrintInv /\ GraphKnown /\ GraphMeaning /\ MemoryMeaning
    BY DEF ValuesInv, PrintInv
  <1>2. i \in printed /\ i \in DOMAIN operations /\ i \in Nat /\ op \in OperationType
        /\ operations \in Seq(OperationType) /\ i <= Len(operations) /\ Len(operations) \in Nat
    BY <1>1 DEF PrintInv, ProgramGrows, GraphKnown
  <1>3. SUFFICES ASSUME ~Stale
                 PROVE  \/ Result(i, op, memory) = value[Name(i)]
                        \/ Opaque /\ Result(i, op, memory) = Undefined
    OBVIOUS
  <1>4. value[Name(i)] = Result(i, op, Reading(value))
    BY <1>1, <1>2, <1>3 DEF GraphMeaning
  <1>5. Reads(op) \subseteq DOMAIN value /\ DOMAIN Reading(value) = DOMAIN value
    <2>1. Defined(i - 1) \subseteq Defined(Len(operations))
      BY <1>2, DefinedGrows
    <2> QED
      BY <1>1, <1>2, <2>1 DEF GraphKnown, Reading
  <1>6. ASSUME NEW n \in Reads(op)
        PROVE  \/ n \in DOMAIN memory /\ memory[n] = Reading(value)[n]
                  /\ memory[n] # Undefined
               \/ Opaque /\ At(memory, n) = Undefined
    <2>1. CASE n \in Inputs
      BY <1>1, <1>5, <2>1, KindsDiffer, ReadingFacts DEF MemoryMeaning
    <2>2. CASE n \notin Inputs
      <3>1. PICK m \in Nat : n = Name(m)
        BY <1>2, <2>2, ReadsOfOperation DEF Buffers
      <3>2. m \in DOMAIN operations /\ m < i
        BY <1>1, <1>2, <3>1, ReadsBelow
      <3>3. m \in printed \ running
        BY <1>1, <1>2, <3>1, <3>2 DEF PrintInv, PrintedInOrder, ReadsPrinted
      <3>4. Reading(value)[n] = value[n] /\ value[n] # Undefined
        BY <1>1, <1>5, <2>2, ReadingFacts DEF GraphMeaning
      <3>5. CASE n \in DOMAIN memory
        BY <1>1, <1>3, <3>1, <3>2, <3>4, <3>5 DEF MemoryMeaning, At
      <3>6. CASE n \notin DOMAIN memory
        BY <1>1, <3>1, <3>3, <3>6 DEF MemoryMeaning, At
      <3> QED
        BY <3>5, <3>6
    <2> QED
      BY <2>1, <2>2
  <1>7. CASE \A n \in Reads(op) : n \in DOMAIN memory /\ memory[n] = Reading(value)[n]
                                  /\ memory[n] # Undefined
    <2>1. Agree(memory, Reading(value), Reads(op))
      BY <1>5, <1>7 DEF Agree
    <2> QED
      BY <1>2, <1>4, <2>1, ResultCongruent
  <1>8. CASE \E n \in Reads(op) : Opaque /\ At(memory, n) = Undefined
    BY <1>8, ResultUndefined
  <1> QED
    BY <1>6, <1>7, <1>8

(* So does running one of its operations, *)
LEMMA RunKeepsValues ==
    ASSUME ValuesInv, RunOperation
    PROVE  GraphMeaning' /\ MemoryMeaning' /\ OutputsMeaning'
  <1>1. PrintInv /\ GraphMeaning /\ MemoryMeaning
    BY DEF ValuesInv
  <1>2. PICK i \in running :
            /\ \A j \in running : i <= j
            /\ memory' = Updated(memory, Name(i), Result(i, operations[i], memory))
            /\ running' = running \ {i}
            /\ UNCHANGED <<graph, printed, regions, viewed, returns>>
    BY DEF RunOperation
  <1> DEFINE b == Name(i)
             v == Result(i, operations[i], memory)
  <1>3. UNCHANGED <<operations, outputs, value, printed, regions, viewed, returns>>
    BY <1>2 DEF graph
  <1>4. GraphMeaning' /\ (Stale' <=> Stale) /\ (Opaque' <=> Opaque)
    BY <1>1, <1>3, SameGraphMeaning DEF Opaque
  <1>5. i \in printed /\ i \in Nat /\ i \in DOMAIN operations
    BY <1>1 DEF PrintInv, ProgramGrows, GraphKnown
  <1>6. \/ Stale \/ v = value[b] \/ (Opaque /\ v = Undefined)
    BY <1>2, RunResult
  <1>7. b \notin Inputs /\ \A j : Name(j) = b => j = i
    BY NamesDiffer
  <1>8. memory' = Updated(memory, b, v)
    BY <1>2
  <1> HIDE DEF b, v
  <1>8a. /\ DOMAIN memory' = DOMAIN memory \cup {b} /\ memory'[b] = v
         /\ \A n \in DOMAIN memory : n # b => memory'[n] = memory[n]
    BY <1>8 DEF Updated
  <1>9. \A n \in Inputs : n \in DOMAIN memory' /\ memory'[n] = Original(n)
    BY <1>1, <1>7, <1>8a DEF MemoryMeaning
  <1>10. \A j \in Nat : Name(j) \in DOMAIN memory' => j \in printed' \ running'
    BY <1>1, <1>2, <1>3, <1>5, <1>7, <1>8a DEF MemoryMeaning
  <1>11. Opaque' \/ \A j \in printed' \ running' : Name(j) \in DOMAIN memory'
    BY <1>1, <1>2, <1>3, <1>4, <1>8a DEF MemoryMeaning, b
  <1>12. ASSUME ~Stale', NEW j \in DOMAIN operations', Name(j) \in DOMAIN memory'
         PROVE  \/ memory'[Name(j)] = value'[Name(j)]
                \/ Opaque' /\ memory'[Name(j)] = Undefined
    <2>1. CASE Name(j) = b
      BY <1>3, <1>4, <1>6, <1>8a, <1>12, <2>1
    <2>2. CASE Name(j) # b
      BY <1>1, <1>3, <1>4, <1>8a, <1>12, <2>2 DEF MemoryMeaning
    <2> QED
      BY <2>1, <2>2
  <1>13. MemoryMeaning'
    BY <1>9, <1>10, <1>11, <1>12 DEF MemoryMeaning
  <1>14. viewed' = 0 /\ returns' = <<>>
    <2>1. viewed = 0 /\ printed # {} /\ outputs # <<>>
      BY <1>1, <1>5 DEF PrintInv, ProgramGrows, GraphKnown
    <2>2. returns = <<>>
      BY <1>1, <2>1 DEF PrintInv, ProgramGrows, GraphKnown
    <2> QED
      BY <1>3, <2>1, <2>2
  <1>15. OutputsMeaning'
    BY <1>14 DEF OutputsMeaning
  <1> QED
    BY <1>4, <1>13, <1>15

(* printing an output, *)
LEMMA OutputKeepsValues ==
    ASSUME ValuesInv, FormatOutput
    PROVE  GraphMeaning' /\ MemoryMeaning' /\ OutputsMeaning'
  <1> DEFINE k == viewed + 1
             b == ViewName(k)
             v == ViewOf(At(memory, outputs[k].of))
  <1>1. PrintInv /\ GraphMeaning /\ MemoryMeaning /\ OutputsMeaning
    BY DEF ValuesInv
  <1>2. /\ k \in DOMAIN outputs /\ k \in Nat /\ viewed' = k /\ returns' = <<>>
        /\ UNCHANGED <<operations, outputs, value, printed, running>>
    BY <1>1, OutputFacts
  <1>3. GraphMeaning' /\ (Stale' <=> Stale)
    BY <1>1, <1>2, SameGraphMeaning
  <1>4. CASE ~IsView(k)
    <2>1. UNCHANGED <<regions, memory>>
      BY <1>1, <1>4, OutputFacts
    <2>2. MemoryMeaning'
      BY <1>1, <1>2, <1>3, <2>1 DEF MemoryMeaning, Opaque
    <2>3. viewed \in Nat /\ \A j \in 1..k : j = k \/ j \in 1..viewed
      BY <1>1, <1>2 DEF PrintInv, ProgramGrows
    <2>4. \A j \in 1..k : IsView(j) =>
              /\ ViewName(j) \in DOMAIN memory
              /\ memory[ViewName(j)] = ViewOf(At(memory, outputs[j].of))
      BY <1>1, <1>4, <2>3 DEF OutputsMeaning
    <2>5. OutputsMeaning'
      BY <1>2, <2>1, <2>4 DEF OutputsMeaning, IsView
    <2> QED
      BY <1>3, <2>2, <2>5
  <1>5. CASE IsView(k)
    <2>1. /\ memory' = Updated(memory, b, v)
          /\ DOMAIN regions' = DOMAIN regions \cup {Len(regions) + 1}
          /\ \A n \in DOMAIN regions : regions'[n] = regions[n]
          /\ regions'[Len(regions) + 1] = ViewRegion(k)
      BY <1>1, <1>5, OutputFacts
    <2>2. /\ b \notin Inputs /\ b \notin Buffers /\ \A j : Name(j) # b
          /\ \A j : ViewName(j) = b => j = k
      BY NamesDiffer
    <2>3. ViewRegion(k).kind = "view"
      BY RegionFields DEF ViewRegion
    <2>4. Opaque' <=> Opaque
      BY <2>1, <2>3 DEF Opaque
    <2>5. \A j \in 1..k : IsView(j) => outputs[j].of \in Buffers
      <3>1. \A j \in 1..k : j \in DOMAIN outputs
        BY <1>1, <1>2 DEF PrintInv, GraphKnown
      <3> QED
        BY <1>1, <3>1, ViewRegionKnown
    <2>6. viewed \in Nat /\ \A j \in 1..k : j = k \/ (j \in 1..viewed /\ j # k)
      BY <1>1, <1>2 DEF PrintInv, ProgramGrows
    <2>7. k \in 1..k
      BY <1>2, <2>6
    <2>8. v = ViewOf(At(memory, outputs[k].of))
      OBVIOUS
    <2> HIDE DEF b, v, k
    <2>9. /\ DOMAIN memory' = DOMAIN memory \cup {b} /\ memory'[b] = v
          /\ \A n \in DOMAIN memory : n # b => memory'[n] = memory[n]
      BY <2>1 DEF Updated
    <2>10. MemoryMeaning'
      <3>1. \A n \in Inputs : n \in DOMAIN memory' /\ memory'[n] = Original(n)
        BY <1>1, <2>2, <2>9 DEF MemoryMeaning
      <3>2. \A j \in Nat : Name(j) \in DOMAIN memory' => j \in printed' \ running'
        BY <1>1, <1>2, <2>2, <2>9 DEF MemoryMeaning
      <3>3. Opaque' \/ \A j \in printed' \ running' : Name(j) \in DOMAIN memory'
        BY <1>1, <1>2, <2>4, <2>9 DEF MemoryMeaning
      <3>4. ASSUME ~Stale', NEW j \in DOMAIN operations', Name(j) \in DOMAIN memory'
            PROVE  \/ memory'[Name(j)] = value'[Name(j)]
                   \/ Opaque' /\ memory'[Name(j)] = Undefined
        BY <1>1, <1>2, <1>3, <2>2, <2>4, <2>9, <3>4 DEF MemoryMeaning
      <3> QED
        BY <3>1, <3>2, <3>3, <3>4 DEF MemoryMeaning
    <2>11. \A n \in Buffers : At(memory', n) = At(memory, n)
      BY <2>2, <2>9 DEF At
    <2>12. ASSUME NEW j \in 1..k, IsView(j)
           PROVE  /\ ViewName(j) \in DOMAIN memory'
                  /\ memory'[ViewName(j)] = ViewOf(At(memory', outputs[j].of))
      <3>1. At(memory', outputs[j].of) = At(memory, outputs[j].of)
        BY <2>5, <2>11, <2>12
      <3>2. CASE j = k
        BY <2>8, <2>9, <3>1, <3>2 DEF b
      <3>3. CASE j # k
        <4>1. ViewName(j) # b /\ j \in 1..viewed
          BY <2>2, <2>6, <3>3
        <4> QED
          BY <1>1, <2>9, <2>12, <3>1, <4>1 DEF OutputsMeaning
      <3> QED
        BY <3>2, <3>3
    <2>13. \A j \in 1..viewed' : IsView(j)' =>
              /\ ViewName(j) \in DOMAIN memory'
              /\ memory'[ViewName(j)] = ViewOf(At(memory', outputs'[j].of))
      BY <1>2, <2>12 DEF IsView
    <2>14. OutputsMeaning'
      BY <1>2, <2>13 DEF OutputsMeaning
    <2> QED
      BY <1>3, <2>10, <2>14
  <1> QED
    BY <1>4, <1>5

(* printing the returned names, *)
LEMMA ReturnsKeepValues ==
    ASSUME ValuesInv, FormatReturns
    PROVE  GraphMeaning' /\ MemoryMeaning' /\ OutputsMeaning'
  <1>1. UNCHANGED <<operations, outputs, value, printed, regions, running, memory, viewed>>
        /\ returns' = [k \in DOMAIN outputs |-> ReturnName(k)]
    BY DEF FormatReturns, graph
  <1>2. GraphMeaning' /\ (Stale' <=> Stale) /\ (Opaque' <=> Opaque)
    BY <1>1, SameGraphMeaning DEF ValuesInv, Opaque
  <1>3. MemoryMeaning'
    BY <1>1, <1>2 DEF ValuesInv, MemoryMeaning
  <1>4. returns' = [k \in DOMAIN outputs' |-> ReturnName(k)']
    BY <1>1 DEF ReturnName
  <1>5. OutputsMeaning'
    BY <1>1, <1>4 DEF ValuesInv, OutputsMeaning, IsView
  <1> QED
    BY <1>2, <1>3, <1>5

(* and raising, or doing nothing. *)
LEMMA StutterKeepsValues ==
    ASSUME ValuesInv, Raise \/ UNCHANGED vars
    PROVE  GraphMeaning' /\ MemoryMeaning' /\ OutputsMeaning'
  <1>1. UNCHANGED <<operations, outputs, value, printed, regions, running, memory, viewed,
                    returns>>
    BY DEF Raise, vars, graph
  <1>2. GraphMeaning' /\ (Stale' <=> Stale) /\ (Opaque' <=> Opaque)
    BY <1>1, SameGraphMeaning DEF ValuesInv, Opaque
  <1>3. MemoryMeaning'
    BY <1>1, <1>2 DEF ValuesInv, MemoryMeaning
  <1>4. OutputsMeaning'
    BY <1>1 DEF ValuesInv, OutputsMeaning, IsView, ReturnName
  <1> QED
    BY <1>2, <1>3, <1>4

(* Every step keeps what the values mean. *)
LEMMA ValuesInvNext == ValuesInv /\ [Next]_vars => ValuesInv'
  <1> SUFFICES ASSUME ValuesInv, [Next]_vars PROVE ValuesInv'
    OBVIOUS
  <1>1. PrintInv /\ PrintInv' /\ GraphMeaning /\ MemoryMeaning
    BY PrintInvNext DEF ValuesInv
  <1>2. ASSUME AddOperation PROVE GraphMeaning' /\ MemoryMeaning' /\ OutputsMeaning'
    <2>1. PICK op : Added(op)
      BY <1>1, <1>2, AddsOperation DEF PrintInv
    <2>2. printed = {} /\ UNCHANGED <<printed, regions, running, memory, viewed, returns>>
      BY <1>1, <2>1 DEF Added, PrintInv, ProgramGrows
    <2> QED
      BY <1>1, <2>1, <2>2, AddedMeaning, NothingPrinted
  <1>3. ASSUME AddOutput PROVE GraphMeaning' /\ MemoryMeaning' /\ OutputsMeaning'
    <2>1. printed = {} /\ UNCHANGED <<printed, regions, running, memory, viewed, returns>>
      BY <1>3 DEF AddOutput
    <2> QED
      BY <1>1, <1>3, <2>1, AddOutputMeaning, NothingPrinted
  <1>4. ASSUME FormatNext \/ FormatSchedulerNode \/ FormatFusedNode \/ FormatOpaqueNode
        PROVE  GraphMeaning' /\ MemoryMeaning' /\ OutputsMeaning'
    <2>1. PICK S, r : Emits(S, r)
      BY <1>1, <1>4, EmitsNext, EmitsScheduled
    <2> QED
      BY <2>1, EmitsKeepsValues
  <1>5. Finished => UNCHANGED vars
    BY DEF Finished
  <1>6. GraphMeaning' /\ MemoryMeaning' /\ OutputsMeaning'
    BY <1>2, <1>3, <1>4, <1>5, RunKeepsValues, OutputKeepsValues, ReturnsKeepValues,
       StutterKeepsValues DEF Next
  <1> QED
    BY <1>1, <1>6 DEF ValuesInv

(* They mean it at first. *)
LEMMA ValuesInvInit == Init => ValuesInv
  <1> SUFFICES ASSUME Init PROVE ValuesInv
    OBVIOUS
  <1>1. /\ operations = <<>> /\ outputs = <<>> /\ printed = {} /\ regions = <<>>
        /\ running = {} /\ viewed = 0 /\ returns = <<>>
        /\ DOMAIN value = Inputs /\ memory = value
        /\ \A n \in Inputs : value[n] = Original(n)
    BY DEF Init
  <1>2. GraphMeaning
    BY <1>1, KindsDiffer DEF GraphMeaning
  <1>3. MemoryMeaning
    BY <1>1, NamesDiffer DEF MemoryMeaning
  <1>4. OutputsMeaning
    BY <1>1 DEF OutputsMeaning
  <1> QED
    BY <1>2, <1>3, <1>4, PrintInvInit DEF ValuesInv

(* A buffer that an output names, when everything is printed and run. *)
LEMMA BufferReturned ==
    ASSUME ValuesInv, ~Stale, NEW k \in DOMAIN outputs, outputs[k].of # None,
           printed = DOMAIN operations, running = {}
    PROVE  LET n == outputs[k].of IN
           \/ At(memory, n) = value[n]
           \/ Opaque /\ At(memory, n) = Undefined
  <1> DEFINE n == outputs[k].of
  <1>1. PrintInv /\ GraphKnown /\ GraphMeaning /\ MemoryMeaning
    BY DEF ValuesInv, PrintInv
  <1>2. n \in Defined(Len(operations)) /\ DOMAIN operations = 1..Len(operations)
    BY <1>1 DEF GraphKnown
  <1>3. CASE n \in Inputs
    <2>1. \A i \in DOMAIN operations : operations[i].target # n
      BY DEF Stale
    <2> QED
      BY <1>1, <1>3, <2>1 DEF GraphMeaning, MemoryMeaning, At
  <1>4. CASE n \notin Inputs
    <2>1. PICK i \in DOMAIN operations : n = Name(i)
      BY <1>2, <1>4 DEF Defined
    <2> QED
      BY <1>1, <2>1 DEF MemoryMeaning, At
  <1> QED
    BY <1>3, <1>4

(* Then the values returned are the graph's. *)
LEMMA ValuesAreReturned == ValuesInv => ReturnsGraphOutputs
  <1> SUFFICES ASSUME ValuesInv, NEW k \in DOMAIN returns, ~Stale
               PROVE  LET v == IF returns[k] = None THEN Constant ELSE At(memory, returns[k])
                      IN v = GraphOutput(outputs[k]) \/ (Opaque /\ v = Undefined)
    BY DEF ReturnsGraphOutputs
  <1> DEFINE o == outputs[k]
  <1>1. PrintInv /\ GraphKnown /\ ProgramGrows /\ OutputsMeaning
    BY DEF ValuesInv, PrintInv
  <1>2. returns # <<>> /\ outputs # <<>> /\ viewed = Len(outputs)
    BY <1>1 DEF ProgramGrows
  <1>3. returns = [j \in DOMAIN outputs |-> ReturnName(j)]
    BY <1>1, <1>2 DEF OutputsMeaning
  <1>4. k \in DOMAIN outputs /\ returns[k] = ReturnName(k)
    BY <1>3
  <1>5. outputs \in Seq(OutputType) /\ DOMAIN outputs = 1..Len(outputs) /\ Len(outputs) > 0
        /\ k \in 1..viewed
    BY <1>1, <1>2, <1>4, SequencesGrow DEF GraphKnown
  <1>6. printed = DOMAIN operations /\ running = {}
    BY <1>1, <1>2, <1>5 DEF ProgramGrows
  <1>7. o.kind \in {"view", "buffer", "value"}
    <2>1. o \in OutputType
      BY <1>4, <1>5
    <2> QED
      BY <2>1 DEF OutputType
  <1>8. CASE o.kind = "value"
    BY <1>4, <1>8 DEF ReturnName, GraphOutput
  <1>9. ASSUME o.kind # "value"
        PROVE  /\ o.of # None
               /\ At(memory, o.of) = value[o.of] \/ (Opaque /\ At(memory, o.of) = Undefined)
    <2>1. o.of \in Defined(Len(operations)) /\ o.of \in Buffers
      BY <1>1, <1>4, <1>9, DefinedGrows DEF GraphKnown
    <2>2. o.of # None
      BY <2>1, NamesDiffer
    <2> QED
      BY <1>4, <1>6, <2>2, BufferReturned
  <1>10. CASE o.kind = "buffer"
    <2>1. returns[k] = o.of /\ GraphOutput(o) = value[o.of]
      BY <1>4, <1>10 DEF ReturnName, GraphOutput
    <2> QED
      BY <1>9, <1>10, <2>1
  <1>11. CASE o.kind = "view"
    <2>1. returns[k] = ViewName(k) /\ GraphOutput(o) = ViewOf(value[o.of])
      BY <1>4, <1>11 DEF ReturnName, GraphOutput, ViewName
    <2>2. ViewName(k) # None
      BY DEF ViewName, None
    <2>3. At(memory, ViewName(k)) = ViewOf(At(memory, o.of))
      BY <1>1, <1>5, <1>11 DEF OutputsMeaning, IsView, At
    <2> QED
      BY <1>9, <1>11, <2>1, <2>2, <2>3, KindsDiffer
  <1> QED
    BY <1>7, <1>8, <1>10, <1>11

(* The program returns what the graph outputs, whatever the graph, in the  *)
(* graph's order and in every order of a scheduler that keeps data         *)
(* dependences, with the two exceptions that ReturnsGraphOutputs names     *)
(* (_format_returns, loop_ir.py:603; build_fused_scheduler_loop_ir,        *)
(* fused_scheduler.py:392).                                                *)
THEOREM GraphOutputsReturned == Spec => []ReturnsGraphOutputs
  <1>1. Spec => []ValuesInv
    BY ValuesInvInit, ValuesInvNext, PTL DEF Spec
  <1> QED
    BY <1>1, ValuesAreReturned, PTL
=============================================================================
