-------------------------- MODULE FusionTraceProofs --------------------------
(***************************************************************************)
(* Proofs about FusionTrace: its type invariant, the nesting of patches    *)
(* and of passes, that tracing is transparent, and what captures record    *)
(* (EveryRewriteOnce, PassesReplay).                                       *)
(***************************************************************************)
EXTENDS FusionTrace, SequenceTheorems, TLAPS

-----------------------------------------------------------------------------
(* The inductive invariant. *)

(* Whatever may be called belongs to a capture that was opened: original   *)
(* of such a capture is a function.                                        *)
Opened == {c \in Captures : original[c] # None}

CalleesOpened ==
    /\ installed \in Opened \cup {Plain}
    /\ \A c \in Opened : original[c] \in Opened \cup {Plain}
    /\ control.mode = "call" => control.to \in Opened \cup {Plain}
    /\ \A i \in DOMAIN stack : stack[i].kind = "with" => stack[i].capture \in Opened

(* The wrappers of one call lie on top of each other, and those of         *)
(* fuse_nodes_once below the pass they called.                             *)
Doing(fn) == control.mode \in {"call", "return"} /\ control.fn = fn

StackShape ==
    /\ \A i, j \in DOMAIN stack : j = i + 1 =>
          /\ stack[i].kind = "two" => stack[j].kind = "two"
          /\ stack[i].kind = "once" =>
                stack[j].kind \in {"once", "pass"} /\ stack[j].s = stack[i].s
    /\ TopIs("two") => control = Raising \/ Doing("two")
    /\ TopIs("once") => control = Raising \/ (Doing("once") /\ Top.s = control.s)

(* Every frame names what its kind needs, and the frames of passes and the *)
(* lists the passes work on correspond in order.                           *)
PassAt(i) == i \in DOMAIN stack /\ stack[i].kind = "pass"

FramesKnown ==
    /\ \A i \in DOMAIN stack :
          /\ stack[i].kind \in {"with", "once", "two"} => stack[i].capture \in Captures
          /\ stack[i].kind = "once" => stack[i].at \in DOMAIN passes[stack[i].capture]
          /\ stack[i].kind = "pass" =>
                stack[i].at \in DOMAIN running /\ running[stack[i].at].s = stack[i].s
    /\ \A i, j \in DOMAIN stack :
          PassAt(i) /\ PassAt(j) /\ i < j => stack[i].at < stack[j].at
    /\ \A k \in DOMAIN running : \E i \in DOMAIN stack : PassAt(i) /\ stack[i].at = k

(* What a call was checked for when it was made still holds when it gets   *)
(* past the wrappers.                                                      *)
CallsAllowed ==
    /\ control.mode = "call" /\ control.fn = "once" => ~InPass(control.s) /\ begun > 0
    /\ control.mode = "call" /\ control.fn = "two" =>
          /\ running # <<>> => Last(running).s = control.s
          /\ \E n1, n2 \in Nodes : /\ control.pair = {n1, n2} /\ n1 # n2
                                   /\ control.pair \subseteq FusedNodes(control.s)

TraceInv ==
    /\ TypeOK
    /\ CalleesOpened
    /\ StackShape
    /\ FramesKnown
    /\ CallsAllowed
    /\ PatchesNest
    /\ PassStackIsCallStack

-----------------------------------------------------------------------------
(* Sequences. *)

(* The elements of a sequence that gains one. *)
LEMMA AppendElements ==
    ASSUME NEW S, NEW q \in Seq(S), NEW e \in S
    PROVE  /\ Append(q, e) \in Seq(S)
           /\ Len(q) \in Nat /\ DOMAIN q = 1..Len(q)
           /\ Len(Append(q, e)) = Len(q) + 1
           /\ DOMAIN Append(q, e) = 1..(Len(q) + 1)
           /\ \A i \in DOMAIN q : Append(q, e)[i] = q[i]
           /\ Append(q, e)[Len(q) + 1] = e
  OBVIOUS

(* The elements of one that loses its last. *)
LEMMA FrontElements ==
    ASSUME NEW S, NEW q \in Seq(S), q # <<>>
    PROVE  /\ Front(q) \in Seq(S)
           /\ Len(q) \in Nat \ {0} /\ DOMAIN q = 1..Len(q)
           /\ Len(Front(q)) = Len(q) - 1
           /\ DOMAIN Front(q) = 1..(Len(q) - 1)
           /\ \A i \in 1..(Len(q) - 1) : Front(q)[i] = q[i]
           /\ Last(q) = q[Len(q)] /\ Last(q) \in S
  <1>1. Len(q) \in Nat \ {0} /\ DOMAIN q = 1..Len(q)
    BY EmptySeq, LenProperties
  <1>2. \A i \in 1..(Len(q) - 1) : q[i] \in S
    BY <1>1, ElementOfSeq
  <1>3. 1 \in Int /\ Len(q) - 1 \in Int
    BY <1>1
  <1> DEFINE f == SubSeq(q, 1, Len(q) - 1)
  <1>4. /\ f \in Seq(S)
        /\ Len(f) = IF 1 <= Len(q) - 1 THEN (Len(q) - 1) - 1 + 1 ELSE 0
        /\ \A i \in 1..((Len(q) - 1) - 1 + 1) : f[i] = q[1 + i - 1]
    BY ONLY <1>2, <1>3, SubSeqProperties
  <1>5. Len(f) = Len(q) - 1
    BY <1>1, <1>4
  <1>6. \A i \in 1..(Len(q) - 1) : f[i] = q[i]
    <2> SUFFICES ASSUME NEW i \in 1..(Len(q) - 1) PROVE f[i] = q[i]
      OBVIOUS
    <2>1. i \in 1..((Len(q) - 1) - 1 + 1) /\ 1 + i - 1 = i
      BY <1>1
    <2> QED
      BY <1>4, <2>1
  <1>7. DOMAIN f = 1..(Len(q) - 1)
    BY <1>4, <1>5, LenProperties
  <1>8. q[Len(q)] \in S
    BY <1>1, ElementOfSeq
  <1> QED
    BY <1>1, <1>4, <1>5, <1>6, <1>7, <1>8 DEF Front, Last

(* Front of any sequence is a sequence. *)
LEMMA FrontType ==
    ASSUME NEW S, NEW q \in Seq(S)
    PROVE  /\ Front(q) \in Seq(S)
           /\ \A i \in DOMAIN Front(q) : i \in DOMAIN q /\ Front(q)[i] = q[i]
  <1>1. CASE q = <<>>
    <2>1. Front(q) = <<>>
      BY <1>1, SubSeqEmpty DEF Front
    <2>2. DOMAIN Front(q) = {}
      BY <2>1
    <2> QED
      BY <2>1, <2>2, EmptySeq
  <1> QED
    BY <1>1, FrontElements

-----------------------------------------------------------------------------
(* Types. *)

Pass == [s: Schedulers, reorder: BOOLEAN, fused: NodeList]
Event == [s: Schedulers, pair: NodeList, live: NodeList, loops: SUBSET Atoms,
          seen: SUBSET Captures]

(* Frames are well typed. *)
LEMMA FrameTypes ==
    ASSUME NEW kind \in {"with", "pass", "once", "two"},
           NEW c \in Captures \cup {None}, NEW s \in Schedulers \cup {None},
           NEW at \in Nat
    PROVE  Frame(kind, c, s, at) \in FrameType
  BY DEF Frame, FrameType

(* What control holds, by its mode. *)
LEMMA ControlCases ==
    ASSUME NEW k \in ControlType
    PROVE  /\ k.mode = "run" <=> k = Run
           /\ k.mode = "raise" <=> k = Raising
           /\ k.mode \in {"run", "raise", "call", "return"}
           /\ k.mode = "call" => /\ k.fn \in {"once", "two"} /\ k.s \in Schedulers
                                 /\ k.to \in Captures \cup {Plain}
                                 /\ k.fn = "once" => k.reorder \in BOOLEAN
                                 /\ k.fn = "two" => k.pair \in NodeList
           /\ k.mode = "return" => /\ k.fn \in {"once", "two"} /\ k.s \in Schedulers
                                   /\ k.fn = "once" => k.result \in NodeList
                                   /\ k.fn = "two" => k.pair \in NodeList /\ k.result \in Nodes
  BY DEF ControlType, Run, Raising

(* So is every way control is passed on. *)
LEMMA ControlTypes ==
    /\ Run \in ControlType /\ Raising \in ControlType /\ Run # Raising
    /\ Run.mode = "run" /\ Raising.mode = "raise"
    /\ \A s \in Schedulers, to \in Captures \cup {Plain}, r \in BOOLEAN :
          [mode |-> "call", fn |-> "once", to |-> to, s |-> s, reorder |-> r] \in ControlType
    /\ \A s \in Schedulers, to \in Captures \cup {Plain}, p \in NodeList :
          [mode |-> "call", fn |-> "two", to |-> to, s |-> s, pair |-> p] \in ControlType
    /\ \A s \in Schedulers, l \in NodeList :
          [mode |-> "return", fn |-> "once", s |-> s, result |-> l] \in ControlType
    /\ \A s \in Schedulers, p \in NodeList, n \in Nodes :
          [mode |-> "return", fn |-> "two", s |-> s, pair |-> p, result |-> n] \in ControlType
  BY DEF ControlType, Run, Raising

(* A wrapper passes the call on to its callee. *)
LEMMA Redirect ==
    ASSUME NEW k \in ControlType, k.mode = "call", NEW to \in Captures \cup {Plain}
    PROVE  /\ [k EXCEPT !.to = to] \in ControlType
           /\ [k EXCEPT !.to = to].mode = "call" /\ [k EXCEPT !.to = to].fn = k.fn
           /\ [k EXCEPT !.to = to].to = to /\ [k EXCEPT !.to = to].s = k.s
           /\ k.fn = "two" => [k EXCEPT !.to = to].pair = k.pair
  BY DEF ControlType, Run, Raising

(* The nodes a scheduler fuses are nodes. *)
LEMMA FusedNodesType ==
    ASSUME TypeOK, NEW s \in Schedulers
    PROVE  FusedNodes(s) \in NodeList
  <1>1. CASE running = <<>>
    BY <1>1 DEF FusedNodes, TypeOK
  <1>2. CASE running # <<>>
    <2>1. Last(running) \in Pass
      BY <1>2, FrontElements DEF TypeOK, Pass
    <2> QED
      BY <1>2, <2>1 DEF FusedNodes, Pass
  <1> QED
    BY <1>1, <1>2

(* Fusing a pair of a list leaves a list. *)
LEMMA FusePairType ==
    ASSUME NEW nodes \in NodeList, NEW pair \in NodeList
    PROVE  FusePair(nodes, pair) \in NodeList /\ UNION pair \in Nodes
  BY DEF FusePair, NodeList, Nodes

(* The initial state is well typed. *)
LEMMA TypeInit == Init => TypeOK
  <1> SUFFICES ASSUME Init PROVE TypeOK
    OBVIOUS
  <1>1. /\ <<>> \in Seq(Pass) /\ <<>> \in Seq(FrameType) /\ <<>> \in Seq(PassType)
        /\ <<>> \in Seq(Nat) /\ <<>> \in Seq(Event)
    BY EmptySeq
  <1>2. {{a} : a \in Atoms} \in NodeList
    BY DEF NodeList, Nodes
  <1>3. control \in ControlType
    BY ControlTypes DEF Init
  <1>4. live \in [Schedulers -> NodeList] /\ loops \in [Schedulers -> SUBSET Atoms]
    BY <1>2 DEF Init
  <1>5. running \in Seq(Pass) /\ happened \in Seq(Event) /\ stack \in Seq(FrameType)
    BY <1>1 DEF Init
  <1>6. /\ passes \in [Captures -> Seq(PassType)] /\ passStack \in [Captures -> Seq(Nat)]
        /\ original \in [Captures -> Captures \cup {Plain, None}]
    BY <1>1 DEF Init
  <1>7. \A c \in Captures : DOMAIN passes[c] = {} /\ DOMAIN passStack[c] = {}
    BY DEF Init
  <1>8. begun \in 0..MaxPasses /\ faults \in 0..MaxFaults /\ installed \in Captures \cup {Plain}
    BY TraceBounds DEF Init
  <1> QED
    BY <1>3, <1>4, <1>5, <1>6, <1>7, <1>8 DEF TypeOK, Pass, Event

(* A capture's list of passes grows by one, or one of its passes changes. *)
PassesNumbered == \A c \in Captures : \A i \in DOMAIN passes[c] : passes[c][i].index = i
PassStackPoints ==
    \A c \in Captures : \A i \in DOMAIN passStack[c] : passStack[c][i] \in DOMAIN passes[c]

(* A new pass is well typed, and numbered after the last. *)
LEMMA NewPassType ==
    ASSUME TypeOK, NEW c \in Captures, NEW s \in Schedulers, NEW reorder \in BOOLEAN,
           NEW before \in NodeList, NEW steps \in Seq(StepType)
    PROVE  /\ NewPass(c, s, reorder, before) \in PassType
           /\ [NewPass(c, s, reorder, before) EXCEPT !.steps = steps] \in PassType
           /\ [NewPass(c, s, reorder, before) EXCEPT !.steps = steps].index = Len(passes[c]) + 1
           /\ NewPass(c, s, reorder, before).index = Len(passes[c]) + 1
  <1>1. passes[c] \in Seq(PassType) /\ Len(passes[c]) \in Nat
    BY LenProperties DEF TypeOK
  <1>2. {} \in NodeList /\ <<>> \in Seq(StepType)
    BY EmptySeq DEF NodeList, Nodes
  <1> DEFINE p == NewPass(c, s, reorder, before)
  <1>3. p \in PassType /\ p.index = Len(passes[c]) + 1
    BY <1>1, <1>2 DEF NewPass, NextIndex, PassType
  <1> HIDE DEF p
  <1>4. [p EXCEPT !.steps = steps] \in PassType /\ [p EXCEPT !.steps = steps].index = p.index
    BY <1>3 DEF PassType
  <1> QED
    BY <1>3, <1>4 DEF p

(* The passes stay well typed and numbered when one is appended ... *)
LEMMA PassAppended ==
    ASSUME TypeOK, NEW c \in Captures, NEW p \in PassType, p.index = Len(passes[c]) + 1,
           passes' = [passes EXCEPT ![c] = Append(@, p)]
    PROVE  /\ passes' \in [Captures -> Seq(PassType)]
           /\ PassesNumbered'
           /\ \A d \in Captures : DOMAIN passes[d] \subseteq DOMAIN passes'[d]
           /\ Len(passes[c]) + 1 \in DOMAIN passes'[c] /\ Len(passes[c]) + 1 \in Nat
           /\ passes'[c] = Append(passes[c], p)
           /\ \A d \in Captures \ {c} : passes'[d] = passes[d]
           /\ \A d \in Captures : \A i \in DOMAIN passes[d] : passes'[d][i] = passes[d][i]
           /\ passes'[c][Len(passes[c]) + 1] = p
  <1>1. passes[c] \in Seq(PassType) /\ passes \in [Captures -> Seq(PassType)]
    BY DEF TypeOK
  <1> DEFINE q == Append(passes[c], p)
  <1>2. /\ q \in Seq(PassType) /\ Len(passes[c]) \in Nat
        /\ DOMAIN passes[c] = 1..Len(passes[c]) /\ DOMAIN q = 1..(Len(passes[c]) + 1)
        /\ \A i \in DOMAIN passes[c] : q[i] = passes[c][i]
        /\ q[Len(passes[c]) + 1] = p
    BY <1>1, AppendElements
  <1>3. passes' = [passes EXCEPT ![c] = q]
    OBVIOUS
  <1> HIDE DEF q
  <1>4. passes' \in [Captures -> Seq(PassType)] /\ passes'[c] = q
        /\ \A d \in Captures \ {c} : passes'[d] = passes[d]
    BY <1>1, <1>2, <1>3
  <1>5. \A i \in DOMAIN q : q[i].index = i
    <2> SUFFICES ASSUME NEW i \in DOMAIN q PROVE q[i].index = i
      OBVIOUS
    <2>1. CASE i \in DOMAIN passes[c]
      BY <1>2, <2>1 DEF TypeOK
    <2>2. CASE i \notin DOMAIN passes[c]
      <3>1. i = Len(passes[c]) + 1
        BY <1>2, <2>2
      <3> QED
        BY <1>2, <3>1
    <2> QED
      BY <2>1, <2>2
  <1>6. PassesNumbered'
    BY <1>4, <1>5 DEF TypeOK, PassesNumbered
  <1>7. Len(passes[c]) + 1 \in DOMAIN q /\ Len(passes[c]) + 1 \in Nat
        /\ DOMAIN passes[c] \subseteq DOMAIN q
    BY <1>2
  <1>8. \A d \in Captures : \A i \in DOMAIN passes[d] : passes'[d][i] = passes[d][i]
    BY <1>2, <1>4
  <1> QED
    BY <1>2, <1>4, <1>6, <1>7, <1>8 DEF q

(* ... and when one is filled in. *)
LEMMA PassChanged ==
    ASSUME TypeOK, NEW c \in Captures, NEW at \in DOMAIN passes[c], NEW p \in PassType,
           p.index = at, passes' = [passes EXCEPT ![c] = [passes[c] EXCEPT ![at] = p]]
    PROVE  /\ passes' \in [Captures -> Seq(PassType)]
           /\ PassesNumbered'
           /\ \A d \in Captures : DOMAIN passes'[d] = DOMAIN passes[d]
           /\ \A d \in Captures : \A i \in DOMAIN passes[d] :
                 passes'[d][i] = IF d = c /\ i = at THEN p ELSE passes[d][i]
  <1>1. passes[c] \in Seq(PassType) /\ passes \in [Captures -> Seq(PassType)]
    BY DEF TypeOK
  <1>2. DOMAIN passes[c] = 1..Len(passes[c])
    BY <1>1, LenProperties
  <1> DEFINE q == [passes[c] EXCEPT ![at] = p]
  <1>3. q \in Seq(PassType) /\ Len(q) = Len(passes[c])
    BY <1>1, <1>2, ExceptSeq
  <1>4. DOMAIN q = DOMAIN passes[c] /\ \A i \in DOMAIN q : q[i] = IF i = at THEN p ELSE passes[c][i]
    OBVIOUS
  <1>5. passes' = [passes EXCEPT ![c] = q]
    OBVIOUS
  <1> HIDE DEF q
  <1>6. passes' \in [Captures -> Seq(PassType)] /\ passes'[c] = q
        /\ \A d \in Captures \ {c} : passes'[d] = passes[d]
    BY <1>1, <1>3, <1>5
  <1>7. \A d \in Captures : DOMAIN passes'[d] = DOMAIN passes[d]
    BY <1>4, <1>6
  <1>8. \A d \in Captures : \A i \in DOMAIN passes[d] :
           passes'[d][i] = IF d = c /\ i = at THEN p ELSE passes[d][i]
    BY <1>4, <1>6
  <1>9. PassesNumbered'
    BY <1>6, <1>7, <1>8 DEF PassesNumbered, TypeOK
  <1> QED
    BY <1>6, <1>7, <1>8, <1>9

(* TypeOK by the parts that the actions change together. *)
SchedulersOK ==
    /\ live \in [Schedulers -> NodeList] /\ loops \in [Schedulers -> SUBSET Atoms]
    /\ begun \in 0..MaxPasses /\ faults \in 0..MaxFaults
PatchesOK ==
    /\ installed \in Captures \cup {Plain}
    /\ original \in [Captures -> Captures \cup {Plain, None}]
TracesOK ==
    /\ passes \in [Captures -> Seq(PassType)] /\ passStack \in [Captures -> Seq(Nat)]
    /\ PassesNumbered /\ PassStackPoints
TypesByParts ==
    /\ SchedulersOK /\ PatchesOK /\ TracesOK
    /\ running \in Seq(Pass) /\ stack \in Seq(FrameType) /\ control \in ControlType
    /\ happened \in Seq(Event)

(* The type invariant is its parts. *)
LEMMA TypeByParts == (TypeOK <=> TypesByParts) /\ (TypeOK' <=> TypesByParts')
  <1>1. TypeOK <=> TypesByParts
    BY DEF TypeOK, TypesByParts, SchedulersOK, PatchesOK, TracesOK, PassesNumbered,
           PassStackPoints, Pass, Event
  <1>2. TypeOK' <=> TypesByParts'
    BY DEF TypeOK, TypesByParts, SchedulersOK, PatchesOK, TracesOK, PassesNumbered,
           PassStackPoints, Pass, Event
  <1> QED
    BY <1>1, <1>2

(* What the traces need is kept when nothing but their pass stacks shrink. *)
LEMMA TracesKept ==
    ASSUME TracesOK, UNCHANGED passes,
           \/ UNCHANGED passStack
           \/ \E c \in Captures : passStack' = [passStack EXCEPT ![c] = Popped(c)]
    PROVE  TracesOK'
  <1>1. CASE UNCHANGED passStack
    BY <1>1 DEF TracesOK, PassesNumbered, PassStackPoints
  <1>2. ASSUME NEW c \in Captures, passStack' = [passStack EXCEPT ![c] = Popped(c)]
        PROVE  TracesOK'
    <2> DEFINE q == passStack[c]
    <2>1. q \in Seq(Nat) /\ Front(q) \in Seq(Nat)
      BY FrontType DEF TracesOK
    <2>2. passStack' \in [Captures -> Seq(Nat)]
      BY <1>2, <2>1 DEF TracesOK, Popped
    <2>3. \A i \in DOMAIN Front(q) : i \in DOMAIN q /\ Front(q)[i] = q[i]
      BY <2>1, FrontType
    <2>4. PassStackPoints'
      BY <1>2, <2>3 DEF TracesOK, PassStackPoints, Popped
    <2> QED
      BY <2>2, <2>4 DEF TracesOK, PassesNumbered
  <1> QED
    BY <1>1, <1>2

(* Every step keeps the state well typed. *)
LEMMA TypeStep == TypeOK /\ CalleesOpened /\ StackShape /\ FramesKnown /\ [Next]_vars => TypeOK'
  <1> SUFFICES ASSUME TypeOK, CalleesOpened, StackShape, FramesKnown, [Next]_vars
               PROVE  TypesByParts'
    BY TypeByParts
  <1> USE FunctionsAssumption
  <1>0. /\ TypesByParts
        /\ SchedulersOK /\ PatchesOK /\ TracesOK
        /\ running \in Seq(Pass) /\ stack \in Seq(FrameType) /\ control \in ControlType
        /\ happened \in Seq(Event)
    BY TypeByParts DEF TypesByParts
  <1>a. stack # <<>> => /\ Top \in FrameType /\ Len(stack) \in DOMAIN stack
                        /\ Front(stack) \in Seq(FrameType)
    BY <1>0, FrontElements DEF Top
  <1>b. /\ TopIs("with") \/ TopIs("once") \/ TopIs("two") => Top.capture \in Captures
        /\ TopIs("with") => Top.capture \in Opened
        /\ TopIs("once") => Top.at \in DOMAIN passes[Top.capture]
        /\ TopIs("pass") => running # <<>>
    <2>1. TopIs("pass") => running # <<>>
      BY <1>a, EmptySeq DEF TopIs, FramesKnown, Top
    <2> QED
      BY <1>a, <2>1 DEF TopIs, FramesKnown, CalleesOpened, Top
  <1>c. running # <<>> => /\ Last(running) \in Pass /\ Front(running) \in Seq(Pass)
                          /\ Len(running) \in 1..Len(running)
    BY <1>0, FrontElements
  <1>d. Len(running) \in Nat /\ None \in Captures \cup {None} /\ 0 \in Nat
    BY <1>0, LenProperties
  <1>1. ASSUME NEW c \in Captures, OpenCapture(c)
        PROVE  TypesByParts'
    <2> USE <1>1 DEF OpenCapture
    <2>1. SchedulersOK' /\ TracesOK'
      BY <1>0, TracesKept DEF schedulers, SchedulersOK
    <2>2. PatchesOK'
      BY <1>0 DEF PatchesOK
    <2>3. Frame("with", c, None, 0) \in FrameType
      BY FrameTypes
    <2>4. stack' \in Seq(FrameType)
      BY <1>0, <2>3, AppendElements
    <2> QED
      BY <1>0, <2>1, <2>2, <2>4 DEF TypesByParts, schedulers
  <1>2. CASE CloseCapture
    <2> USE <1>2 DEF CloseCapture
    <2>1. SchedulersOK' /\ TracesOK'
      BY <1>0, TracesKept DEF schedulers, tracers, SchedulersOK
    <2>2. PatchesOK'
      BY <1>0, <1>b DEF PatchesOK, CalleesOpened, Restore, tracers, Opened
    <2> QED
      BY <1>0, <1>a, <2>1, <2>2 DEF TypesByParts, schedulers, tracers, TopIs
  <1>3. ASSUME NEW s \in Schedulers, NEW reorder \in BOOLEAN, CallOnce(s, reorder)
        PROVE  TypesByParts'
    <2> USE <1>3 DEF CallOnce
    <2>1. TracesOK' /\ PatchesOK'
      BY <1>0, TracesKept DEF tracers, PatchesOK
    <2>2. SchedulersOK'
      BY <1>0, TraceBounds DEF SchedulersOK
    <2>3. control' \in ControlType
      BY <1>0, ControlTypes DEF PatchesOK
    <2> QED
      BY <1>0, <2>1, <2>2, <2>3 DEF TypesByParts, tracers
  <1>4. ASSUME NEW s \in Schedulers, NEW n1 \in SUBSET Atoms, NEW n2 \in SUBSET Atoms,
               CallTwo(s, n1, n2)
        PROVE  TypesByParts'
    <2> USE <1>4 DEF CallTwo
    <2>1. TracesOK' /\ PatchesOK' /\ SchedulersOK'
      BY <1>0, TracesKept DEF schedulers, tracers, PatchesOK, SchedulersOK
    <2>2. {n1, n2} \in NodeList
      BY DEF NodeList, Nodes
    <2>3. control' \in ControlType
      BY <1>0, <2>2, ControlTypes DEF PatchesOK
    <2> QED
      BY <1>0, <2>1, <2>3 DEF TypesByParts, schedulers, tracers
  <1>5. CASE EnterTracedOnce
    <2> DEFINE c == control.to
               n == Len(passes[c]) + 1
               p == NewPass(c, control.s, control.reorder, live[control.s])
    <2> USE <1>5 DEF EnterTracedOnce
    <2>1. c \in Captures /\ control.s \in Schedulers /\ control.reorder \in BOOLEAN
      BY <1>0, ControlCases
    <2>2. live[control.s] \in NodeList /\ <<>> \in Seq(StepType)
      BY <1>0, <2>1, EmptySeq DEF SchedulersOK
    <2>3. p \in PassType /\ p.index = Len(passes[c]) + 1
      BY <2>1, <2>2, NewPassType, ZenonT(60)
    <2>4. passes' = [passes EXCEPT ![c] = Append(@, p)]
      OBVIOUS
    <2> HIDE DEF p
    <2>5. /\ passes' \in [Captures -> Seq(PassType)]
          /\ PassesNumbered'
          /\ \A d \in Captures : DOMAIN passes[d] \subseteq DOMAIN passes'[d]
          /\ n \in DOMAIN passes'[c] /\ n \in Nat
      BY <2>1, <2>3, <2>4, PassAppended
    <2>6. passStack' = [passStack EXCEPT ![c] = Append(@, n)]
      OBVIOUS
    <2>7. passStack[c] \in Seq(Nat) /\ passStack \in [Captures -> Seq(Nat)]
      BY <1>0, <2>1 DEF TracesOK
    <2>8. stack' = Append(stack, Frame("once", c, control.s, n))
      OBVIOUS
    <2> HIDE DEF n
    <2>9. passStack' \in [Captures -> Seq(Nat)]
      BY <2>1, <2>5, <2>6, <2>7, AppendElements
    <2>10. PassStackPoints'
      <3> SUFFICES ASSUME NEW d \in Captures, NEW i \in DOMAIN passStack'[d]
                   PROVE  passStack'[d][i] \in DOMAIN passes'[d]
        BY DEF PassStackPoints
      <3>1. CASE d = c /\ i \notin DOMAIN passStack[d]
        <4>1. passStack'[d] = Append(passStack[c], n)
          BY <2>1, <2>6, <2>7, <3>1
        <4>2. i = Len(passStack[c]) + 1
          BY <2>5, <2>7, <3>1, <4>1, AppendElements
        <4> QED
          BY <2>5, <2>7, <3>1, <4>1, <4>2, AppendElements
      <3>2. CASE d # c \/ i \in DOMAIN passStack[d]
        <4>1. passStack'[d][i] = passStack[d][i] /\ i \in DOMAIN passStack[d]
          BY <2>1, <2>5, <2>6, <2>7, <3>2, AppendElements
        <4> QED
          BY <1>0, <2>5, <4>1 DEF TracesOK, PassStackPoints
      <3> QED
        BY <3>1, <3>2
    <2>11. Frame("once", c, control.s, n) \in FrameType
      BY <2>1, <2>5, FrameTypes
    <2>12. stack' \in Seq(FrameType)
      BY <1>0, <2>8, <2>11, AppendElements
    <2>13. original[c] \in Captures \cup {Plain}
      BY <1>0, <2>1 DEF CalleesOpened, Opened
    <2>14. control' \in ControlType
      BY <1>0, <2>13, Redirect DEF Callee
    <2>15. SchedulersOK' /\ PatchesOK'
      BY <1>0 DEF schedulers, SchedulersOK, PatchesOK
    <2> QED
      BY <1>0, <2>5, <2>9, <2>10, <2>12, <2>14, <2>15
      DEF TypesByParts, TracesOK, schedulers
  <1>6. CASE EnterPlainOnce
    <2> USE <1>6 DEF EnterPlainOnce
    <2>1. SchedulersOK' /\ PatchesOK' /\ TracesOK'
      BY <1>0, TracesKept DEF schedulers, tracers, SchedulersOK, PatchesOK
    <2>2. control.s \in Schedulers /\ control.reorder \in BOOLEAN
      BY <1>0, ControlCases
    <2>3. [s |-> control.s, reorder |-> control.reorder, fused |-> live[control.s]] \in Pass
      BY <1>0, <2>2 DEF SchedulersOK, Pass
    <2>4. Frame("pass", None, control.s, Len(running) + 1) \in FrameType
      BY <1>d, <2>2, FrameTypes
    <2>5. running' \in Seq(Pass) /\ stack' \in Seq(FrameType)
      BY <1>0, <2>3, <2>4, AppendElements
    <2> QED
      BY <1>0, <2>1, <2>5, ControlTypes DEF TypesByParts
  <1>7. CASE EnterTracedTwo
    <2> USE <1>7 DEF EnterTracedTwo
    <2>1. SchedulersOK' /\ PatchesOK' /\ TracesOK'
      BY <1>0, TracesKept DEF schedulers, tracers, SchedulersOK, PatchesOK
    <2>2. control.s \in Schedulers /\ control.to \in Captures
      BY <1>0, ControlCases
    <2>3. Frame("two", control.to, control.s, 0) \in FrameType
      BY <2>2, FrameTypes
    <2>4. stack' \in Seq(FrameType)
      BY <1>0, <2>3, AppendElements
    <2>5. original[control.to] \in Captures \cup {Plain}
      BY <1>0, <2>2 DEF CalleesOpened, Opened
    <2>6. control' \in ControlType
      BY <1>0, <2>5, Redirect DEF Callee
    <2> QED
      BY <1>0, <2>1, <2>4, <2>6 DEF TypesByParts, schedulers
  <1>8. CASE EnterPlainTwo
    <2> DEFINE s == control.s
               nodes == FusePair(FusedNodes(s), control.pair)
    <2> USE <1>8 DEF EnterPlainTwo
    <2>1. PatchesOK' /\ TracesOK'
      BY <1>0, TracesKept DEF tracers, PatchesOK
    <2>2. s \in Schedulers /\ control.pair \in NodeList
      BY <1>0, ControlCases
    <2>3. nodes \in NodeList /\ UNION control.pair \in Nodes
      BY <2>2, FusedNodesType, FusePairType
    <2>4. Rewrite(s, control.pair) \in Event
      <3>1. OpenCaptures \subseteq Captures
        BY DEF OpenCaptures, FramesKnown
      <3>2. (UNION control.pair) \cap loops[s] \in SUBSET Atoms
        BY <2>3 DEF Nodes
      <3> QED
        BY <2>2, <2>3, <3>1, <3>2 DEF Rewrite, Event
    <2>5. happened' \in Seq(Event)
      BY <1>0, <2>4, AppendElements
    <2>6. control' \in ControlType
      BY <2>2, <2>3, ControlTypes
    <2>7. running # <<>> => running' = [running EXCEPT ![Len(running)].fused = nodes]
                            /\ live' = live
      OBVIOUS
    <2>8. running = <<>> => live' = [live EXCEPT ![s] = nodes] /\ running' = running
      OBVIOUS
    <2>9. loops' = loops /\ begun' = begun /\ faults' = faults /\ stack' = stack
      OBVIOUS
    <2> HIDE DEF nodes, EnterPlainTwo
    <2>10. CASE running # <<>>
      <3>1. running \in Seq(Pass) /\ Len(running) \in 1..Len(running)
        BY <1>0, <1>c, <2>10
      <3>2. running[Len(running)] \in Pass
        BY <3>1, ElementOfSeq
      <3>3. [running[Len(running)] EXCEPT !.fused = nodes] \in Pass
        BY <2>3, <3>2 DEF Pass
      <3>4. running' = [running EXCEPT ![Len(running)] = [running[Len(running)] EXCEPT !.fused = nodes]]
        BY <2>7, <2>10
      <3>5. running' \in Seq(Pass)
        BY <3>1, <3>3, <3>4, ExceptSeq
      <3>6. SchedulersOK'
        BY <1>0, <2>7, <2>9, <2>10 DEF SchedulersOK
      <3> QED
        BY <1>0, <2>1, <2>5, <2>6, <2>9, <3>5, <3>6 DEF TypesByParts
    <2>11. CASE running = <<>>
      <3>1. SchedulersOK'
        BY <1>0, <2>2, <2>3, <2>8, <2>9, <2>11 DEF SchedulersOK
      <3> QED
        BY <1>0, <2>1, <2>5, <2>6, <2>8, <2>9, <2>11, <3>1 DEF TypesByParts
    <2> QED
      BY <2>10, <2>11
  <1>9. ASSUME NEW a \in Atoms, ReorderLoops(a)
        PROVE  TypesByParts'
    <2> USE <1>9 DEF ReorderLoops
    <2>1. PatchesOK' /\ TracesOK'
      BY <1>0, TracesKept DEF tracers, PatchesOK
    <2>2. Last(running).s \in Schedulers
      BY <1>b, <1>c DEF Pass
    <2>3. SchedulersOK'
      BY <1>0, <2>2 DEF SchedulersOK
    <2> QED
      BY <1>0, <2>1, <2>3 DEF TypesByParts, tracers
  <1>10. CASE EndPass
    <2> USE <1>10 DEF EndPass
    <2>1. SchedulersOK' /\ PatchesOK' /\ TracesOK'
      BY <1>0, TracesKept DEF schedulers, tracers, SchedulersOK, PatchesOK
    <2>2. control' \in ControlType
      BY <1>b, <1>c, ControlTypes DEF Pass
    <2> QED
      BY <1>0, <1>a, <1>b, <1>c, <2>1, <2>2 DEF TypesByParts, TopIs, schedulers, tracers
  <1>11. CASE ReturnTracedOnce
    <2> DEFINE c == Top.capture
               at == Top.at
               p == [passes[c][at] EXCEPT !.after = control.result]
    <2> USE <1>11 DEF ReturnTracedOnce
    <2>1. c \in Captures /\ at \in DOMAIN passes[c]
      BY <1>b
    <2>2. control.result \in NodeList
      BY <1>0, ControlCases, ControlTypes DEF StackShape, Doing
    <2>3. passes[c] \in Seq(PassType) /\ passes \in [Captures -> Seq(PassType)]
      BY <1>0, <2>1 DEF TracesOK
    <2>4. passes[c][at] \in PassType /\ passes[c][at].index = at
      BY <1>0, <2>1, <2>3, LenProperties, ElementOfSeq DEF TracesOK, PassesNumbered
    <2>5. p \in PassType /\ p.index = at
      BY <2>2, <2>4 DEF PassType
    <2>6. passes' = [passes EXCEPT ![c] = [passes[c] EXCEPT ![at] = p]]
      BY <2>1, <2>3
    <2>7. passStack' = [passStack EXCEPT ![c] = Front(passStack[c])]
      BY DEF Popped
    <2> HIDE DEF p, c, at
    <2>8. /\ passes' \in [Captures -> Seq(PassType)] /\ PassesNumbered'
          /\ \A d \in Captures : DOMAIN passes'[d] = DOMAIN passes[d]
      BY <2>1, <2>5, <2>6, PassChanged, ZenonT(60)
    <2>9. passStack[c] \in Seq(Nat) /\ Front(passStack[c]) \in Seq(Nat)
      BY <1>0, <2>1, FrontType DEF TracesOK
    <2>10. passStack' \in [Captures -> Seq(Nat)]
      BY <1>0, <2>1, <2>7, <2>9 DEF TracesOK
    <2>11. PassStackPoints'
      <3> SUFFICES ASSUME NEW d \in Captures, NEW i \in DOMAIN passStack'[d]
                   PROVE  passStack'[d][i] \in DOMAIN passes'[d]
        BY DEF PassStackPoints
      <3>1. i \in DOMAIN passStack[d] /\ passStack'[d][i] = passStack[d][i]
        <4>1. CASE d # c
          BY <1>0, <2>1, <2>7, <4>1 DEF TracesOK
        <4>2. CASE d = c
          <5>1. passStack'[d] = Front(passStack[c])
            BY <1>0, <2>1, <2>7, <4>2 DEF TracesOK
          <5> QED
            BY <2>9, <4>2, <5>1, FrontType
        <4> QED
          BY <4>1, <4>2
      <3> QED
        BY <1>0, <2>8, <3>1 DEF TracesOK, PassStackPoints
    <2>12. SchedulersOK' /\ PatchesOK'
      BY <1>0 DEF schedulers, SchedulersOK, PatchesOK
    <2> QED
      BY <1>0, <1>a, <2>8, <2>10, <2>11, <2>12 DEF TypesByParts, TracesOK, TopIs, schedulers
  <1>12. CASE ReturnTracedTwo
    <2> DEFINE c == Top.capture
               step == StepOf(control.s, control.pair, control.result)
    <2> USE <1>12 DEF ReturnTracedTwo
    <2>1. c \in Captures
      BY <1>b
    <2>2. control.s \in Schedulers /\ control.pair \in NodeList /\ control.result \in Nodes
      BY <1>0, ControlCases, ControlTypes DEF StackShape, Doing
    <2>3. step \in StepType
      <3>1. FusedNodes(control.s) \in NodeList
        BY <2>2, FusedNodesType
      <3>2. control.result \cap loops[control.s] \in SUBSET Atoms
        BY <2>2 DEF Nodes
      <3>3. Len(happened) \in Nat
        BY <1>0, LenProperties
      <3> QED
        BY <2>2, <3>1, <3>2, <3>3 DEF StepOf, StepType, LiveNodes
    <2>4. passes[c] \in Seq(PassType) /\ passes \in [Captures -> Seq(PassType)]
      BY <1>0, <2>1 DEF TracesOK
    <2>5. passes' = [passes EXCEPT ![c] = Recorded(c, control.s, step)]
      OBVIOUS
    <2>6. passStack' = passStack
      OBVIOUS
    <2> HIDE DEF step, c
    <2>7. SchedulersOK' /\ PatchesOK'
      BY <1>0 DEF schedulers, SchedulersOK, PatchesOK
    <2>8. passes' \in [Captures -> Seq(PassType)] /\ PassesNumbered' /\ PassStackPoints'
      <3>1. CASE passStack[c] # <<>>
        <4> DEFINE at == CurrentPass(c)
                   p == [passes[c][at] EXCEPT !.steps = Append(@, step)]
        <4>1. passStack[c] \in Seq(Nat)
          BY <1>0, <2>1 DEF TracesOK
        <4>2. Len(passStack[c]) \in DOMAIN passStack[c]
          BY <3>1, <4>1, FrontElements
        <4>3. at \in DOMAIN passes[c]
          BY <1>0, <2>1, <4>2 DEF TracesOK, PassStackPoints, CurrentPass, Last
        <4>4. passes[c][at] \in PassType /\ passes[c][at].index = at
          BY <1>0, <2>1, <2>4, <4>3, LenProperties, ElementOfSeq DEF TracesOK, PassesNumbered
        <4>5. Append(passes[c][at].steps, step) \in Seq(StepType)
          BY <2>3, <4>4, AppendElements DEF PassType
        <4>6. p = [passes[c][at] EXCEPT !.steps = Append(passes[c][at].steps, step)]
          BY <4>4 DEF PassType
        <4>7. p \in PassType /\ p.index = at
          BY <4>4, <4>5, <4>6 DEF PassType
        <4>8. Recorded(c, control.s, step) = [passes[c] EXCEPT ![at] = p]
          BY <3>1, <4>3, <4>4 DEF Recorded, PassType
        <4>9. passes' = [passes EXCEPT ![c] = [passes[c] EXCEPT ![at] = p]]
          BY <2>5, <4>8
        <4> HIDE DEF at, p
        <4>10. /\ passes' \in [Captures -> Seq(PassType)] /\ PassesNumbered'
              /\ \A d \in Captures : DOMAIN passes'[d] = DOMAIN passes[d]
          BY <2>1, <4>3, <4>7, <4>9, PassChanged, Zenon
        <4> QED
          BY <1>0, <2>6, <4>10 DEF TracesOK, PassStackPoints
      <3>2. CASE passStack[c] = <<>>
        <4> DEFINE p == [NewPass(c, control.s, FALSE, step.pair) EXCEPT !.steps = <<step>>]
        <4>1. <<step>> \in Seq(StepType) /\ step.pair \in NodeList
          BY <2>3 DEF StepType
        <4>2. p \in PassType /\ p.index = Len(passes[c]) + 1
          BY <2>1, <2>2, <4>1, NewPassType
        <4> HIDE DEF p
        <4>3. passes' = [passes EXCEPT ![c] = Append(@, p)]
          BY <2>1, <2>4, <2>5, <3>2 DEF Recorded, p
        <4>4. /\ passes' \in [Captures -> Seq(PassType)] /\ PassesNumbered'
              /\ \A d \in Captures : DOMAIN passes[d] \subseteq DOMAIN passes'[d]
          BY <2>1, <4>2, <4>3, PassAppended
        <4> QED
          BY <1>0, <2>6, <4>4 DEF TracesOK, PassStackPoints
      <3> QED
        BY <3>1, <3>2
    <2>9. control' = control
      BY DEF AfterRendering
    <2> QED
      BY <1>0, <1>a, <2>6, <2>7, <2>8, <2>9 DEF TypesByParts, TracesOK, TopIs
  <1>13. CASE ReturnToCaller
    <2> USE <1>13 DEF ReturnToCaller
    <2>1. PatchesOK' /\ TracesOK'
      BY <1>0, TracesKept DEF tracers, PatchesOK
    <2>2. control.s \in Schedulers /\ (control.fn = "once" => control.result \in NodeList)
      BY <1>0, ControlCases
    <2>3. SchedulersOK'
      BY <1>0, <2>2 DEF SchedulersOK
    <2> QED
      BY <1>0, <2>1, <2>3, ControlTypes DEF TypesByParts, tracers
  <1>14. CASE Throw
    <2> USE <1>14 DEF Throw
    <2>1. PatchesOK' /\ TracesOK'
      BY <1>0, TracesKept DEF tracers, PatchesOK
    <2>2. SchedulersOK'
      BY <1>0, TraceBounds DEF SchedulersOK
    <2> QED
      BY <1>0, <2>1, <2>2, ControlTypes DEF TypesByParts, tracers
  <1>15. CASE UnwindTracedOnce
    <2> USE <1>15 DEF UnwindTracedOnce
    <2>1. TracesOK'
      BY <1>0, <1>b, TracesKept
    <2>2. SchedulersOK' /\ PatchesOK'
      BY <1>0 DEF schedulers, SchedulersOK, PatchesOK
    <2> QED
      BY <1>0, <1>a, <2>1, <2>2 DEF TypesByParts, TopIs
  <1>16. CASE UnwindPlain
    <2> USE <1>16 DEF UnwindPlain
    <2>1. SchedulersOK' /\ PatchesOK' /\ TracesOK'
      BY <1>0, TracesKept DEF schedulers, tracers, SchedulersOK, PatchesOK
    <2>2. running' \in Seq(Pass)
      BY <1>0, <1>b, <1>c
    <2> QED
      BY <1>0, <1>a, <2>1, <2>2 DEF TypesByParts, TopIs, schedulers, tracers
  <1>17. CASE Catch
    <2> USE <1>17 DEF Catch
    <2>1. SchedulersOK' /\ PatchesOK' /\ TracesOK'
      BY <1>0, TracesKept DEF schedulers, tracers, SchedulersOK, PatchesOK
    <2> QED
      BY <1>0, <2>1, ControlTypes DEF TypesByParts, schedulers, tracers
  <1>18. CASE UNCHANGED vars
    <2> USE <1>18 DEF vars
    <2>1. SchedulersOK' /\ PatchesOK' /\ TracesOK'
      BY <1>0, TracesKept DEF schedulers, tracers, SchedulersOK, PatchesOK
    <2> QED
      BY <1>0, <2>1 DEF TypesByParts
  <1> QED
    BY <1>1, <1>2, <1>3, <1>4, <1>5, <1>6, <1>7, <1>8, <1>9, <1>10, <1>11, <1>12, <1>13,
       <1>14, <1>15, <1>16, <1>17, <1>18 DEF Next, Finished

-----------------------------------------------------------------------------
(* What a step does to the call stack. *)

(* The frames that calls push are well typed. *)
LEMMA EntryFrames ==
    ASSUME TypeOK
    PROVE  /\ \A c \in Captures : Frame("with", c, None, 0) \in FrameType
           /\ control.mode = "call" /\ control.fn = "once" =>
                 /\ Frame("pass", None, control.s, Len(running) + 1) \in FrameType
                 /\ control.to \in Captures =>
                       Frame("once", control.to, control.s, Len(passes[control.to]) + 1)
                           \in FrameType
           /\ control.mode = "call" /\ control.fn = "two" /\ control.to \in Captures =>
                 Frame("two", control.to, control.s, 0) \in FrameType
  <1>1. control.mode = "call" => control.s \in Schedulers
    BY ControlCases DEF TypeOK
  <1>2. Len(running) \in Nat /\ \A c \in Captures : Len(passes[c]) \in Nat
    BY LenProperties DEF TypeOK
  <1>3. \A c \in Captures : Frame("with", c, None, 0) \in FrameType
    BY FrameTypes
  <1>4. control.mode = "call" =>
            Frame("pass", None, control.s, Len(running) + 1) \in FrameType
    BY <1>1, <1>2, FrameTypes
  <1>5. control.mode = "call" /\ control.to \in Captures =>
            Frame("once", control.to, control.s, Len(passes[control.to]) + 1) \in FrameType
    BY <1>1, <1>2, FrameTypes
  <1>6. control.mode = "call" /\ control.to \in Captures =>
            Frame("two", control.to, control.s, 0) \in FrameType
    BY <1>1, FrameTypes
  <1> QED
    BY <1>3, <1>4, <1>5, <1>6

(* A stack with one frame more. *)
LEMMA Pushed ==
    ASSUME TypeOK, NEW f \in FrameType, stack' = Append(stack, f)
    PROVE  /\ Len(stack) \in Nat /\ DOMAIN stack = 1..Len(stack)
           /\ Len(stack') = Len(stack) + 1 /\ DOMAIN stack' = 1..(Len(stack) + 1)
           /\ stack' # <<>>
           /\ \A i \in DOMAIN stack : stack'[i] = stack[i]
           /\ stack'[Len(stack) + 1] = f
  <1>1. stack \in Seq(FrameType)
    BY DEF TypeOK
  <1>2. /\ Len(stack) \in Nat /\ DOMAIN stack = 1..Len(stack)
        /\ Len(stack') = Len(stack) + 1 /\ DOMAIN stack' = 1..(Len(stack) + 1)
        /\ \A i \in DOMAIN stack : stack'[i] = stack[i]
        /\ stack'[Len(stack) + 1] = f
    BY <1>1, AppendElements
  <1> QED
    BY <1>2, EmptySeq

(* A stack without its top. *)
LEMMA PoppedTop ==
    ASSUME TypeOK, stack # <<>>, stack' = Front(stack)
    PROVE  /\ Len(stack) \in Nat \ {0} /\ DOMAIN stack = 1..Len(stack)
           /\ Len(stack') = Len(stack) - 1 /\ DOMAIN stack' = 1..(Len(stack) - 1)
           /\ \A i \in DOMAIN stack' : stack'[i] = stack[i] /\ i \in DOMAIN stack
           /\ Top = stack[Len(stack)] /\ Len(stack) \in DOMAIN stack
           /\ stack' # <<>> => /\ Len(stack) - 1 \in DOMAIN stack
                               /\ Len(stack) - 1 \in DOMAIN stack'
                               /\ stack'[Len(stack')] = stack[Len(stack) - 1]
  <1>1. stack \in Seq(FrameType)
    BY DEF TypeOK
  <1>2. /\ Len(stack) \in Nat \ {0} /\ DOMAIN stack = 1..Len(stack)
        /\ Len(stack') = Len(stack) - 1 /\ DOMAIN stack' = 1..(Len(stack) - 1)
        /\ \A i \in 1..(Len(stack) - 1) : stack'[i] = stack[i]
        /\ stack' \in Seq(FrameType)
    BY <1>1, FrontElements
  <1>3. stack' # <<>> => Len(stack') \in Nat \ {0}
    BY <1>2, EmptySeq
  <1> QED
    BY <1>2, <1>3 DEF Top

(* The positions of the stack. *)
LEMMA StackPositions ==
    ASSUME TypeOK
    PROVE  /\ Len(stack) \in Nat /\ DOMAIN stack = 1..Len(stack)
           /\ stack = <<>> <=> Len(stack) = 0
           /\ \A i \in DOMAIN stack : stack[i] \in FrameType
           /\ stack # <<>> => Len(stack) \in DOMAIN stack /\ Top = stack[Len(stack)]
  <1>1. stack \in Seq(FrameType)
    BY DEF TypeOK
  <1>2. Len(stack) \in Nat /\ DOMAIN stack = 1..Len(stack)
    BY <1>1, LenProperties
  <1>3. stack # <<>> => Len(stack) \in Nat \ {0}
    BY <1>1, EmptySeq
  <1> QED
    BY <1>1, <1>2, <1>3, ElementOfSeq, EmptySeq DEF Top

-----------------------------------------------------------------------------
(* Patches. *)

(* PatchesNest, as a predicate of a call stack. *)
WithAt(q, i) == i \in DOMAIN q /\ q[i].kind = "with"
OutsideIn(q, n, fn) ==
    \/ fn = Plain /\ \A i \in 1..n : ~WithAt(q, i)
    \/ \E i \in 1..n : /\ WithAt(q, i) /\ q[i].capture = fn
                      /\ \A j \in (i + 1)..n : ~WithAt(q, j)
NestedIn(q, inst, orig) ==
    /\ OutsideIn(q, Len(q), inst)
    /\ \A i \in DOMAIN q : WithAt(q, i) => OutsideIn(q, i - 1, orig[q[i].capture])

(* The property, as a fact about a stack. *)
LEMMA NestByStack ==
    /\ PatchesNest <=> NestedIn(stack, installed, original)
    /\ PatchesNest' <=> NestedIn(stack', installed', original')
  <1>1. PatchesNest <=> NestedIn(stack, installed, original)
    BY DEF PatchesNest, NestedIn, Outside, OutsideIn, With, WithAt
  <1>2. PatchesNest' <=> NestedIn(stack', installed', original')
    BY DEF PatchesNest, NestedIn, Outside, OutsideIn, With, WithAt
  <1> QED
    BY <1>1, <1>2

(* What lies outside of the first n frames depends on their with blocks.   *)
LEMMA OutsidePrefix ==
    ASSUME NEW q, NEW r, NEW n \in Nat, NEW fn, OutsideIn(q, n, fn),
           \A i \in 1..n : /\ WithAt(q, i) <=> WithAt(r, i)
                           /\ WithAt(q, i) => q[i] = r[i]
    PROVE  OutsideIn(r, n, fn)
  <1>1. CASE fn = Plain /\ \A i \in 1..n : ~WithAt(q, i)
    BY <1>1 DEF OutsideIn
  <1>2. ASSUME NEW i \in 1..n, WithAt(q, i), q[i].capture = fn,
               \A j \in (i + 1)..n : ~WithAt(q, j)
        PROVE  OutsideIn(r, n, fn)
    <2>1. WithAt(r, i) /\ r[i].capture = fn
      BY <1>2
    <2>2. \A j \in (i + 1)..n : j \in 1..n
      OBVIOUS
    <2>3. \A j \in (i + 1)..n : ~WithAt(r, j)
      BY <1>2, <2>2
    <2> QED
      BY <2>1, <2>3 DEF OutsideIn
  <1> QED
    BY <1>1, <1>2 DEF OutsideIn

(* It depends only on the with-blocks of the stack. *)
LEMMA SameWiths ==
    ASSUME NEW q \in Seq(FrameType), NEW r \in Seq(FrameType), NEW inst, NEW orig,
           \A i : /\ WithAt(q, i) <=> WithAt(r, i)
                  /\ WithAt(q, i) => q[i] = r[i],
           NestedIn(q, inst, orig)
    PROVE  NestedIn(r, inst, orig)
  <1>1. /\ Len(q) \in Nat /\ DOMAIN q = 1..Len(q)
        /\ Len(r) \in Nat /\ DOMAIN r = 1..Len(r)
    BY LenProperties
  <1>2. OutsideIn(r, Len(r), inst)
    <2>1. CASE inst = Plain /\ \A i \in 1..Len(q) : ~WithAt(q, i)
      <3>1. \A i \in 1..Len(r) : ~WithAt(r, i)
        BY <1>1, <2>1 DEF WithAt
      <3> QED
        BY <2>1, <3>1 DEF OutsideIn
    <2>2. ASSUME NEW i \in 1..Len(q), WithAt(q, i), q[i].capture = inst,
                 \A j \in (i + 1)..Len(q) : ~WithAt(q, j)
          PROVE  OutsideIn(r, Len(r), inst)
      <3>1. WithAt(r, i) /\ r[i].capture = inst /\ i \in 1..Len(r)
        BY <1>1, <2>2 DEF WithAt
      <3>2. ASSUME NEW j \in (i + 1)..Len(r), WithAt(r, j) PROVE FALSE
        <4>1. WithAt(q, j) /\ j \in 1..Len(q)
          BY <1>1, <3>2 DEF WithAt
        <4> QED
          BY <1>1, <2>2, <4>1
      <3> QED
        BY <3>1, <3>2 DEF OutsideIn
    <2> QED
      BY <2>1, <2>2 DEF NestedIn, OutsideIn
  <1>3. ASSUME NEW i \in DOMAIN r, WithAt(r, i)
        PROVE  OutsideIn(r, i - 1, orig[r[i].capture])
    <2>1. WithAt(q, i) /\ q[i] = r[i] /\ i \in DOMAIN q /\ i - 1 \in Nat
      BY <1>1, <1>3 DEF WithAt
    <2>2. OutsideIn(q, i - 1, orig[r[i].capture])
      BY <2>1 DEF NestedIn
    <2> QED
      BY <2>1, <2>2, OutsidePrefix
  <1> QED
    BY <1>2, <1>3 DEF NestedIn

(* A step that opens and closes no capture leaves the patches nested.      *)
LEMMA PatchesUntouched ==
    ASSUME TypeOK, TypeOK', CalleesOpened, PatchesNest, UNCHANGED <<installed, original>>,
           control'.mode = "call" => control'.to \in Opened \cup {Plain},
           \/ stack' = stack
           \/ \E f \in FrameType : f.kind # "with" /\ stack' = Append(stack, f)
           \/ stack # <<>> /\ Top.kind # "with" /\ stack' = Front(stack)
    PROVE  CalleesOpened' /\ PatchesNest'
  <1>1. \A i : /\ WithAt(stack, i) <=> WithAt(stack', i)
               /\ WithAt(stack, i) => stack[i] = stack'[i]
    <2>1. CASE stack' = stack
      BY <2>1, SMTT(60)
    <2>2. ASSUME NEW f \in FrameType, f.kind # "with", stack' = Append(stack, f)
          PROVE  <1>1!:
      <3>1. /\ Len(stack) \in Nat /\ DOMAIN stack = 1..Len(stack)
            /\ DOMAIN stack' = 1..(Len(stack) + 1)
            /\ \A i \in DOMAIN stack : stack'[i] = stack[i]
            /\ stack'[Len(stack) + 1] = f
        BY <2>2, Pushed
      <3>2. \A i : i \in DOMAIN stack' <=> i \in DOMAIN stack \/ i = Len(stack) + 1
        BY <3>1, SMTT(60)
      <3> QED
        BY <2>2, <3>1, <3>2 DEF WithAt
    <2>3. CASE stack # <<>> /\ Top.kind # "with" /\ stack' = Front(stack)
      <3>1. /\ Len(stack) \in Nat \ {0} /\ DOMAIN stack = 1..Len(stack)
            /\ DOMAIN stack' = 1..(Len(stack) - 1)
            /\ \A i \in DOMAIN stack' : stack'[i] = stack[i] /\ i \in DOMAIN stack
            /\ Top = stack[Len(stack)]
        BY <2>3, PoppedTop
      <3>2. \A n \in Nat \ {0} : \A i \in 1..n : i \in 1..(n - 1) \/ i = n
        BY SMTT(60)
      <3>3. \A i \in DOMAIN stack : i \in DOMAIN stack' \/ i = Len(stack)
        BY <3>1, <3>2
      <3> QED
        BY <2>3, <3>1, <3>3, ZenonT(60) DEF WithAt
    <2> QED
      BY <2>1, <2>2, <2>3
  <1>2. CalleesOpened'
    <2>1. Opened' = Opened
      BY DEF Opened
    <2>2. \A i \in DOMAIN stack' : stack'[i].kind = "with" => stack'[i].capture \in Opened
      BY <1>1 DEF CalleesOpened, WithAt
    <2> QED
      BY <2>1, <2>2 DEF CalleesOpened
  <1>3. stack \in Seq(FrameType) /\ stack' \in Seq(FrameType)
    BY DEF TypeOK
  <1>4. NestedIn(stack', installed, original)
    BY <1>1, <1>3, SameWiths, NestByStack
  <1> QED
    BY <1>2, <1>4, NestByStack

(* Every step keeps the patches nested. *)
LEMMA PatchStep ==
    TypeOK /\ TypeOK' /\ CalleesOpened /\ PatchesNest /\ [Next]_vars
        => CalleesOpened' /\ PatchesNest'
  <1> SUFFICES ASSUME TypeOK, TypeOK', CalleesOpened, PatchesNest, [Next]_vars
               PROVE  CalleesOpened' /\ PatchesNest'
    OBVIOUS
  <1>a. /\ Len(stack) \in Nat /\ DOMAIN stack = 1..Len(stack)
        /\ stack # <<>> => Len(stack) \in DOMAIN stack /\ Top = stack[Len(stack)]
    BY StackPositions
  <1>b. control \in ControlType /\ original \in [Captures -> Captures \cup {Plain, None}]
    BY DEF TypeOK
  <1>c. control.mode = "call" => control.to \in Opened \cup {Plain}
    BY DEF CalleesOpened
  <1>d. NestedIn(stack, installed, original)
    BY NestByStack
  <1>1. ASSUME NEW c \in Captures, OpenCapture(c)
        PROVE  CalleesOpened' /\ PatchesNest'
    <2> DEFINE f == Frame("with", c, None, 0)
    <2>1. /\ control = Run /\ control' = control /\ original[c] = None /\ installed' = c
          /\ original' = [original EXCEPT ![c] = installed]
          /\ stack' = Append(stack, f)
      BY <1>1 DEF OpenCapture
    <2>2. f \in FrameType /\ f.kind = "with" /\ f.capture = c
      BY EntryFrames DEF Frame
    <2> HIDE DEF f
    <2>3. /\ Len(stack') = Len(stack) + 1 /\ DOMAIN stack' = 1..(Len(stack) + 1)
          /\ \A i \in DOMAIN stack : stack'[i] = stack[i]
          /\ stack'[Len(stack) + 1] = f
      BY <2>1, <2>2, Pushed
    <2>4. installed \in Opened \cup {Plain} /\ c \notin Opened
      BY <2>1 DEF CalleesOpened, Opened
    <2>5. Opened' = Opened \cup {c}
      BY <1>b, <2>1, <2>4, FunctionsAssumption DEF Opened
    <2>6. \A i \in DOMAIN stack' : i \in DOMAIN stack \/ i = Len(stack) + 1
      BY <1>a, <2>3
    <2>7. CalleesOpened'
      <3>1. \A d \in Opened' : original'[d] \in Opened' \cup {Plain}
        BY <1>b, <2>1, <2>4, <2>5 DEF CalleesOpened, Opened
      <3>2. \A i \in DOMAIN stack' : stack'[i].kind = "with" => stack'[i].capture \in Opened'
        BY <2>2, <2>3, <2>5, <2>6 DEF CalleesOpened
      <3>3. control'.mode # "call"
        BY <2>1, ControlTypes
      <3> QED
        BY <2>1, <2>5, <3>1, <3>2, <3>3 DEF CalleesOpened
    <2>8. \A i \in DOMAIN stack : /\ WithAt(stack, i) <=> WithAt(stack', i)
                                  /\ stack[i] = stack'[i]
      BY <1>a, <2>3 DEF WithAt
    <2>9. ASSUME NEW n \in 0..Len(stack), NEW fn, OutsideIn(stack, n, fn)
          PROVE  OutsideIn(stack', n, fn)
      <3>1. n \in Nat /\ \A i \in 1..n : i \in DOMAIN stack
        BY <1>a
      <3> QED
        BY <2>8, <2>9, <3>1, OutsidePrefix
    <2>10. OutsideIn(stack', Len(stack'), c)
      <3>1. Len(stack) + 1 \in 1..Len(stack') /\ WithAt(stack', Len(stack) + 1)
        BY <1>a, <2>2, <2>3 DEF WithAt
      <3>2. \A j \in ((Len(stack) + 1) + 1)..Len(stack') : ~WithAt(stack', j)
        BY <1>a, <2>3
      <3> QED
        BY <2>2, <2>3, <3>1, <3>2 DEF OutsideIn
    <2>11. ASSUME NEW i \in DOMAIN stack', WithAt(stack', i)
           PROVE  OutsideIn(stack', i - 1, original'[stack'[i].capture])
      <3>1. CASE i \in DOMAIN stack
        <4>1. WithAt(stack, i) /\ stack'[i] = stack[i] /\ i - 1 \in 0..Len(stack)
          BY <1>a, <2>8, <2>11, <3>1
        <4>2. stack[i].capture \in Opened
          BY <4>1 DEF CalleesOpened, WithAt
        <4>3. original'[stack[i].capture] = original[stack[i].capture]
          BY <1>b, <2>1, <2>4, <4>2 DEF Opened
        <4>4. OutsideIn(stack, i - 1, original[stack[i].capture])
          BY <1>d, <3>1, <4>1 DEF NestedIn
        <4> QED
          BY <2>9, <4>1, <4>3, <4>4
      <3>2. CASE i = Len(stack) + 1
        <4>1. stack'[i].capture = c /\ i - 1 = Len(stack) /\ i - 1 \in 0..Len(stack)
          BY <1>a, <2>2, <2>3, <3>2
        <4>2. original'[c] = installed
          BY <1>b, <2>1
        <4>3. OutsideIn(stack, i - 1, installed)
          BY <1>d, <4>1 DEF NestedIn
        <4> QED
          BY <2>9, <4>1, <4>2, <4>3
      <3> QED
        BY <2>6, <3>1, <3>2
    <2>12. NestedIn(stack', installed', original')
      BY <2>1, <2>10, <2>11 DEF NestedIn
    <2> QED
      BY <2>7, <2>12, NestByStack
  <1>2. CASE CloseCapture
    <2>1. /\ control' = control /\ control \in {Run, Raising} /\ stack # <<>>
          /\ Top.kind = "with" /\ installed' = original[Top.capture]
          /\ stack' = Front(stack) /\ original' = original
      BY <1>2, SMTT(60) DEF CloseCapture, TopIs, Restore, tracers
    <2>2. /\ Len(stack') = Len(stack) - 1 /\ DOMAIN stack' = 1..(Len(stack) - 1)
          /\ \A i \in DOMAIN stack' : stack'[i] = stack[i] /\ i \in DOMAIN stack
          /\ Len(stack) \in DOMAIN stack /\ Top = stack[Len(stack)]
      BY <2>1, PoppedTop
    <2>3. CalleesOpened'
      <3>1. Opened' = Opened
        BY <2>1 DEF Opened
      <3>2. installed' \in Opened \cup {Plain}
        BY <2>1, <2>2 DEF CalleesOpened
      <3>3. \A i \in DOMAIN stack' : stack'[i].kind = "with" => stack'[i].capture \in Opened
        BY <2>2 DEF CalleesOpened
      <3>4. control'.mode # "call"
        BY <2>1, ControlTypes
      <3> QED
        BY <2>1, <3>1, <3>2, <3>3, <3>4 DEF CalleesOpened
    <2>4. ASSUME NEW n \in 0..(Len(stack) - 1), NEW fn, OutsideIn(stack, n, fn)
          PROVE  OutsideIn(stack', n, fn)
      <3>1. n \in Nat /\ \A i \in 1..n : i \in DOMAIN stack'
        BY <1>a, <2>2
      <3>2. \A i \in 1..n : /\ WithAt(stack, i) <=> WithAt(stack', i)
                            /\ stack[i] = stack'[i]
        BY <2>2, <3>1 DEF WithAt
      <3> QED
        BY <2>4, <3>1, <3>2, OutsidePrefix
    <2>5. OutsideIn(stack', Len(stack'), installed')
      <3>1. OutsideIn(stack, Len(stack) - 1, installed')
        BY <1>d, <2>1, <2>2 DEF NestedIn, WithAt
      <3> QED
        BY <1>a, <2>2, <2>4, <3>1
    <2>6. ASSUME NEW i \in DOMAIN stack', WithAt(stack', i)
          PROVE  OutsideIn(stack', i - 1, original'[stack'[i].capture])
      <3>1. /\ WithAt(stack, i) /\ stack'[i] = stack[i] /\ i \in DOMAIN stack
            /\ i - 1 \in 0..(Len(stack) - 1)
        BY <1>a, <2>2, <2>6 DEF WithAt
      <3>2. OutsideIn(stack, i - 1, original[stack[i].capture])
        BY <1>d, <3>1 DEF NestedIn
      <3> QED
        BY <2>1, <2>4, <3>1, <3>2
    <2>7. NestedIn(stack', installed', original')
      BY <2>5, <2>6 DEF NestedIn
    <2> QED
      BY <2>3, <2>7, NestByStack
  <1>3. ASSUME NEW s \in Schedulers, NEW reorder \in BOOLEAN, CallOnce(s, reorder)
        PROVE  CalleesOpened' /\ PatchesNest'
    <2>1. /\ control'.to = installed /\ UNCHANGED <<installed, original>> /\ stack' = stack
      BY <1>3 DEF CallOnce, tracers
    <2>2. control'.to \in Opened \cup {Plain}
      BY <2>1 DEF CalleesOpened
    <2> QED
      BY <2>1, <2>2, PatchesUntouched
  <1>4. ASSUME NEW s \in Schedulers, NEW n1 \in SUBSET Atoms, NEW n2 \in SUBSET Atoms,
               CallTwo(s, n1, n2)
        PROVE  CalleesOpened' /\ PatchesNest'
    <2>1. /\ control'.to = installed /\ UNCHANGED <<installed, original>> /\ stack' = stack
      BY <1>4 DEF CallTwo, tracers
    <2>2. control'.to \in Opened \cup {Plain}
      BY <2>1 DEF CalleesOpened
    <2> QED
      BY <2>1, <2>2, PatchesUntouched
  <1>5. CASE EnterTracedOnce
    <2> DEFINE c == control.to
               f == Frame("once", c, control.s, Len(passes[c]) + 1)
    <2>1. /\ c \in Captures /\ control.mode = "call" /\ control.fn = "once"
          /\ stack' = Append(stack, f) /\ UNCHANGED <<installed, original>>
          /\ control' = [control EXCEPT !.to = original[c]]
      BY <1>5 DEF EnterTracedOnce, Callee
    <2>2. f \in FrameType /\ f.kind = "once"
      BY <2>1, EntryFrames DEF Frame
    <2>3. original[c] \in Opened \cup {Plain}
      BY <1>c, <2>1, FunctionsAssumption DEF CalleesOpened
    <2> HIDE DEF f
    <2>4. control'.to \in Opened \cup {Plain}
      BY <1>b, <2>1, <2>3, Redirect DEF Opened
    <2> QED
      BY <2>1, <2>2, <2>4, PatchesUntouched
  <1>6. CASE EnterPlainOnce
    <2> DEFINE f == Frame("pass", None, control.s, Len(running) + 1)
    <2>1. /\ control.mode = "call" /\ control.fn = "once" /\ control' = Run
          /\ stack' = Append(stack, f) /\ UNCHANGED <<installed, original>>
      BY <1>6 DEF EnterPlainOnce, tracers
    <2>2. f \in FrameType /\ f.kind = "pass"
      BY <2>1, EntryFrames DEF Frame
    <2> HIDE DEF f
    <2> QED
      BY <2>1, <2>2, ControlTypes, PatchesUntouched
  <1>7. CASE EnterTracedTwo
    <2> DEFINE c == control.to
               f == Frame("two", c, control.s, 0)
    <2>1. /\ c \in Captures /\ control.mode = "call" /\ control.fn = "two"
          /\ stack' = Append(stack, f) /\ UNCHANGED <<installed, original>>
          /\ control' = [control EXCEPT !.to = original[c]]
      BY <1>7 DEF EnterTracedTwo, Callee, tracers
    <2>2. f \in FrameType /\ f.kind = "two"
      BY <2>1, EntryFrames DEF Frame
    <2>3. original[c] \in Opened \cup {Plain}
      BY <1>c, <2>1, FunctionsAssumption DEF CalleesOpened
    <2> HIDE DEF f
    <2>4. control'.to \in Opened \cup {Plain}
      BY <1>b, <2>1, <2>3, Redirect DEF Opened
    <2> QED
      BY <2>1, <2>2, <2>4, PatchesUntouched
  <1>8. CASE EnterPlainTwo
    <2>1. control'.mode = "return" /\ UNCHANGED <<installed, original>> /\ stack' = stack
      BY <1>8 DEF EnterPlainTwo, tracers
    <2> QED
      BY <2>1, PatchesUntouched
  <1>9. CASE \/ \E a \in Atoms : ReorderLoops(a)
             \/ ReturnToCaller \/ Throw \/ Catch \/ UNCHANGED vars
    <2>1. /\ control' \in {control, Run, Raising} /\ UNCHANGED <<installed, original>>
          /\ stack' = stack
      BY <1>9 DEF ReorderLoops, ReturnToCaller, Throw, Catch, vars, tracers
    <2>2. control'.mode = "call" => control'.to \in Opened \cup {Plain}
      BY <1>c, <2>1, ControlTypes
    <2> QED
      BY <2>1, <2>2, PatchesUntouched
  <1>10. CASE EndPass \/ ReturnTracedOnce \/ ReturnTracedTwo \/ UnwindTracedOnce \/ UnwindPlain
    <2>1. /\ stack # <<>> /\ Top.kind # "with" /\ stack' = Front(stack)
          /\ UNCHANGED <<installed, original>>
          /\ control'.mode = "return" \/ control' = control
      BY <1>10 DEF EndPass, ReturnTracedOnce, ReturnTracedTwo, UnwindTracedOnce, UnwindPlain,
                   TopIs, tracers, AfterRendering
    <2>2. control'.mode = "call" => control'.to \in Opened \cup {Plain}
      BY <1>c, <2>1
    <2> QED
      BY <2>1, <2>2, PatchesUntouched
  <1> QED
    BY <1>1, <1>2, <1>3, <1>4, <1>5, <1>6, <1>7, <1>8, <1>9, <1>10 DEF Next, Finished

-----------------------------------------------------------------------------
(* The shape of the stack. *)

(* Frame g may lie on top of frame f. *)
Above(f, g) ==
    /\ f.kind = "two" => g.kind = "two"
    /\ f.kind = "once" => g.kind \in {"once", "pass"} /\ g.s = f.s

(* A frame pushed on what may call it keeps the stack's shape. *)
LEMMA ShapePushed ==
    ASSUME TypeOK, StackShape, NEW f \in FrameType, stack' = Append(stack, f),
           stack # <<>> => Above(Top, f),
           f.kind = "two" => control' = Raising \/ Doing("two")',
           f.kind = "once" => control' = Raising \/ (Doing("once")' /\ f.s = control'.s)
    PROVE  StackShape'
  <1>1. /\ Len(stack) \in Nat /\ DOMAIN stack = 1..Len(stack)
        /\ Len(stack') = Len(stack) + 1 /\ DOMAIN stack' = 1..(Len(stack) + 1)
        /\ \A i \in DOMAIN stack : stack'[i] = stack[i]
        /\ stack'[Len(stack) + 1] = f
    BY Pushed
  <1>2. ASSUME NEW i \in DOMAIN stack', NEW j \in DOMAIN stack', j = i + 1
        PROVE  Above(stack'[i], stack'[j])
    <2>1. CASE j \in DOMAIN stack
      <3>1. i \in DOMAIN stack
        BY <1>1, <1>2, <2>1
      <3> QED
        BY <1>1, <1>2, <2>1, <3>1 DEF StackShape, Above
    <2>2. CASE j \notin DOMAIN stack
      <3>1. j = Len(stack) + 1 /\ i = Len(stack) /\ i \in DOMAIN stack
        BY <1>1, <1>2, <2>2
      <3>2. stack # <<>> /\ Top = stack[i]
        BY <3>1, StackPositions
      <3> QED
        BY <1>1, <3>1, <3>2
    <2> QED
      BY <2>1, <2>2
  <1>3. TopIs("two")' => f.kind = "two"
    BY <1>1 DEF TopIs, Top
  <1>4. TopIs("once")' => f.kind = "once" /\ Top' = f
    BY <1>1 DEF TopIs, Top
  <1> QED
    BY <1>2, <1>3, <1>4 DEF StackShape, Above

(* So does popping the top when control answers what is below. *)
LEMMA ShapePopped ==
    ASSUME TypeOK, StackShape, stack # <<>>, stack' = Front(stack),
           control' \in {Run, Raising} \/ control'.mode \in {"call", "return"},
           control' # Raising /\ stack' # <<>> =>
              /\ Top'.kind = "two" => Doing("two")'
              /\ Top'.kind = "once" => Doing("once")' /\ Top'.s = control'.s
    PROVE  StackShape'
  <1>1. /\ DOMAIN stack' = 1..(Len(stack) - 1)
        /\ \A i \in DOMAIN stack' : stack'[i] = stack[i] /\ i \in DOMAIN stack
    BY PoppedTop
  <1>2. \A i, j \in DOMAIN stack' : j = i + 1 => Above(stack'[i], stack'[j])
    BY <1>1 DEF StackShape, Above
  <1> QED
    BY <1>2 DEF StackShape, Above, TopIs

(* The frame that becomes the top lay under the one that leaves.           *)
LEMMA UnderTop ==
    ASSUME TypeOK, StackShape, stack # <<>>, stack' = Front(stack), stack' # <<>>
    PROVE  Above(Top', Top)
  <1>1. /\ Len(stack) \in Nat \ {0} /\ Len(stack) - 1 \in DOMAIN stack
        /\ stack'[Len(stack')] = stack[Len(stack) - 1]
        /\ Top = stack[Len(stack)] /\ Len(stack) \in DOMAIN stack
    BY PoppedTop
  <1>2. \A i, j \in DOMAIN stack : j = i + 1 => Above(stack[i], stack[j])
    BY DEF StackShape, Above
  <1>3. Len(stack) = (Len(stack) - 1) + 1
    BY <1>1
  <1>4. Above(stack[Len(stack) - 1], stack[Len(stack)])
    BY <1>1, <1>2, <1>3
  <1> QED
    BY <1>1, <1>4 DEF Top

(* A pass frame on top is that of the innermost pass.                      *)
LEMMA TopPass ==
    ASSUME TypeOK, FramesKnown, TopIs("pass")
    PROVE  /\ running # <<>> /\ Top.at = Len(running)
           /\ Last(running).s = Top.s
  <1>1. /\ Len(stack) \in Nat /\ DOMAIN stack = 1..Len(stack)
        /\ Len(stack) \in DOMAIN stack /\ Top = stack[Len(stack)]
    BY StackPositions DEF TopIs
  <1>2. running \in Seq(Pass)
    BY DEF TypeOK, Pass
  <1>3. Len(running) \in Nat /\ DOMAIN running = 1..Len(running)
    BY <1>2, LenProperties
  <1>4. PassAt(Len(stack)) /\ Top.at \in DOMAIN running /\ running[Top.at].s = Top.s
    BY <1>1 DEF FramesKnown, PassAt, TopIs
  <1>5. Len(running) \in DOMAIN running
    BY <1>3, <1>4
  <1>6. PICK i \in DOMAIN stack : PassAt(i) /\ stack[i].at = Len(running)
    BY <1>5 DEF FramesKnown
  <1>7. i < Len(stack) => stack[i].at < Top.at
    BY <1>1, <1>4, <1>6 DEF FramesKnown
  <1>8. Top.at = Len(running)
    BY <1>1, <1>3, <1>4, <1>6, <1>7
  <1> QED
    BY <1>3, <1>4, <1>8, EmptySeq DEF Last

(* Every step keeps the stack's shape. *)
LEMMA ShapeStep == TypeOK /\ TypeOK' /\ StackShape /\ FramesKnown /\ [Next]_vars => StackShape'
  <1> SUFFICES ASSUME TypeOK, TypeOK', StackShape, FramesKnown, [Next]_vars
               PROVE  StackShape'
    OBVIOUS
  <1>a. control \in ControlType /\ control' \in ControlType
    BY DEF TypeOK
  <1>b. /\ control = Run => ~TopIs("once") /\ ~TopIs("two")
        /\ control # Raising /\ TopIs("two") => Doing("two")
        /\ control # Raising /\ TopIs("once") => Doing("once") /\ Top.s = control.s
    BY ControlTypes DEF StackShape, Doing
  <1>1. ASSUME NEW c \in Captures, OpenCapture(c)
        PROVE  StackShape'
    <2> DEFINE f == Frame("with", c, None, 0)
    <2>1. control = Run /\ stack' = Append(stack, f)
      BY <1>1 DEF OpenCapture
    <2>2. f \in FrameType /\ f.kind = "with"
      BY EntryFrames DEF Frame
    <2> HIDE DEF f
    <2>3. stack # <<>> => Above(Top, f)
      BY <1>b, <2>1 DEF Above, TopIs
    <2> QED
      BY <2>1, <2>2, <2>3, ShapePushed
  <1>2. CASE CloseCapture
    <2>1. /\ control' = control /\ control \in {Run, Raising} /\ stack # <<>>
          /\ Top.kind = "with" /\ stack' = Front(stack)
      BY <1>2 DEF CloseCapture, TopIs
    <2>2. stack' # <<>> => Top'.kind # "two" /\ Top'.kind # "once"
      BY <2>1, UnderTop DEF Above
    <2> QED
      BY <2>1, <2>2, ShapePopped
  <1>3. ASSUME stack' = stack, control = Run \/ control' = Raising
        PROVE  StackShape'
    <2>1. Top' = Top /\ TopIs("two")' = TopIs("two") /\ TopIs("once")' = TopIs("once")
      BY <1>3 DEF Top, TopIs
    <2> QED
      BY <1>3, <1>b, <2>1 DEF StackShape
  <1>4. CASE EnterTracedOnce
    <2> DEFINE c == control.to
               f == Frame("once", c, control.s, Len(passes[c]) + 1)
    <2>1. /\ c \in Captures /\ control.mode = "call" /\ control.fn = "once"
          /\ stack' = Append(stack, f)
          /\ control' = [control EXCEPT !.to = Callee(c)]
      BY <1>4 DEF EnterTracedOnce
    <2>2. f \in FrameType /\ f.kind = "once" /\ f.s = control.s
      BY <2>1, EntryFrames DEF Frame
    <2> HIDE DEF f
    <2>3. control'.mode = "call" /\ control'.fn = "once" /\ control'.s = control.s
      BY <1>a, <2>1 DEF ControlType, Run, Raising
    <2>4. stack # <<>> => Above(Top, f)
      BY <1>b, <2>1, <2>2, ControlTypes DEF Above, TopIs, Doing
    <2> QED
      BY <2>1, <2>2, <2>3, <2>4, ShapePushed DEF Doing
  <1>5. CASE EnterPlainOnce
    <2> DEFINE f == Frame("pass", None, control.s, Len(running) + 1)
    <2>1. /\ control.mode = "call" /\ control.fn = "once" /\ control' = Run
          /\ stack' = Append(stack, f)
      BY <1>5 DEF EnterPlainOnce
    <2>2. f \in FrameType /\ f.kind = "pass" /\ f.s = control.s
      BY <2>1, EntryFrames DEF Frame
    <2> HIDE DEF f
    <2>3. stack # <<>> => Above(Top, f)
      BY <1>b, <2>1, <2>2, ControlTypes DEF Above, TopIs, Doing
    <2> QED
      BY <2>1, <2>2, <2>3, ShapePushed
  <1>6. CASE EnterTracedTwo
    <2> DEFINE c == control.to
               f == Frame("two", c, control.s, 0)
    <2>1. /\ c \in Captures /\ control.mode = "call" /\ control.fn = "two"
          /\ stack' = Append(stack, f)
          /\ control' = [control EXCEPT !.to = Callee(c)]
      BY <1>6 DEF EnterTracedTwo
    <2>2. f \in FrameType /\ f.kind = "two"
      BY <2>1, EntryFrames DEF Frame
    <2> HIDE DEF f
    <2>3. control'.mode = "call" /\ control'.fn = "two"
      BY <1>a, <2>1 DEF ControlType, Run, Raising
    <2>4. stack # <<>> => Above(Top, f)
      BY <1>b, <2>1, <2>2, ControlTypes DEF Above, TopIs, Doing
    <2> QED
      BY <2>1, <2>2, <2>3, <2>4, ShapePushed DEF Doing
  <1>7. CASE EnterPlainTwo
    <2>1. /\ control.mode = "call" /\ control.fn = "two" /\ stack' = stack
          /\ control'.mode = "return" /\ control'.fn = "two"
      BY <1>7 DEF EnterPlainTwo
    <2>2. Top' = Top /\ TopIs("two")' = TopIs("two") /\ TopIs("once")' = TopIs("once")
      BY <2>1 DEF Top, TopIs
    <2> QED
      BY <1>b, <2>1, <2>2, ControlTypes DEF StackShape, Doing
  <1>8. CASE EndPass
    <2>1. /\ TopIs("pass") /\ stack' = Front(stack) /\ stack # <<>>
          /\ control'.mode = "return" /\ control'.fn = "once"
          /\ control'.s = Last(running).s
      BY <1>8 DEF EndPass, TopIs
    <2>2. control'.s = Top.s
      BY <2>1, TopPass
    <2>3. stack' # <<>> => /\ Top'.kind # "two"
                           /\ Top'.kind = "once" => Top'.s = control'.s
      BY <2>1, <2>2, UnderTop DEF Above, TopIs
    <2> QED
      BY <2>1, <2>3, ShapePopped DEF Doing
  <1>9. CASE ReturnTracedOnce
    <2>1. /\ TopIs("once") /\ stack' = Front(stack) /\ stack # <<>>
          /\ control' = control /\ control.mode = "return"
      BY <1>9 DEF ReturnTracedOnce, TopIs
    <2>2. Doing("once") /\ Top.s = control.s
      BY <1>b, <2>1, ControlTypes
    <2>3. stack' # <<>> => /\ Top'.kind # "two"
                           /\ Top'.kind = "once" => Top'.s = control'.s
      BY <2>1, <2>2, UnderTop DEF Above, TopIs
    <2> QED
      BY <2>1, <2>2, <2>3, ShapePopped DEF Doing
  <1>10. CASE ReturnTracedTwo
    <2>1. /\ TopIs("two") /\ stack' = Front(stack) /\ stack # <<>>
          /\ control' = control /\ control.mode = "return"
      BY <1>10 DEF ReturnTracedTwo, TopIs, AfterRendering
    <2>2. Doing("two")
      BY <1>b, <2>1, ControlTypes
    <2>3. stack' # <<>> => Top'.kind # "once"
      BY <2>1, UnderTop DEF Above, TopIs
    <2> QED
      BY <2>1, <2>2, <2>3, ShapePopped DEF Doing
  <1>11. CASE ReturnToCaller \/ Catch
    <2>1. ~TopIs("once") /\ ~TopIs("two") /\ stack' = stack
      BY <1>11 DEF ReturnToCaller, Catch
    <2>2. Top' = Top /\ TopIs("two")' = TopIs("two") /\ TopIs("once")' = TopIs("once")
      BY <2>1 DEF Top, TopIs
    <2> QED
      BY <2>1, <2>2 DEF StackShape
  <1>12. CASE UnwindTracedOnce \/ UnwindPlain
    <2>1. /\ stack' = Front(stack) /\ stack # <<>> /\ control' = control /\ control = Raising
      BY <1>12 DEF UnwindTracedOnce, UnwindPlain, TopIs
    <2> QED
      BY <2>1, ShapePopped
  <1>13. CASE UNCHANGED vars
    <2>1. stack' = stack /\ control' = control
      BY <1>13 DEF vars
    <2>2. Top' = Top /\ TopIs("two")' = TopIs("two") /\ TopIs("once")' = TopIs("once")
      BY <2>1 DEF Top, TopIs
    <2> QED
      BY <2>1, <2>2 DEF StackShape, Doing
  <1>14. CASE \/ \E s \in Schedulers, reorder \in BOOLEAN : CallOnce(s, reorder)
              \/ \E s \in Schedulers, n1, n2 \in SUBSET Atoms : CallTwo(s, n1, n2)
              \/ \E a \in Atoms : ReorderLoops(a)
              \/ Throw
    BY <1>3, <1>14 DEF CallOnce, CallTwo, ReorderLoops, Throw
  <1> QED
    BY <1>1, <1>2, <1>4, <1>5, <1>6, <1>7, <1>8, <1>9, <1>10, <1>11, <1>12, <1>13, <1>14
    DEF Next, Finished

-----------------------------------------------------------------------------
(* Passes are never removed from a trace, and keep their scheduler. *)

PassesGrow ==
    \A c \in Captures : \A i \in DOMAIN passes[c] :
        i \in DOMAIN passes'[c] /\ passes'[c][i].graph = passes[c][i].graph

(* No step drops a pass. *)
LEMMA GrowStep == TypeOK /\ [Next]_vars => PassesGrow
  <1> SUFFICES ASSUME TypeOK, [Next]_vars PROVE PassesGrow
    OBVIOUS
  <1>0. passes \in [Captures -> Seq(PassType)]
    BY DEF TypeOK
  <1>a. \A c \in Captures : \A i \in DOMAIN passes[c] :
           /\ passes[c] \in Seq(PassType) /\ passes[c][i] \in PassType
           /\ DOMAIN passes[c] = 1..Len(passes[c])
    BY <1>0, LenProperties, ElementOfSeq
  <1>b. \A c \in Captures : \A p \in PassType :
           \A i \in DOMAIN passes[c] :
              i \in DOMAIN Append(passes[c], p) /\ Append(passes[c], p)[i] = passes[c][i]
    BY <1>0, AppendElements
  <1>1. CASE UNCHANGED passes
    BY <1>1 DEF PassesGrow
  <1>2. CASE EnterTracedOnce
    <2> DEFINE c == control.to
               p == NewPass(c, control.s, control.reorder, live[control.s])
    <2>1. c \in Captures /\ passes' = [passes EXCEPT ![c] = Append(@, p)]
      BY <1>2 DEF EnterTracedOnce
    <2>2. control.s \in Schedulers /\ control.reorder \in BOOLEAN
      BY <1>2, ControlCases DEF EnterTracedOnce, TypeOK
    <2>3. live[control.s] \in NodeList /\ <<>> \in Seq(StepType)
      BY <2>2, EmptySeq DEF TypeOK
    <2>4. p \in PassType
      BY <2>1, <2>2, <2>3, NewPassType
    <2> HIDE DEF p, c
    <2>5. passes'[c] = Append(passes[c], p) /\ \A d \in Captures \ {c} : passes'[d] = passes[d]
      BY <1>0, <2>1
    <2> QED
      BY <1>b, <2>1, <2>4, <2>5 DEF PassesGrow
  <1>3. CASE ReturnTracedOnce
    <2>1. passes' = [passes EXCEPT ![Top.capture][Top.at].after = control.result]
      BY <1>3 DEF ReturnTracedOnce
    <2> SUFFICES ASSUME NEW d \in Captures, NEW i \in DOMAIN passes[d]
                 PROVE  i \in DOMAIN passes'[d] /\ passes'[d][i].graph = passes[d][i].graph
      BY DEF PassesGrow
    <2>2. passes'[d] = IF d = Top.capture
                       THEN [passes[d] EXCEPT ![Top.at] =
                               [passes[d][Top.at] EXCEPT !.after = control.result]]
                       ELSE passes[d]
      BY <1>0, <2>1
    <2>3. passes'[d][i] \in {passes[d][i], [passes[d][i] EXCEPT !.after = control.result]}
          /\ i \in DOMAIN passes'[d]
      BY <1>a, <2>2
    <2>4. [passes[d][i] EXCEPT !.after = control.result].graph = passes[d][i].graph
      BY <1>a DEF PassType
    <2> QED
      BY <2>3, <2>4
  <1>4. CASE ReturnTracedTwo
    <2> DEFINE c == Top.capture
               step == StepOf(control.s, control.pair, control.result)
    <2>1. passes' = [passes EXCEPT ![c] = Recorded(c, control.s, step)]
      BY <1>4 DEF ReturnTracedTwo
    <2> HIDE DEF step
    <2> SUFFICES ASSUME NEW d \in Captures, NEW i \in DOMAIN passes[d]
                 PROVE  i \in DOMAIN passes'[d] /\ passes'[d][i].graph = passes[d][i].graph
      BY DEF PassesGrow
    <2>2. passes'[d] = IF d = c THEN Recorded(d, control.s, step) ELSE passes[d]
      BY <1>0, <2>1
    <2> HIDE DEF c
    <2>3. CASE passStack[d] # <<>>
      <3>1. Recorded(d, control.s, step) =
               [passes[d] EXCEPT ![CurrentPass(d)] =
                   [passes[d][CurrentPass(d)] EXCEPT
                       !.steps = Append(passes[d][CurrentPass(d)].steps, step)]]
        BY <1>a, <2>3 DEF Recorded, PassType
      <3>2. /\ passes'[d][i] \in {passes[d][i],
                                  [passes[d][i] EXCEPT !.steps = Append(passes[d][i].steps, step)]}
            /\ i \in DOMAIN passes'[d]
        BY <1>a, <2>2, <3>1
      <3>3. [passes[d][i] EXCEPT !.steps = Append(passes[d][i].steps, step)].graph
                = passes[d][i].graph
        BY <1>a DEF PassType
      <3> QED
        BY <3>2, <3>3
    <2>4. CASE passStack[d] = <<>>
      <3> DEFINE p == [NewPass(d, control.s, FALSE, step.pair) EXCEPT !.steps = <<step>>]
      <3>1. Recorded(d, control.s, step) = Append(passes[d], p)
        BY <2>4 DEF Recorded
      <3> HIDE DEF p
      <3>2. /\ DOMAIN passes[d] = 1..Len(passes[d]) /\ Len(passes[d]) \in Nat
            /\ DOMAIN Append(passes[d], p) = 1..(Len(passes[d]) + 1)
            /\ Append(passes[d], p)[i] = passes[d][i]
        BY <1>0
      <3> QED
        BY <2>2, <3>1, <3>2
    <2> QED
      BY <2>3, <2>4
  <1>5. CASE \/ \E c \in Captures : OpenCapture(c)
             \/ CloseCapture
             \/ \E s \in Schedulers, reorder \in BOOLEAN : CallOnce(s, reorder)
             \/ \E s \in Schedulers, n1, n2 \in SUBSET Atoms : CallTwo(s, n1, n2)
             \/ EnterPlainOnce \/ EnterTracedTwo \/ EnterPlainTwo
             \/ \E a \in Atoms : ReorderLoops(a)
             \/ EndPass \/ ReturnToCaller \/ Throw \/ UnwindTracedOnce \/ UnwindPlain \/ Catch
             \/ UNCHANGED vars
    BY <1>1, <1>5 DEF OpenCapture, CloseCapture, CallOnce, CallTwo, EnterPlainOnce,
           EnterTracedTwo, EnterPlainTwo, ReorderLoops, EndPass, ReturnToCaller, Throw,
           UnwindTracedOnce, UnwindPlain, Catch, vars, tracers
  <1> QED
    BY <1>2, <1>3, <1>4, <1>5 DEF Next, Finished

-----------------------------------------------------------------------------
(* Frames of passes and of wrappers. *)

(* What a frame of each kind names. *)
Known(f, run, ps) ==
    /\ f.kind \in {"with", "once", "two"} => f.capture \in Captures
    /\ f.kind = "once" => f.at \in DOMAIN ps[f.capture]
    /\ f.kind = "pass" => f.at \in DOMAIN run /\ run[f.at].s = f.s

(* The list of a pass changes without changing whose it is. *)
SamePasses == /\ DOMAIN running' = DOMAIN running
              /\ \A k \in DOMAIN running : running'[k].s = running[k].s

(* Frames stay known when no pass is entered or left. *)
LEMMA FramesKept ==
    ASSUME TypeOK, FramesKnown, PassesGrow, SamePasses,
           \/ stack' = stack
           \/ \E f \in FrameType : /\ f.kind # "pass" /\ Known(f, running', passes')
                                   /\ stack' = Append(stack, f)
           \/ stack # <<>> /\ Top.kind # "pass" /\ stack' = Front(stack)
    PROVE  FramesKnown'
  <1>1. /\ \A i \in DOMAIN stack' : /\ i \in DOMAIN stack => stack'[i] = stack[i]
                                    /\ i \notin DOMAIN stack =>
                                          /\ stack'[i].kind # "pass"
                                          /\ Known(stack'[i], running', passes')
        /\ \A i \in DOMAIN stack : stack[i].kind = "pass" => i \in DOMAIN stack'
    <2>1. CASE stack' = stack
      BY <2>1, SMTT(60)
    <2>2. ASSUME NEW f \in FrameType, f.kind # "pass", Known(f, running', passes'),
                 stack' = Append(stack, f)
          PROVE  <1>1!:
      <3>1. /\ Len(stack) \in Nat /\ DOMAIN stack = 1..Len(stack)
            /\ DOMAIN stack' = 1..(Len(stack) + 1)
            /\ \A i \in DOMAIN stack : stack'[i] = stack[i]
            /\ stack'[Len(stack) + 1] = f
        BY <2>2, Pushed
      <3>2. \A i \in DOMAIN stack' : i \in DOMAIN stack \/ i = Len(stack) + 1
        BY <3>1
      <3>3. DOMAIN stack \subseteq DOMAIN stack'
        BY <3>1, SMTT(60)
      <3> QED
        BY <2>2, <3>1, <3>2, <3>3
    <2>3. CASE stack # <<>> /\ Top.kind # "pass" /\ stack' = Front(stack)
      <3>1. /\ Len(stack) \in Nat \ {0} /\ DOMAIN stack = 1..Len(stack)
            /\ DOMAIN stack' = 1..(Len(stack) - 1)
            /\ \A i \in DOMAIN stack' : stack'[i] = stack[i] /\ i \in DOMAIN stack
            /\ Top = stack[Len(stack)]
        BY <2>3, PoppedTop
      <3>2. \A n \in Nat \ {0} : \A i \in 1..n : i \in 1..(n - 1) \/ i = n
        BY SMTT(60)
      <3>3. \A i \in DOMAIN stack : i \in DOMAIN stack' \/ i = Len(stack)
        BY <3>1, <3>2
      <3> QED
        BY <2>3, <3>1, <3>3, ZenonT(60)
    <2> QED
      BY <2>1, <2>2, <2>3
  <1>2. ASSUME NEW i \in DOMAIN stack'
        PROVE  Known(stack'[i], running', passes')
    <2>1. CASE i \in DOMAIN stack
      <3>1. Known(stack[i], running, passes)
        BY <2>1 DEF FramesKnown, Known
      <3>2. stack'[i] = stack[i]
        BY <1>1, <2>1
      <3> QED
        BY <3>1, <3>2 DEF Known, SamePasses, PassesGrow
    <2>2. CASE i \notin DOMAIN stack
      BY <1>1, <2>2
    <2> QED
      BY <2>1, <2>2
  <1>3. \A i \in DOMAIN stack' : stack'[i].kind = "pass" => PassAt(i) /\ stack'[i] = stack[i]
    BY <1>1 DEF PassAt
  <1>4. \A i, j \in DOMAIN stack' :
           stack'[i].kind = "pass" /\ stack'[j].kind = "pass" /\ i < j =>
              stack'[i].at < stack'[j].at
    BY <1>3 DEF FramesKnown, PassAt
  <1>5. ASSUME NEW k \in DOMAIN running'
        PROVE  \E i \in DOMAIN stack' : stack'[i].kind = "pass" /\ stack'[i].at = k
    <2>1. PICK i \in DOMAIN stack : PassAt(i) /\ stack[i].at = k
      BY DEF FramesKnown, SamePasses
    <2> QED
      BY <1>1, <2>1 DEF PassAt
  <1> QED
    BY <1>2, <1>4, <1>5 DEF FramesKnown, Known, PassAt

(* Every step keeps the frames known. *)
LEMMA FramesStep ==
    TypeOK /\ CalleesOpened /\ FramesKnown /\ [Next]_vars => FramesKnown'
  <1> SUFFICES ASSUME TypeOK, CalleesOpened, FramesKnown, [Next]_vars
               PROVE  FramesKnown'
    OBVIOUS
  <1>a. PassesGrow
    BY GrowStep
  <1>b. running \in Seq(Pass) /\ Len(running) \in Nat /\ DOMAIN running = 1..Len(running)
    BY LenProperties DEF TypeOK, Pass
  <1>1. ASSUME NEW c \in Captures, OpenCapture(c)
        PROVE  FramesKnown'
    <2> DEFINE f == Frame("with", c, None, 0)
    <2>1. stack' = Append(stack, f) /\ running' = running
      BY <1>1 DEF OpenCapture
    <2>2. f \in FrameType /\ f.kind = "with" /\ f.capture = c
      BY EntryFrames DEF Frame
    <2> HIDE DEF f
    <2> QED
      BY <1>a, <2>1, <2>2, FramesKept DEF Known, SamePasses
  <1>2. CASE EnterTracedOnce
    <2> DEFINE c == control.to
               n == Len(passes[c]) + 1
               f == Frame("once", c, control.s, n)
               p == NewPass(c, control.s, control.reorder, live[control.s])
    <2>1. /\ c \in Captures /\ control.mode = "call" /\ control.fn = "once"
          /\ stack' = Append(stack, f) /\ running' = running
          /\ passes' = [passes EXCEPT ![c] = Append(@, p)]
      BY <1>2 DEF EnterTracedOnce
    <2>2. f \in FrameType /\ f.kind = "once" /\ f.capture = c /\ f.at = n
      BY <2>1, EntryFrames DEF Frame
    <2> HIDE DEF f, p
    <2>3. passes[c] \in Seq(PassType) /\ passes'[c] = Append(passes[c], p)
      BY <2>1 DEF TypeOK
    <2>4. n \in DOMAIN passes'[c]
      BY <2>3
    <2> QED
      BY <1>a, <2>1, <2>2, <2>4, FramesKept DEF Known, SamePasses
  <1>3. CASE EnterTracedTwo
    <2> DEFINE f == Frame("two", control.to, control.s, 0)
    <2>1. /\ control.to \in Captures /\ control.mode = "call" /\ control.fn = "two"
          /\ stack' = Append(stack, f) /\ running' = running
      BY <1>3 DEF EnterTracedTwo
    <2>2. f \in FrameType /\ f.kind = "two" /\ f.capture = control.to
      BY <2>1, EntryFrames DEF Frame
    <2> HIDE DEF f
    <2> QED
      BY <1>a, <2>1, <2>2, FramesKept DEF Known, SamePasses
  <1>4. CASE EnterPlainTwo
    <2>1. stack' = stack
      BY <1>4 DEF EnterPlainTwo
    <2>2. SamePasses
      <3>1. CASE running = <<>>
        BY <1>4, <3>1 DEF EnterPlainTwo, SamePasses
      <3>2. CASE running # <<>>
        <4>1. running' = [running EXCEPT ![Len(running)].fused =
                             FusePair(FusedNodes(control.s), control.pair)]
          BY <1>4, <3>2 DEF EnterPlainTwo
        <4>2. \A k \in DOMAIN running : running[k] \in Pass
          BY <1>b, ElementOfSeq
        <4> HIDE DEF EnterPlainTwo
        <4> QED
          BY <4>1, <4>2 DEF SamePasses, Pass
      <3> QED
        BY <3>1, <3>2
    <2> QED
      BY <1>a, <2>1, <2>2, FramesKept
  <1>5. CASE EnterPlainOnce
    <2> DEFINE n == Len(running) + 1
               f == Frame("pass", None, control.s, n)
               r == [s |-> control.s, reorder |-> control.reorder, fused |-> live[control.s]]
    <2>1. /\ control.mode = "call" /\ control.fn = "once"
          /\ stack' = Append(stack, f) /\ running' = Append(running, r) /\ passes' = passes
      BY <1>5 DEF EnterPlainOnce, tracers
    <2>2. f \in FrameType /\ f.kind = "pass" /\ f.at = n /\ f.s = control.s /\ r.s = control.s
      BY <2>1, EntryFrames DEF Frame
    <2> HIDE DEF f, r
    <2>3. /\ DOMAIN running' = 1..n /\ running'[n] = r /\ n \in DOMAIN running'
          /\ \A k \in DOMAIN running : running'[k] = running[k] /\ k \in DOMAIN running'
          /\ \A k \in DOMAIN running' : k \in DOMAIN running \/ k = n
          /\ \A k \in DOMAIN running : k < n
      BY <1>b, <2>1
    <2> HIDE DEF n
    <2>4. /\ Len(stack) \in Nat /\ DOMAIN stack = 1..Len(stack)
          /\ DOMAIN stack' = 1..(Len(stack) + 1)
          /\ \A i \in DOMAIN stack : stack'[i] = stack[i]
          /\ stack'[Len(stack) + 1] = f
      BY <2>1, <2>2, Pushed
    <2>5. /\ \A i \in DOMAIN stack' : i \in DOMAIN stack \/ i = Len(stack) + 1
          /\ \A i \in DOMAIN stack : i \in DOMAIN stack' /\ i < Len(stack) + 1
          /\ Len(stack) + 1 \in DOMAIN stack'
      BY <2>4
    <2>6. \A i \in DOMAIN stack' : Known(stack'[i], running', passes')
      <3>1. \A i \in DOMAIN stack : Known(stack[i], running, passes)
        BY DEF FramesKnown, Known
      <3>2. Known(f, running', passes')
        BY <2>2, <2>3 DEF Known
      <3>3. \A i \in DOMAIN stack : Known(stack[i], running', passes')
        BY <2>1, <2>3, <3>1 DEF Known
      <3> QED
        BY <2>4, <2>5, <3>2, <3>3
    <2>7. ASSUME NEW i \in DOMAIN stack', NEW j \in DOMAIN stack',
                 stack'[i].kind = "pass", stack'[j].kind = "pass", i < j
          PROVE  stack'[i].at < stack'[j].at
      <3>1. i \in DOMAIN stack
        BY <2>4, <2>7
      <3>2. CASE j \in DOMAIN stack
        BY <2>4, <2>7, <3>1, <3>2 DEF FramesKnown, PassAt
      <3>3. CASE j = Len(stack) + 1
        <4>1. stack'[j].at = n /\ stack'[i] = stack[i]
          BY <2>2, <2>4, <3>1, <3>3
        <4>2. stack[i].at \in DOMAIN running
          BY <2>7, <3>1, <4>1 DEF FramesKnown
        <4> QED
          BY <2>3, <4>1, <4>2
      <3> QED
        BY <2>5, <3>2, <3>3
    <2>8. ASSUME NEW k \in DOMAIN running'
          PROVE  \E i \in DOMAIN stack' : stack'[i].kind = "pass" /\ stack'[i].at = k
      <3>1. CASE k = n
        BY <2>2, <2>4, <2>5, <3>1
      <3>2. CASE k \in DOMAIN running
        <4>1. PICK i \in DOMAIN stack : PassAt(i) /\ stack[i].at = k
          BY <3>2 DEF FramesKnown
        <4> QED
          BY <2>4, <2>5, <4>1 DEF PassAt
      <3> QED
        BY <2>3, <3>1, <3>2
    <2> QED
      BY <2>6, <2>7, <2>8 DEF FramesKnown, Known, PassAt
  <1>6. CASE EndPass \/ (UnwindPlain /\ TopIs("pass"))
    <2>1. /\ TopIs("pass") /\ stack # <<>> /\ stack' = Front(stack)
          /\ running' = Front(running) /\ passes' = passes
      BY <1>6 DEF EndPass, UnwindPlain, TopIs, tracers
    <2>2. running # <<>> /\ Top.at = Len(running) /\ Top.kind = "pass"
      BY <2>1, TopPass DEF TopIs
    <2>3. /\ DOMAIN running' = 1..(Len(running) - 1)
          /\ \A k \in DOMAIN running' : /\ running'[k] = running[k] /\ k \in DOMAIN running
                                        /\ k < Len(running)
          /\ \A k \in DOMAIN running : k < Len(running) => k \in DOMAIN running'
      BY <1>b, <2>1, <2>2, FrontElements
    <2>4. /\ Len(stack) \in Nat \ {0} /\ DOMAIN stack = 1..Len(stack)
          /\ DOMAIN stack' = 1..(Len(stack) - 1)
          /\ \A i \in DOMAIN stack' : stack'[i] = stack[i] /\ i \in DOMAIN stack
          /\ Top = stack[Len(stack)] /\ Len(stack) \in DOMAIN stack
      BY <2>1, PoppedTop
    <2>5. \A i \in DOMAIN stack : i \in DOMAIN stack' <=> i < Len(stack)
      BY <2>4
    <2>6. ASSUME NEW i \in DOMAIN stack'
          PROVE  Known(stack'[i], running', passes')
      <3>1. Known(stack[i], running, passes) /\ stack'[i] = stack[i] /\ i \in DOMAIN stack
        BY <2>4 DEF FramesKnown, Known
      <3>2. stack[i].kind = "pass" => stack[i].at < Len(running)
        BY <2>2, <2>4, <2>5, <3>1 DEF FramesKnown, PassAt
      <3> QED
        BY <2>1, <2>3, <3>1, <3>2 DEF Known
    <2>7. \A i, j \in DOMAIN stack' :
             stack'[i].kind = "pass" /\ stack'[j].kind = "pass" /\ i < j =>
                stack'[i].at < stack'[j].at
      BY <2>4 DEF FramesKnown, PassAt
    <2>8. ASSUME NEW k \in DOMAIN running'
          PROVE  \E i \in DOMAIN stack' : stack'[i].kind = "pass" /\ stack'[i].at = k
      <3>1. PICK i \in DOMAIN stack : PassAt(i) /\ stack[i].at = k
        BY <2>3 DEF FramesKnown
      <3>2. i # Len(stack)
        BY <1>b, <2>2, <2>3, <2>4, <3>1
      <3>3. i \in DOMAIN stack'
        BY <2>4, <2>5, <3>2
      <3> QED
        BY <2>4, <3>1, <3>3 DEF PassAt
    <2> QED
      BY <2>6, <2>7, <2>8 DEF FramesKnown, Known, PassAt
  <1>7. CASE \/ CloseCapture \/ ReturnTracedOnce \/ ReturnTracedTwo \/ UnwindTracedOnce
             \/ (UnwindPlain /\ ~TopIs("pass"))
    <2>1. stack # <<>> /\ Top.kind # "pass" /\ stack' = Front(stack) /\ running' = running
      BY <1>7 DEF CloseCapture, ReturnTracedOnce, ReturnTracedTwo, UnwindTracedOnce,
                  UnwindPlain, TopIs
    <2> QED
      BY <1>a, <2>1, FramesKept DEF SamePasses
  <1>8. CASE \/ \E s \in Schedulers, reorder \in BOOLEAN : CallOnce(s, reorder)
             \/ \E s \in Schedulers, n1, n2 \in SUBSET Atoms : CallTwo(s, n1, n2)
             \/ \E a \in Atoms : ReorderLoops(a)
             \/ ReturnToCaller \/ Throw \/ Catch \/ UNCHANGED vars
    <2>1. stack' = stack /\ running' = running
      BY <1>8 DEF CallOnce, CallTwo, ReorderLoops, ReturnToCaller, Throw, Catch, vars
    <2> QED
      BY <1>a, <2>1, FramesKept DEF SamePasses
  <1> QED
    BY <1>1, <1>2, <1>3, <1>4, <1>5, <1>6, <1>7, <1>8 DEF Next, Finished

-----------------------------------------------------------------------------
(* Passes being executed under a capture. *)

OnceIn(q, c) == {i \in DOMAIN q : q[i].kind = "once" /\ q[i].capture = c}
Tracked(q, stk, ps, c) ==
    /\ Increasing(stk)
    /\ \A i, j \in OnceIn(q, c) : i < j => q[i].at < q[j].at
    /\ {stk[k] : k \in DOMAIN stk} = {q[i].at : i \in OnceIn(q, c)}
    /\ \A i \in OnceIn(q, c) : ps[q[i].at].graph = q[i].s

(* The property, one capture at a time. *)
LEMMA TrackedByCapture ==
    /\ PassStackIsCallStack <=> \A c \in Captures : Tracked(stack, passStack[c], passes[c], c)
    /\ PassStackIsCallStack' <=>
          \A c \in Captures : Tracked(stack', passStack'[c], passes'[c], c)
  <1>1. PassStackIsCallStack <=>
            \A c \in Captures : Tracked(stack, passStack[c], passes[c], c)
    BY DEF PassStackIsCallStack, Tracked, OnceIn, OnceFrames
  <1>2. PassStackIsCallStack' <=>
            \A c \in Captures : Tracked(stack', passStack'[c], passes'[c], c)
    BY DEF PassStackIsCallStack, Tracked, OnceIn, OnceFrames
  <1> QED
    BY <1>1, <1>2

(* A capture for which no call of fuse_nodes_once begins or ends. *)
LEMMA TrackedKept ==
    ASSUME FramesKnown, PassesGrow, NEW c \in Captures,
           Tracked(stack, passStack[c], passes[c], c), passStack'[c] = passStack[c],
           OnceIn(stack', c) = OnceIn(stack, c),
           \A i \in OnceIn(stack, c) : stack'[i] = stack[i]
    PROVE  Tracked(stack', passStack'[c], passes'[c], c)
  <1>1. \A i \in OnceIn(stack, c) : passes'[c][stack[i].at].graph = passes[c][stack[i].at].graph
    BY DEF OnceIn, FramesKnown, PassesGrow
  <1>2. {stack'[i].at : i \in OnceIn(stack', c)} = {stack[i].at : i \in OnceIn(stack, c)}
    OBVIOUS
  <1> QED
    BY <1>1, <1>2, SMTT(60) DEF Tracked

(* It is kept when no traced pass is entered or left. *)
LEMMA TrackedUntouched ==
    ASSUME TypeOK, FramesKnown, PassesGrow, PassStackIsCallStack, UNCHANGED passStack,
           \/ stack' = stack
           \/ \E f \in FrameType : f.kind # "once" /\ stack' = Append(stack, f)
           \/ stack # <<>> /\ Top.kind # "once" /\ stack' = Front(stack)
    PROVE  PassStackIsCallStack'
  <1> SUFFICES ASSUME NEW c \in Captures
               PROVE  /\ OnceIn(stack', c) = OnceIn(stack, c)
                      /\ \A i \in OnceIn(stack, c) : stack'[i] = stack[i]
    BY TrackedByCapture, TrackedKept
  <1>1. CASE stack' = stack
    BY <1>1
  <1>2. ASSUME NEW f \in FrameType, f.kind # "once", stack' = Append(stack, f)
        PROVE  /\ OnceIn(stack', c) = OnceIn(stack, c)
               /\ \A i \in OnceIn(stack, c) : stack'[i] = stack[i]
    <2>1. /\ Len(stack) \in Nat /\ DOMAIN stack = 1..Len(stack)
          /\ DOMAIN stack' = 1..(Len(stack) + 1)
          /\ \A i \in DOMAIN stack : stack'[i] = stack[i]
          /\ stack'[Len(stack) + 1] = f
      BY <1>2, Pushed
    <2>2. /\ \A i \in DOMAIN stack' : i \in DOMAIN stack \/ i = Len(stack) + 1
          /\ DOMAIN stack \subseteq DOMAIN stack'
      BY <2>1, SMTT(60)
    <2> QED
      BY <1>2, <2>1, <2>2 DEF OnceIn
  <1>3. CASE stack # <<>> /\ Top.kind # "once" /\ stack' = Front(stack)
    <2>1. /\ Len(stack) \in Nat \ {0} /\ DOMAIN stack = 1..Len(stack)
          /\ DOMAIN stack' = 1..(Len(stack) - 1)
          /\ \A i \in DOMAIN stack' : stack'[i] = stack[i] /\ i \in DOMAIN stack
          /\ Top = stack[Len(stack)]
      BY <1>3, PoppedTop
    <2>2. \A n \in Nat \ {0} : \A i \in 1..n : i \in 1..(n - 1) \/ i = n
      BY SMTT(60)
    <2>3. \A i \in DOMAIN stack : i \in DOMAIN stack' \/ i = Len(stack)
      BY <2>1, <2>2
    <2> QED
      BY <1>3, <2>1, <2>3, ZenonT(60) DEF OnceIn
  <1> QED
    BY <1>1, <1>2, <1>3

(* The pass on top of pass_stack is that of the innermost wrapper. *)
LEMMA TopOnce ==
    ASSUME TypeOK, FramesKnown, PassStackIsCallStack, TopIs("once")
    PROVE  LET c == Top.capture IN
           /\ c \in Captures /\ Top.at \in DOMAIN passes[c]
           /\ passStack[c] # <<>> /\ Last(passStack[c]) = Top.at
  <1> DEFINE c == Top.capture
             stk == passStack[c]
             t == Len(stack)
  <1>1. t \in Nat /\ DOMAIN stack = 1..t /\ t \in DOMAIN stack /\ Top = stack[t]
    BY StackPositions DEF TopIs
  <1>2. c \in Captures /\ Top.at \in DOMAIN passes[c] /\ t \in OnceIn(stack, c)
    BY <1>1 DEF FramesKnown, TopIs, OnceIn
  <1>3. stk \in Seq(Nat) /\ passes[c] \in Seq(PassType)
    BY <1>2 DEF TypeOK
  <1>4. Tracked(stack, stk, passes[c], c)
    BY <1>2, TrackedByCapture
  <1>5. PICK k \in DOMAIN stk : stk[k] = stack[t].at
    BY <1>2, <1>4 DEF Tracked
  <1>6. DOMAIN stk = 1..Len(stk) /\ Len(stk) \in Nat /\ Len(stk) \in DOMAIN stk
    BY <1>3, <1>5, LenProperties
  <1>7. PICK i \in OnceIn(stack, c) : stack[i].at = stk[Len(stk)]
    BY <1>4, <1>6 DEF Tracked
  <1>8. /\ i < t => stack[i].at < stack[t].at
        /\ k < Len(stk) => stk[k] < stk[Len(stk)]
    BY <1>2, <1>4, <1>5, <1>6, <1>7 DEF Tracked, Increasing
  <1>9. stk[k] \in Nat /\ stk[Len(stk)] \in Nat /\ i \in 1..t
    BY <1>1, <1>3, <1>5, <1>6, <1>7, ElementOfSeq DEF OnceIn
  <1>10. stk[Len(stk)] = Top.at
    BY <1>1, <1>5, <1>6, <1>7, <1>8, <1>9
  <1> QED
    BY <1>2, <1>3, <1>6, <1>10, EmptySeq DEF Last

(* Every step keeps it. *)
LEMMA PassStackStep ==
    TypeOK /\ FramesKnown /\ PassStackIsCallStack /\ [Next]_vars => PassStackIsCallStack'
  <1> SUFFICES ASSUME TypeOK, FramesKnown, PassStackIsCallStack, [Next]_vars
               PROVE  PassStackIsCallStack'
    OBVIOUS
  <1>a. PassesGrow
    BY GrowStep
  <1>b. /\ passes \in [Captures -> Seq(PassType)] /\ passStack \in [Captures -> Seq(Nat)]
        /\ \A c \in Captures : \A k \in DOMAIN passStack[c] : passStack[c][k] \in DOMAIN passes[c]
    BY DEF TypeOK
  <1>1. CASE EnterTracedOnce
    <2> DEFINE c == control.to
               n == Len(passes[c]) + 1
               f == Frame("once", c, control.s, n)
               p == NewPass(c, control.s, control.reorder, live[control.s])
    <2>1. /\ c \in Captures /\ control.mode = "call" /\ control.fn = "once"
          /\ stack' = Append(stack, f)
          /\ passes' = [passes EXCEPT ![c] = Append(@, p)]
          /\ passStack' = [passStack EXCEPT ![c] = Append(@, n)]
      BY <1>1 DEF EnterTracedOnce
    <2>2. f \in FrameType /\ f.kind = "once" /\ f.capture = c /\ f.at = n /\ f.s = p.graph
      BY <2>1, EntryFrames DEF Frame, NewPass
    <2> HIDE DEF f, p
    <2>3. passes[c] \in Seq(PassType) /\ passes'[c] = Append(passes[c], p)
      BY <1>b, <2>1
    <2>4. /\ n \in Nat /\ passes'[c][n] = p /\ \A i \in DOMAIN passes[c] : i < n /\ i \in Nat
      BY <2>3
    <2> HIDE DEF n
    <2>5. /\ Len(stack) \in Nat /\ DOMAIN stack = 1..Len(stack)
          /\ DOMAIN stack' = 1..(Len(stack) + 1)
          /\ \A i \in DOMAIN stack : stack'[i] = stack[i]
          /\ stack'[Len(stack) + 1] = f
      BY <2>1, <2>2, Pushed
    <2>6. /\ \A i \in DOMAIN stack' : i \in DOMAIN stack \/ i = Len(stack) + 1
          /\ \A i \in DOMAIN stack : i \in DOMAIN stack' /\ i < Len(stack) + 1
          /\ Len(stack) + 1 \in DOMAIN stack'
      BY <2>5
    <2>7. ASSUME NEW d \in Captures, d # c
          PROVE  Tracked(stack', passStack'[d], passes'[d], d)
      <3>1. OnceIn(stack', d) = OnceIn(stack, d)
        BY <2>2, <2>5, <2>6, <2>7 DEF OnceIn
      <3>2. passStack'[d] = passStack[d]
        BY <1>b, <2>1, <2>7
      <3>3. \A i \in OnceIn(stack, d) : stack'[i] = stack[i]
        BY <2>5 DEF OnceIn
      <3> QED
        BY <1>a, <3>1, <3>2, <3>3, TrackedByCapture, TrackedKept
    <2>8. Tracked(stack', passStack'[c], passes'[c], c)
      <3> DEFINE stk == passStack[c]
                 stk2 == passStack'[c]
                 t == Len(stack) + 1
      <3>1. stk \in Seq(Nat) /\ stk2 = Append(stk, n)
        BY <1>b, <2>1
      <3>2. Tracked(stack, stk, passes[c], c)
        BY <2>1, TrackedByCapture
      <3> HIDE DEF stk, stk2
      <3>3. /\ Len(stk) \in Nat /\ DOMAIN stk = 1..Len(stk)
            /\ DOMAIN stk2 = 1..(Len(stk) + 1)
            /\ \A k \in DOMAIN stk : stk2[k] = stk[k]
            /\ stk2[Len(stk) + 1] = n
        BY <2>4, <3>1, AppendElements
      <3>4. /\ \A k \in DOMAIN stk2 : k \in DOMAIN stk \/ k = Len(stk) + 1
            /\ \A k \in DOMAIN stk : k \in DOMAIN stk2 /\ k < Len(stk) + 1
            /\ Len(stk) + 1 \in DOMAIN stk2
        BY <3>3
      <3>5. \A k \in DOMAIN stk : stk[k] < n
        BY <1>b, <2>1, <2>4 DEF stk
      <3>6. \A k, m \in DOMAIN stk2 : k < m => stk2[k] < stk2[m]
        <4> SUFFICES ASSUME NEW k \in DOMAIN stk2, NEW m \in DOMAIN stk2, k < m
                     PROVE  stk2[k] < stk2[m]
          OBVIOUS
        <4>1. k \in DOMAIN stk
          BY <3>3
        <4> QED
          BY <3>2, <3>3, <3>4, <3>5, <4>1 DEF Tracked, Increasing
      <3>7. OnceIn(stack', c) = OnceIn(stack, c) \cup {t}
        BY <2>2, <2>5, <2>6 DEF OnceIn
      <3>8. \A i \in OnceIn(stack, c) : /\ stack'[i] = stack[i] /\ i < t
                                        /\ stack[i].at \in DOMAIN passes[c]
        BY <2>5, <2>6 DEF OnceIn, FramesKnown
      <3>9. \A i, j \in OnceIn(stack', c) : i < j => stack'[i].at < stack'[j].at
        <4> SUFFICES ASSUME NEW i \in OnceIn(stack', c), NEW j \in OnceIn(stack', c), i < j
                     PROVE  stack'[i].at < stack'[j].at
          OBVIOUS
        <4>1. i \in OnceIn(stack, c)
          BY <2>5, <2>6, <3>7, <3>8 DEF OnceIn
        <4>2. CASE j = t
          BY <2>2, <2>4, <2>5, <3>8, <4>1, <4>2
        <4>3. CASE j \in OnceIn(stack, c)
          BY <3>2, <3>8, <4>1, <4>3 DEF Tracked
        <4> QED
          BY <3>7, <4>2, <4>3
      <3>10. {stk2[k] : k \in DOMAIN stk2} = {stack'[i].at : i \in OnceIn(stack', c)}
        <4>1. {stk2[k] : k \in DOMAIN stk2} = {stk[k] : k \in DOMAIN stk} \cup {n}
          BY <3>3, <3>4
        <4>2. {stack'[i].at : i \in OnceIn(stack', c)} = {stack[i].at : i \in OnceIn(stack, c)} \cup {n}
          BY <2>2, <2>5, <3>7, <3>8
        <4> QED
          BY <3>2, <4>1, <4>2 DEF Tracked
      <3>11. ASSUME NEW i \in OnceIn(stack', c)
             PROVE  passes'[c][stack'[i].at].graph = stack'[i].s
        <4>1. CASE i = t
          BY <2>2, <2>4, <2>5, <4>1
        <4>2. CASE i \in OnceIn(stack, c)
          BY <1>a, <2>1, <3>2, <3>8, <4>2, ZenonT(60) DEF Tracked, PassesGrow
        <4> QED
          BY <3>7, <4>1, <4>2
      <3> QED
        BY <3>6, <3>9, <3>10, <3>11 DEF Tracked, Increasing, stk2
    <2> QED
      BY <2>1, <2>7, <2>8, TrackedByCapture
  <1>2. CASE ReturnTracedOnce \/ UnwindTracedOnce
    <2> DEFINE c == Top.capture
               t == Len(stack)
    <2>1. /\ TopIs("once") /\ stack # <<>> /\ stack' = Front(stack)
          /\ passStack' = [passStack EXCEPT ![c] = Front(passStack[c])]
      BY <1>2 DEF ReturnTracedOnce, UnwindTracedOnce, TopIs, Popped
    <2>2. /\ c \in Captures /\ Top.at \in DOMAIN passes[c]
          /\ passStack[c] # <<>> /\ Last(passStack[c]) = Top.at
      BY <2>1, TopOnce
    <2>3. /\ t \in Nat \ {0} /\ DOMAIN stack = 1..t
          /\ DOMAIN stack' = 1..(t - 1)
          /\ \A i \in DOMAIN stack' : stack'[i] = stack[i] /\ i \in DOMAIN stack
          /\ Top = stack[t] /\ t \in DOMAIN stack
      BY <2>1, PoppedTop
    <2>4. \A i \in DOMAIN stack : /\ i \in DOMAIN stack' <=> i # t
                                  /\ i <= t
      BY <2>3
    <2>5. Top.kind = "once"
      BY <2>1 DEF TopIs
    <2> HIDE DEF t
    <2>6. ASSUME NEW d \in Captures, d # c
          PROVE  Tracked(stack', passStack'[d], passes'[d], d)
      <3>1. OnceIn(stack', d) = OnceIn(stack, d)
        BY <2>3, <2>4, <2>6 DEF OnceIn
      <3>2. passStack'[d] = passStack[d]
        BY <1>b, <2>1, <2>6
      <3>3. \A i \in OnceIn(stack, d) : stack'[i] = stack[i]
        BY <2>3, <3>1 DEF OnceIn
      <3> QED
        BY <1>a, <3>1, <3>2, <3>3, TrackedByCapture, TrackedKept
    <2>7. Tracked(stack', passStack'[c], passes'[c], c)
      <3> DEFINE stk == passStack[c]
                 stk2 == passStack'[c]
                 n == Len(stk)
      <3>1. stk \in Seq(Nat) /\ stk # <<>> /\ stk2 = Front(stk) /\ stk[n] = stack[t].at
        BY <1>b, <2>1, <2>2, <2>3 DEF Last
      <3>2. Tracked(stack, stk, passes[c], c)
        BY <2>2, TrackedByCapture
      <3> HIDE DEF stk, stk2, c
      <3>3. /\ n \in Nat \ {0} /\ DOMAIN stk = 1..n /\ DOMAIN stk2 = 1..(n - 1)
            /\ \A k \in 1..(n - 1) : stk2[k] = stk[k]
        BY <3>1, FrontElements
      <3> HIDE DEF n
      <3>4. /\ \A k \in DOMAIN stk2 : stk2[k] = stk[k] /\ k \in DOMAIN stk /\ k < n
            /\ \A k \in DOMAIN stk : k \in DOMAIN stk2 \/ k = n
            /\ n \in DOMAIN stk
        BY <3>3
      <3>5. /\ OnceIn(stack', c) = OnceIn(stack, c) \ {t}
            /\ \A i \in OnceIn(stack', c) : stack'[i] = stack[i] /\ i < t
        BY <2>3, <2>4 DEF OnceIn
      <3>6. t \in OnceIn(stack, c)
        BY <2>3, <2>5 DEF OnceIn, c
      <3>7. Increasing(stk2)
        BY <3>2, <3>4 DEF Tracked, Increasing
      <3>8. \A i, j \in OnceIn(stack', c) : i < j => stack'[i].at < stack'[j].at
        BY <3>2, <3>5 DEF Tracked
      <3>9. {stk2[k] : k \in DOMAIN stk2} = {stack'[i].at : i \in OnceIn(stack', c)}
        <4>1. ASSUME NEW k \in DOMAIN stk2
              PROVE  \E i \in OnceIn(stack', c) : stk2[k] = stack'[i].at
          <5>1. PICK i \in OnceIn(stack, c) : stk[k] = stack[i].at
            BY <3>2, <3>4 DEF Tracked
          <5>2. stk[k] < stk[n] /\ stk[k] \in Nat /\ stk[n] \in Nat
            BY <3>1, <3>2, <3>3, <3>4, ElementOfSeq DEF Tracked, Increasing
          <5>3. i # t
            BY <3>1, <5>1, <5>2
          <5> QED
            BY <3>4, <3>5, <5>1, <5>3
        <4>2. ASSUME NEW i \in OnceIn(stack', c)
              PROVE  \E k \in DOMAIN stk2 : stk2[k] = stack'[i].at
          <5>1. PICK k \in DOMAIN stk : stk[k] = stack[i].at
            BY <3>2, <3>5 DEF Tracked
          <5>2. stack[i].at < stack[t].at
            BY <3>2, <3>5, <3>6 DEF Tracked
          <5>3. stk[k] \in Nat /\ stk[n] \in Nat
            BY <3>1, <3>3, <3>4, ElementOfSeq
          <5>4. k # n
            BY <3>1, <5>1, <5>2, <5>3
          <5> QED
            BY <3>4, <3>5, <5>1, <5>4
        <4> QED
          BY <4>1, <4>2
      <3>10. ASSUME NEW i \in OnceIn(stack', c)
             PROVE  passes'[c][stack'[i].at].graph = stack'[i].s
        <4>1. stack[i].at \in DOMAIN passes[c]
          BY <3>5 DEF OnceIn, FramesKnown
        <4> QED
          BY <1>a, <2>2, <3>2, <3>5, <4>1 DEF Tracked, PassesGrow, c
      <3> QED
        BY <3>7, <3>8, <3>9, <3>10 DEF Tracked, stk2
    <2> QED
      BY <2>2, <2>6, <2>7, TrackedByCapture
  <1>3. ASSUME NEW c \in Captures, OpenCapture(c)
        PROVE  PassStackIsCallStack'
    <2> DEFINE f == Frame("with", c, None, 0)
    <2>1. stack' = Append(stack, f) /\ passStack' = passStack
      BY <1>3 DEF OpenCapture
    <2>2. f \in FrameType /\ f.kind = "with"
      BY EntryFrames DEF Frame
    <2> HIDE DEF f
    <2> QED
      BY <1>a, <2>1, <2>2, TrackedUntouched
  <1>4. CASE EnterPlainOnce
    <2> DEFINE f == Frame("pass", None, control.s, Len(running) + 1)
    <2>1. /\ control.mode = "call" /\ control.fn = "once" /\ stack' = Append(stack, f)
          /\ passStack' = passStack
      BY <1>4 DEF EnterPlainOnce, tracers
    <2>2. f \in FrameType /\ f.kind = "pass"
      BY <2>1, EntryFrames DEF Frame
    <2> HIDE DEF f
    <2> QED
      BY <1>a, <2>1, <2>2, TrackedUntouched
  <1>5. CASE EnterTracedTwo
    <2> DEFINE f == Frame("two", control.to, control.s, 0)
    <2>1. /\ control.to \in Captures /\ control.mode = "call" /\ control.fn = "two"
          /\ stack' = Append(stack, f) /\ passStack' = passStack
      BY <1>5 DEF EnterTracedTwo, tracers
    <2>2. f \in FrameType /\ f.kind = "two"
      BY <2>1, EntryFrames DEF Frame
    <2> HIDE DEF f
    <2> QED
      BY <1>a, <2>1, <2>2, TrackedUntouched
  <1>6. CASE CloseCapture \/ EndPass \/ ReturnTracedTwo \/ UnwindPlain
    <2>1. stack # <<>> /\ Top.kind # "once" /\ stack' = Front(stack) /\ passStack' = passStack
      BY <1>6 DEF CloseCapture, EndPass, ReturnTracedTwo, UnwindPlain, TopIs, tracers
    <2> QED
      BY <1>a, <2>1, TrackedUntouched
  <1>7. CASE \/ \E s \in Schedulers, reorder \in BOOLEAN : CallOnce(s, reorder)
             \/ \E s \in Schedulers, n1, n2 \in SUBSET Atoms : CallTwo(s, n1, n2)
             \/ \E a \in Atoms : ReorderLoops(a)
             \/ EnterPlainTwo \/ ReturnToCaller \/ Throw \/ Catch \/ UNCHANGED vars
    <2>1. stack' = stack /\ passStack' = passStack
      BY <1>7 DEF CallOnce, CallTwo, ReorderLoops, EnterPlainTwo, ReturnToCaller, Throw,
                  Catch, vars, tracers
    <2> QED
      BY <1>a, <2>1, TrackedUntouched
  <1> QED
    BY <1>1, <1>2, <1>3, <1>4, <1>5, <1>6, <1>7 DEF Next, Finished

-----------------------------------------------------------------------------
(* What was checked when a call was made. *)

(* Every step keeps the calls allowed. *)
LEMMA CallsStep == TypeOK /\ TypeOK' /\ CallsAllowed /\ [Next]_vars => CallsAllowed'
  <1> SUFFICES ASSUME TypeOK, TypeOK', CallsAllowed, [Next]_vars
               PROVE  CallsAllowed'
    OBVIOUS
  <1>a. control \in ControlType /\ begun \in Nat
    BY TraceBounds DEF TypeOK
  <1>1. ASSUME NEW s \in Schedulers, NEW reorder \in BOOLEAN, CallOnce(s, reorder)
        PROVE  CallsAllowed'
    <2>1. /\ control'.mode = "call" /\ control'.fn = "once" /\ control'.s = s
          /\ ~InPass(s) /\ running' = running /\ begun' = begun + 1
      BY <1>1 DEF CallOnce
    <2> QED
      BY <1>a, <2>1 DEF CallsAllowed, InPass
  <1>2. ASSUME NEW s \in Schedulers, NEW n1 \in SUBSET Atoms, NEW n2 \in SUBSET Atoms,
               CallTwo(s, n1, n2)
        PROVE  CallsAllowed'
    <2>1. /\ control'.mode = "call" /\ control'.fn = "two" /\ control'.s = s
          /\ control'.pair = {n1, n2} /\ n1 # n2 /\ {n1, n2} \subseteq FusedNodes(s)
          /\ running # <<>> => Last(running).s = s
          /\ running' = running /\ live' = live
      BY <1>2 DEF CallTwo, schedulers
    <2>2. FusedNodes(s)' = FusedNodes(s)
      BY <2>1 DEF FusedNodes
    <2>3. n1 \in Nodes /\ n2 \in Nodes
      BY DEF Nodes
    <2> QED
      BY <2>1, <2>2, <2>3 DEF CallsAllowed, FusedNodes
  <1>3. CASE EnterTracedOnce
    <2>1. /\ control.mode = "call" /\ control.fn = "once"
          /\ control' = [control EXCEPT !.to = Callee(control.to)]
          /\ running' = running /\ begun' = begun
      BY <1>3 DEF EnterTracedOnce, schedulers
    <2>2. control'.fn = "once" /\ control'.s = control.s
      BY <1>a, <2>1 DEF ControlType, Run, Raising
    <2> QED
      BY <2>1, <2>2 DEF CallsAllowed, InPass
  <1>4. CASE EnterTracedTwo
    <2>1. /\ control.mode = "call" /\ control.fn = "two"
          /\ control' = [control EXCEPT !.to = Callee(control.to)]
          /\ running' = running /\ live' = live
      BY <1>4 DEF EnterTracedTwo, schedulers
    <2>2. control'.fn = "two" /\ control'.s = control.s /\ control'.pair = control.pair
      BY <1>a, <2>1 DEF ControlType, Run, Raising
    <2> QED
      BY <2>1, <2>2 DEF CallsAllowed, FusedNodes
  <1>5. CASE UNCHANGED vars
    BY <1>5 DEF CallsAllowed, InPass, FusedNodes, vars, schedulers
  <1>6. ASSUME control'.mode # "call"
        PROVE  CallsAllowed'
    BY <1>6 DEF CallsAllowed
  <1>7. CASE \/ \E c \in Captures : OpenCapture(c)
             \/ CloseCapture \/ EnterPlainOnce \/ EnterPlainTwo
             \/ \E a \in Atoms : ReorderLoops(a)
             \/ EndPass \/ ReturnTracedOnce \/ ReturnTracedTwo \/ ReturnToCaller
             \/ Throw \/ UnwindTracedOnce \/ UnwindPlain \/ Catch
    <2>1. control' \in {Run, Raising} \/ control'.mode = "return"
      BY <1>7 DEF OpenCapture, CloseCapture, EnterPlainOnce, EnterPlainTwo, ReorderLoops,
             EndPass, ReturnTracedOnce, ReturnTracedTwo, ReturnToCaller, Throw,
             UnwindTracedOnce, UnwindPlain, Catch, AfterRendering
    <2> QED
      BY <1>6, <2>1, ControlTypes
  <1> QED
    BY <1>1, <1>2, <1>3, <1>4, <1>5, <1>7 DEF Next, Finished

-----------------------------------------------------------------------------
(* The invariant. *)

(* The inductive invariant holds at first. *)
LEMMA TraceInvInit == Init => TraceInv
  <1> SUFFICES ASSUME Init PROVE TraceInv
    OBVIOUS
  <1>1. /\ stack = <<>> /\ running = <<>> /\ control = Run /\ installed = Plain
        /\ original = [c \in Captures |-> None]
        /\ passes = [c \in Captures |-> <<>>] /\ passStack = [c \in Captures |-> <<>>]
    BY DEF Init
  <1>2. TypeOK
    BY TypeInit
  <1>3. Len(stack) = 0 /\ DOMAIN stack = {} /\ DOMAIN running = {}
    BY <1>1
  <1>4. Opened = {}
    BY <1>1 DEF Opened
  <1>5. CalleesOpened
    BY <1>1, <1>3, <1>4, ControlTypes DEF CalleesOpened
  <1>6. StackShape
    BY <1>1, <1>3 DEF StackShape, TopIs
  <1>7. FramesKnown
    BY <1>3 DEF FramesKnown
  <1>8. CallsAllowed
    BY <1>1, ControlTypes DEF CallsAllowed
  <1>9. PatchesNest
    BY <1>1, <1>3 DEF PatchesNest, Outside, With
  <1>10. PassStackIsCallStack
    <2>1. \A c \in Captures : DOMAIN passStack[c] = {} /\ OnceFrames(c) = {}
      BY <1>1, <1>3 DEF OnceFrames
    <2> QED
      BY <2>1 DEF PassStackIsCallStack, Increasing
  <1> QED
    BY <1>2, <1>5, <1>6, <1>7, <1>8, <1>9, <1>10 DEF TraceInv

(* Every step keeps it. *)
LEMMA TraceInvStep == TraceInv /\ [Next]_vars => TraceInv'
  <1> SUFFICES ASSUME TraceInv, [Next]_vars PROVE TraceInv'
    OBVIOUS
  <1>1. TypeOK'
    BY TypeStep DEF TraceInv
  <1> QED
    BY <1>1, PatchStep, ShapeStep, FramesStep, CallsStep, PassStackStep DEF TraceInv

(* It holds in every state. *)
LEMMA TraceInvariant == Spec => []TraceInv
  BY TraceInvInit, TraceInvStep, PTL DEF Spec

(* What the state of a watched compilation may be. *)
THEOREM TraceTypeCorrect == Spec => []TypeOK
  <1>1. TraceInv => TypeOK
    BY DEF TraceInv
  <1> QED
    BY <1>1, TraceInvariant, PTL

(* Scheduler always holds the wrapper of the innermost open capture, each  *)
(* wrapper calls the one around it, and the patches are undone in the      *)
(* reverse order, whether a with block ends normally or by an exception,   *)
(* for any number of captures.                                             *)
THEOREM PatchesAlwaysNest == Spec => []PatchesNest
  <1>1. TraceInv => PatchesNest
    BY DEF TraceInv
  <1> QED
    BY <1>1, TraceInvariant, PTL

(* The finally clause keeps pass_stack in step with the calls under way:   *)
(* whatever passes raise, nest or are abandoned, the passes on it are      *)
(* those whose wrapper has not returned, each of the right scheduler.      *)
THEOREM PassStackFollowsCalls == Spec => []PassStackIsCallStack
  <1>1. TraceInv => PassStackIsCallStack
    BY DEF TraceInv
  <1> QED
    BY <1>1, TraceInvariant, PTL

-----------------------------------------------------------------------------
(* Tracing is transparent. *)

UntracedStep == [Untraced!HistoryNext]_(Untraced!historyVars)

(* The variables of FusionHistory, as a watched compilation shows them. *)
failingUntraced == control.mode = "raise"

(* A step that leaves all of them alone. *)
LEMMA Stutters ==
    ASSUME UNCHANGED <<liveUntraced, loops, running, begunUntraced, faults, failingUntraced>>
    PROVE  UntracedStep
  BY DEF UntracedStep, Untraced!historyVars, failingUntraced

(* The initial state is one of the untraced scheduler. *)
LEMMA InitUntraced == Init => Untraced!HistoryInit
  <1> SUFFICES ASSUME Init PROVE Untraced!HistoryInit
    OBVIOUS
  <1>1. control = Run /\ control.mode = "run" /\ begun = 0
    BY ControlTypes DEF Init
  <1>2. liveUntraced = live /\ begunUntraced = 0
    BY <1>1 DEF liveUntraced, begunUntraced
  <1> QED
    BY <1>1, <1>2 DEF Init, Untraced!HistoryInit

(* Every step is one of the untraced scheduler, or a stutter. *)
LEMMA StepUntraced == TraceInv /\ [Next]_vars => UntracedStep
  <1> SUFFICES ASSUME TraceInv, [Next]_vars PROVE UntracedStep
    OBVIOUS
  <1>0. TypeOK /\ TypeOK' /\ FramesKnown /\ CallsAllowed
    BY TraceInvStep DEF TraceInv
  <1>a. /\ control \in ControlType /\ live \in [Schedulers -> NodeList] /\ begun \in Nat
        /\ begun <= MaxPasses /\ MaxPasses \in Nat
    BY <1>0, TraceBounds DEF TypeOK
  <1>b. running \in Seq(Pass) /\ Len(running) \in Nat /\ DOMAIN running = 1..Len(running)
    BY <1>0, LenProperties DEF TypeOK, Pass
  <1>c. running # <<>> => /\ running[Len(running)] \in Pass
                          /\ Last(running) = running[Len(running)]
                          /\ Front(running) = SubSeq(running, 1, Len(running) - 1)
    BY <1>b, FrontElements DEF Last, Front
  <1>1. CASE EnterPlainOnce
    <2> DEFINE s == control.s
               r == [s |-> s, reorder |-> control.reorder, fused |-> live[s]]
    <2>1. /\ control.mode = "call" /\ control.fn = "once" /\ control' = Run
          /\ running' = Append(running, r)
          /\ UNCHANGED <<live, loops, begun, faults>>
      BY <1>1 DEF EnterPlainOnce, schedulers
    <2>2. s \in Schedulers /\ control.reorder \in BOOLEAN
      BY <1>a, <2>1, ControlCases
    <2>3. ~InPass(s) /\ begun > 0
      BY <1>0, <2>1 DEF CallsAllowed
    <2>4. /\ liveUntraced = live /\ liveUntraced' = live
          /\ begunUntraced = begun - 1 /\ begunUntraced' = begun
      BY <1>a, <2>1, ControlTypes DEF liveUntraced, begunUntraced
    <2>5. \A i \in DOMAIN running : running[i].s # s
      BY <2>3 DEF InPass
    <2>6. Untraced!BeginPass(s, control.reorder)
      BY <1>a, <2>1, <2>3, <2>4, <2>5, ControlTypes DEF Untraced!BeginPass
    <2> QED
      BY <2>2, <2>6 DEF UntracedStep, Untraced!HistoryNext
  <1>2. CASE EnterPlainTwo
    <2> DEFINE s == control.s
    <2>1. /\ control.mode = "call" /\ control.fn = "two"
          /\ control'.mode = "return" /\ control'.fn = "two"
          /\ UNCHANGED <<loops, begun, faults>>
      BY <1>2 DEF EnterPlainTwo
    <2>2. s \in Schedulers
      BY <1>a, <2>1, ControlCases
    <2>3. PICK n1 \in Nodes, n2 \in Nodes :
             control.pair = {n1, n2} /\ n1 # n2 /\ {n1, n2} \subseteq FusedNodes(s)
      BY <1>0, <2>1 DEF CallsAllowed
    <2>4. n1 \in SUBSET Atoms /\ n2 \in SUBSET Atoms
      BY <2>3 DEF Nodes
    <2>5. /\ liveUntraced = live /\ liveUntraced' = live'
          /\ begunUntraced = begun /\ begunUntraced' = begun
      BY <1>a, <2>1 DEF liveUntraced, begunUntraced
    <2>6. \A nodes : FusePair(nodes, control.pair) = Untraced!FusePair(nodes, n1, n2)
      <3>1. UNION {n1, n2} = n1 \cup n2
        OBVIOUS
      <3> QED
        BY <2>3, <3>1 DEF FusePair, Untraced!FusePair
    <2>7. CASE running # <<>>
      <3>1. /\ running' = [running EXCEPT ![Len(running)].fused =
                              FusePair(FusedNodes(s), control.pair)]
            /\ live' = live
        BY <1>2, <2>7 DEF EnterPlainTwo
      <3>2. FusedNodes(s) = running[Len(running)].fused
        BY <1>c, <2>7 DEF FusedNodes
      <3>3. running' = [running EXCEPT ![Len(running)].fused =
                           Untraced!FusePair(running[Len(running)].fused, n1, n2)]
        BY <2>6, <3>1, <3>2
      <3>4. {n1, n2} \subseteq running[Len(running)].fused
        BY <2>3, <3>2
      <3>5. Untraced!FuseInPass(n1, n2)
        BY <2>1, <2>3, <2>5, <2>7, <3>1, <3>3, <3>4 DEF Untraced!FuseInPass
      <3> QED
        BY <2>4, <3>5 DEF UntracedStep, Untraced!HistoryNext
    <2>8. CASE running = <<>>
      <3>1. /\ live' = [live EXCEPT ![s] = FusePair(FusedNodes(s), control.pair)]
            /\ running' = running
        BY <1>2, <2>8 DEF EnterPlainTwo
      <3>2. FusedNodes(s) = live[s]
        BY <2>8 DEF FusedNodes
      <3>3. live' = [live EXCEPT ![s] = Untraced!FusePair(live[s], n1, n2)]
        BY <2>6, <3>1, <3>2
      <3>4. {n1, n2} \subseteq live[s]
        BY <2>3, <3>2
      <3>5. Untraced!FuseOutOfPass(s, n1, n2)
        BY <2>1, <2>3, <2>5, <2>8, <3>1, <3>3, <3>4 DEF Untraced!FuseOutOfPass
      <3> QED
        BY <2>2, <2>4, <3>5 DEF UntracedStep, Untraced!HistoryNext
    <2> QED
      BY <2>7, <2>8
  <1>3. ASSUME NEW a \in Atoms, ReorderLoops(a)
        PROVE  UntracedStep
    <2>1. /\ control = Run /\ TopIs("pass") /\ Last(running).reorder
          /\ loops' = [loops EXCEPT ![Last(running).s] = @ \cup {a}]
          /\ UNCHANGED <<live, begun, faults, running, control>>
      BY <1>3 DEF ReorderLoops
    <2>2. running # <<>>
      BY <1>0, <2>1, TopPass
    <2>3. /\ liveUntraced' = liveUntraced /\ begunUntraced' = begunUntraced
          /\ control.mode # "raise"
      BY <2>1, ControlTypes DEF liveUntraced, begunUntraced
    <2>4. /\ running[Len(running)].reorder
          /\ loops' = [loops EXCEPT ![running[Len(running)].s] = @ \cup {a}]
      BY <2>1 DEF Last
    <2>5. Untraced!ReorderLoops(a)
      BY <2>1, <2>2, <2>3, <2>4 DEF Untraced!ReorderLoops
    <2> QED
      BY <2>5 DEF UntracedStep, Untraced!HistoryNext
  <1>4. CASE EndPass
    <2>1. /\ control = Run /\ TopIs("pass") /\ running' = Front(running)
          /\ control'.mode = "return" /\ control'.fn = "once"
          /\ control'.s = Last(running).s /\ control'.result = Last(running).fused
          /\ UNCHANGED <<live, loops, begun, faults>>
      BY <1>4 DEF EndPass, schedulers
    <2>2. running # <<>>
      BY <1>0, <2>1, TopPass
    <2>3. /\ liveUntraced = live /\ begunUntraced = begun /\ begunUntraced' = begun
          /\ liveUntraced' = [live EXCEPT ![Last(running).s] = Last(running).fused]
          /\ control.mode # "raise"
      BY <1>a, <2>1, ControlTypes DEF liveUntraced, begunUntraced
    <2>4. Untraced!EndPass
      BY <1>c, <2>1, <2>2, <2>3 DEF Untraced!EndPass
    <2> QED
      BY <2>4 DEF UntracedStep, Untraced!HistoryNext
  <1>5. CASE Throw
    <2>1. /\ control = Run \/ (control.mode = "call" /\ control.fn = "two")
          /\ faults < MaxFaults /\ faults' = faults + 1 /\ control' = Raising
          /\ UNCHANGED <<live, loops, begun, running>>
      BY <1>5 DEF Throw
    <2>2. /\ control.mode # "raise" /\ control'.mode = "raise"
          /\ liveUntraced' = liveUntraced /\ begunUntraced' = begunUntraced
      BY <2>1, ControlTypes DEF liveUntraced, begunUntraced
    <2>3. Untraced!Throw
      BY <2>1, <2>2 DEF Untraced!Throw
    <2> QED
      BY <2>3 DEF UntracedStep, Untraced!HistoryNext
  <1>6. CASE UnwindPlain /\ TopIs("pass")
    <2>1. /\ control = Raising /\ control' = control /\ running' = Front(running)
          /\ UNCHANGED <<live, loops, begun, faults>>
      BY <1>6 DEF UnwindPlain, schedulers
    <2>2. running # <<>>
      BY <1>0, <1>6, TopPass
    <2>3. /\ liveUntraced' = liveUntraced /\ begunUntraced' = begunUntraced
          /\ control.mode = "raise"
      BY <2>1, ControlTypes DEF liveUntraced, begunUntraced
    <2>4. Untraced!UnwindPass
      BY <1>c, <2>1, <2>2, <2>3 DEF Untraced!UnwindPass
    <2> QED
      BY <2>4 DEF UntracedStep, Untraced!HistoryNext
  <1>7. CASE Catch
    <2>1. /\ control = Raising /\ control' = Run
          /\ UNCHANGED <<live, loops, begun, faults, running>>
      BY <1>7 DEF Catch, schedulers
    <2>2. /\ control.mode = "raise" /\ control'.mode # "raise"
          /\ liveUntraced' = liveUntraced /\ begunUntraced' = begunUntraced
      BY <2>1, ControlTypes DEF liveUntraced, begunUntraced
    <2>3. Untraced!Catch
      BY <2>1, <2>2 DEF Untraced!Catch
    <2> QED
      BY <2>3 DEF UntracedStep, Untraced!HistoryNext
  <1>8. ASSUME NEW s \in Schedulers, NEW reorder \in BOOLEAN, CallOnce(s, reorder)
        PROVE  UntracedStep
    <2>1. /\ control = Run /\ control'.mode = "call" /\ control'.fn = "once"
          /\ begun' = begun + 1 /\ UNCHANGED <<live, loops, faults, running>>
      BY <1>8 DEF CallOnce
    <2>2. /\ liveUntraced' = liveUntraced /\ begunUntraced = begun
          /\ begunUntraced' = (begun + 1) - 1 /\ failingUntraced' = failingUntraced
      BY <1>a, <2>1, ControlTypes DEF liveUntraced, begunUntraced, failingUntraced
    <2>3. begunUntraced' = begunUntraced
      BY <1>a, <2>2
    <2> QED
      BY <2>1, <2>2, <2>3, Stutters
  <1>9. ASSUME NEW s \in Schedulers, NEW n1 \in SUBSET Atoms, NEW n2 \in SUBSET Atoms,
               CallTwo(s, n1, n2)
        PROVE  UntracedStep
    <2>1. /\ control = Run /\ control'.mode = "call" /\ control'.fn = "two"
          /\ UNCHANGED <<live, loops, begun, faults, running>>
      BY <1>9 DEF CallTwo, schedulers
    <2>2. /\ liveUntraced' = liveUntraced /\ begunUntraced' = begunUntraced
          /\ failingUntraced' = failingUntraced
      BY <2>1, ControlTypes DEF liveUntraced, begunUntraced, failingUntraced
    <2> QED
      BY <2>1, <2>2, Stutters
  <1>10. CASE EnterTracedOnce \/ EnterTracedTwo
    <2>1. /\ control.mode = "call" /\ control' = [control EXCEPT !.to = Callee(control.to)]
          /\ UNCHANGED <<live, loops, begun, faults, running>>
      BY <1>10 DEF EnterTracedOnce, EnterTracedTwo, schedulers
    <2>2. control'.mode = "call" /\ control'.fn = control.fn
      BY <1>a, <2>1 DEF ControlType, Run, Raising
    <2>3. /\ liveUntraced' = liveUntraced /\ begunUntraced' = begunUntraced
          /\ failingUntraced' = failingUntraced
      BY <2>1, <2>2 DEF liveUntraced, begunUntraced, failingUntraced
    <2> QED
      BY <2>1, <2>3, Stutters
  <1>11. CASE ReturnToCaller
    <2>1. /\ control.mode = "return" /\ control' = Run
          /\ live' = IF control.fn = "once"
                     THEN [live EXCEPT ![control.s] = control.result] ELSE live
          /\ UNCHANGED <<loops, begun, faults, running>>
      BY <1>11 DEF ReturnToCaller
    <2>2. /\ liveUntraced' = live' /\ liveUntraced = live'
          /\ begunUntraced' = begun /\ begunUntraced = begun
          /\ failingUntraced' = failingUntraced
      BY <1>a, <2>1, ControlTypes DEF liveUntraced, begunUntraced, failingUntraced
    <2> QED
      BY <2>1, <2>2, Stutters
  <1>12. CASE \/ \E c \in Captures : OpenCapture(c)
              \/ CloseCapture \/ ReturnTracedOnce \/ ReturnTracedTwo \/ UnwindTracedOnce
              \/ (UnwindPlain /\ ~TopIs("pass")) \/ UNCHANGED vars
    <2>1. control' = control /\ UNCHANGED <<live, loops, begun, faults, running>>
      BY <1>12 DEF OpenCapture, CloseCapture, ReturnTracedOnce, ReturnTracedTwo,
             UnwindTracedOnce, UnwindPlain, AfterRendering, vars, schedulers
    <2>2. /\ liveUntraced' = liveUntraced /\ begunUntraced' = begunUntraced
          /\ failingUntraced' = failingUntraced
      BY <2>1 DEF liveUntraced, begunUntraced, failingUntraced
    <2> QED
      BY <2>1, <2>2, Stutters
  <1> QED
    BY <1>1, <1>2, <1>3, <1>4, <1>5, <1>6, <1>7, <1>8, <1>9, <1>10, <1>11, <1>12
    DEF Next, Finished

(* With any number of captures, nested in any way, every behaviour of the  *)
(* compiler is one of a compilation that nobody watches: the wrappers only *)
(* stutter.                                                                *)
THEOREM TracingIsTransparent == Spec => Transparent
  <1>1. Init => Untraced!HistoryInit
    BY InitUntraced
  <1>2. TraceInv /\ [Next]_vars => [Untraced!HistoryNext]_(Untraced!historyVars)
    BY StepUntraced DEF UntracedStep
  <1> QED
    BY <1>1, <1>2, TraceInvariant, PTL DEF Spec, Transparent, Untraced!HistorySpec
-----------------------------------------------------------------------------
(* Which wrappers are on the call stack: properties of a stack q. *)

(* A capture is open once, and its wrappers run above its with block.      *)
WrappersInside(q) ==
    /\ \A i, j \in DOMAIN q :
          WithAt(q, i) /\ WithAt(q, j) /\ q[i].capture = q[j].capture => i = j
    /\ \A i \in DOMAIN q : q[i].kind \in {"once", "two"} =>
          \E w \in DOMAIN q : w < i /\ WithAt(q, w) /\ q[w].capture = q[i].capture

(* The wrappers of the rewrite under way are on top, one per capture.      *)
TwosOnTop(q) ==
    \A i, j \in DOMAIN q : q[i].kind = "two" =>
        /\ i < j => q[j].kind = "two"
        /\ q[j].kind = "two" /\ q[i].capture = q[j].capture => i = j

(* The wrappers of a call of fuse_nodes_once lie directly below its pass,  *)
(* or on top as long as there is none; one per capture.                    *)
OnceBetween(q, i, n) ==
    \A j \in DOMAIN q : i < j /\ j < n =>
        q[j].kind = "once" /\ q[j].s = q[i].s /\ q[j].capture # q[i].capture
OnTop(q, i) == OnceBetween(q, i, Len(q) + 1)
PassOf(q, i, p) ==
    /\ q[p].kind = "pass" /\ i < p /\ q[p].s = q[i].s
    /\ OnceBetween(q, i, p)
OnceGroups(q) ==
    \A i \in DOMAIN q : q[i].kind = "once" =>
        OnTop(q, i) \/ \E p \in DOMAIN q : PassOf(q, i, p)

(* Every capture that was open when a pass began watches it.               *)
PassesWatched(q) ==
    \A p, w \in DOMAIN q : q[p].kind = "pass" /\ WithAt(q, w) /\ w < p =>
        \E o \in DOMAIN q : /\ w < o /\ o < p /\ q[o].capture = q[w].capture
                            /\ \A j \in DOMAIN q : o <= j /\ j < p => q[j].kind = "once"

Wrapped(q) == WrappersInside(q) /\ TwosOnTop(q) /\ OnceGroups(q) /\ PassesWatched(q)

(* A call reaches the open captures from the innermost outwards.           *)
Entered(q, kind, c) ==
    \E o \in DOMAIN q : /\ q[o].capture = c
                        /\ \A j \in DOMAIN q : o <= j => q[j].kind = kind
OpenAt(q, w, c) == w \in DOMAIN q /\ WithAt(q, w) /\ q[w].capture = c
CallPassed(q, to, i) ==
    to = Plain \/ \E w \in DOMAIN q : w < i /\ OpenAt(q, w, to)
CallsInwardOut(q, to, fn) ==
    /\ to # Plain => \E w \in DOMAIN q : OpenAt(q, w, to)
    /\ \A i \in DOMAIN q : WithAt(q, i) =>
          (Entered(q, fn, q[i].capture) <=> CallPassed(q, to, i))

WrapInv ==
    /\ TraceInv
    /\ Wrapped(stack)
    /\ control.mode = "call" => CallsInwardOut(stack, control.to, control.fn)

-----------------------------------------------------------------------------
(* What is recorded while a rewrite returns through the wrappers. *)

TwoIn(q, c) == \E i \in DOMAIN q : q[i].kind = "two" /\ q[i].capture = c

(* The last rewrite has yet to be recorded by c.                           *)
Unrecorded(q, k, c) == k.mode = "return" /\ k.fn = "two" /\ TwoIn(q, c)

ListOf(run, lv, s) == IF run = <<>> THEN lv[s] ELSE Last(run).fused
EventIs(event, k, list, lps) ==
    /\ event.s = k.s /\ event.pair = k.pair /\ event.live = list
    /\ event.loops = k.result \cap lps[k.s]

LastRewrite ==
    control.mode = "return" /\ control.fn = "two" =>
        /\ running # <<>> => Last(running).s = control.s
        /\ \A c \in Captures : TwoIn(stack, c) =>
              /\ happened # <<>>
              /\ EventIs(happened[Len(happened)], control,
                         ListOf(running, live, control.s), loops)
              /\ c \in happened[Len(happened)].seen

SeenBy(hap, c, n) == n \in DOMAIN hap /\ c \in hap[n].seen

StepRight(hap, step, graph) ==
    /\ graph = hap[step.n].s
    /\ step.pair = hap[step.n].pair /\ step.live = hap[step.n].live
    /\ step.loop_ir = IF Renders(step.result) THEN hap[step.n].loops ELSE None

(* EveryRewriteOnce, of a capture c with the passes ps that may yet have   *)
(* to record the last rewrite.                                             *)
RecordsIn(c, ps, hap, unrecorded) ==
    /\ \A i \in DOMAIN ps : \A j \in DOMAIN ps[i].steps :
          /\ SeenBy(hap, c, ps[i].steps[j].n)
          /\ unrecorded => ps[i].steps[j].n # Len(hap)
          /\ StepRight(hap, ps[i].steps[j], ps[i].graph)
    /\ \A n \in DOMAIN hap : SeenBy(hap, c, n) =>
          \/ unrecorded /\ n = Len(hap)
          \/ \E i \in DOMAIN ps : \E j \in DOMAIN ps[i].steps : ps[i].steps[j].n = n
    /\ \A i, k \in DOMAIN ps :
          \A j \in DOMAIN ps[i].steps : \A m \in DOMAIN ps[k].steps :
             ps[i].steps[j].n = ps[k].steps[m].n => i = k /\ j = m

RecordInv ==
    /\ WrapInv
    /\ LastRewrite
    /\ \A c \in Captures :
          RecordsIn(c, passes[c], happened, Unrecorded(stack, control, c))

-----------------------------------------------------------------------------
(* What the steps of a pass say of its list. *)

ListAfter(pass, k) == IF k = 0 THEN pass.before ELSE pass.steps[k].live
Replays(pass) ==
    \A k \in DOMAIN pass.steps :
        pass.steps[k].live = FusePair(ListAfter(pass, k - 1), pass.steps[k].pair)
EndOf(pass) == ListAfter(pass, Len(pass.steps))

(* The list of an open pass is what its steps lead to, but for a rewrite   *)
(* that its capture has yet to record: of the wrapper at position i of a   *)
(* stack q, with the lists run, the nodes lv and the control k.            *)
OpenPassReplays(q, i, pass, run, lv, k) ==
    /\ pass.after = {}
    /\ Replays(pass)
    /\ OnTop(q, i) => /\ k.mode = "call" => EndOf(pass) = lv[q[i].s]
                      /\ k.mode = "return" => EndOf(pass) = k.result
    /\ \A p \in DOMAIN q : PassOf(q, i, p) =>
          run[q[p].at].fused =
             IF q[p].at = Len(run) /\ Unrecorded(q, k, q[i].capture)
             THEN FusePair(EndOf(pass), k.pair) ELSE EndOf(pass)

OpenReplay ==
    \A i \in DOMAIN stack : stack[i].kind = "once" =>
        OpenPassReplays(stack, i, passes[stack[i].capture][stack[i].at], running, live, control)

FinishedReplay(ps) ==
    \A i \in DOMAIN ps : ps[i].after # {} => Replays(ps[i]) /\ ps[i].after = EndOf(ps[i])

ReplayInv ==
    /\ RecordInv
    /\ OpenReplay
    /\ \A c \in Captures : FinishedReplay(passes[c])

-----------------------------------------------------------------------------
(* The wrappers, when the stack grows or shrinks. *)

Grown(q, r, f) ==
    /\ Len(q) \in Nat /\ DOMAIN q = 1..Len(q)
    /\ Len(r) = Len(q) + 1 /\ DOMAIN r = 1..(Len(q) + 1)
    /\ \A i \in DOMAIN q : r[i] = q[i]
    /\ r[Len(q) + 1] = f
Shrunk(q, r) ==
    /\ Len(q) \in Nat \ {0} /\ DOMAIN q = 1..Len(q)
    /\ Len(r) = Len(q) - 1 /\ DOMAIN r = 1..(Len(q) - 1)
    /\ \A i \in DOMAIN r : r[i] = q[i]

(* The positions of a stack with one frame more. *)
LEMMA GrownPositions ==
    ASSUME NEW q, NEW r, NEW f, Grown(q, r, f)
    PROVE  /\ \A i \in DOMAIN r : i \in DOMAIN q \/ i = Len(r)
           /\ \A i \in DOMAIN q : i \in DOMAIN r /\ i < Len(r) /\ i \in Int
           /\ Len(r) \in DOMAIN r /\ Len(r) \in Int
           /\ \A i \in DOMAIN r : i <= Len(r) /\ i \in Int
           /\ r[Len(r)] = f /\ \A i \in DOMAIN q : r[i] = q[i]
  BY DEF Grown

(* The positions of a stack without its top. *)
LEMMA ShrunkPositions ==
    ASSUME NEW q, NEW r, Shrunk(q, r)
    PROVE  /\ \A i \in DOMAIN q : /\ i \in DOMAIN r \/ i = Len(q)
                                  /\ i <= Len(q) /\ i \in Int
           /\ \A i \in DOMAIN r : i \in DOMAIN q /\ i < Len(q) /\ r[i] = q[i]
           /\ Len(q) \in DOMAIN q /\ Len(r) + 1 = Len(q)
  BY DEF Shrunk

(* A wrapped stack stays wrapped when its top is popped. *)
LEMMA WrappedShrinks ==
    ASSUME NEW q, NEW r, Shrunk(q, r), Wrapped(q)
    PROVE  Wrapped(r)
  <1>1. /\ \A i \in DOMAIN q : /\ i \in DOMAIN r \/ i = Len(q)
                               /\ i <= Len(q) /\ i \in Int
        /\ \A i \in DOMAIN r : i \in DOMAIN q /\ i < Len(q) /\ r[i] = q[i]
        /\ Len(q) \in DOMAIN q /\ Len(r) + 1 = Len(q)
    BY ShrunkPositions
  <1>2. \A i \in DOMAIN r : WithAt(r, i) <=> WithAt(q, i)
    BY <1>1 DEF WithAt
  <1>3. WrappersInside(r)
    <2>1. \A i, j \in DOMAIN r :
             WithAt(r, i) /\ WithAt(r, j) /\ r[i].capture = r[j].capture => i = j
      BY <1>1, <1>2 DEF Wrapped, WrappersInside
    <2>2. ASSUME NEW i \in DOMAIN r, r[i].kind \in {"once", "two"}
          PROVE  \E w \in DOMAIN r : w < i /\ WithAt(r, w) /\ r[w].capture = r[i].capture
      <3>1. PICK w \in DOMAIN q : w < i /\ WithAt(q, w) /\ q[w].capture = q[i].capture
        BY <1>1, <2>2 DEF Wrapped, WrappersInside
      <3>2. w \in DOMAIN r
        BY <1>1, <3>1
      <3> QED
        BY <1>1, <1>2, <3>1, <3>2
    <2> QED
      BY <2>1, <2>2 DEF WrappersInside
  <1>4. TwosOnTop(r)
    BY <1>1 DEF Wrapped, TwosOnTop
  <1>5. OnceGroups(r)
    <2> SUFFICES ASSUME NEW i \in DOMAIN r, r[i].kind = "once"
                 PROVE  OnTop(r, i) \/ \E p \in DOMAIN r : PassOf(r, i, p)
      BY DEF OnceGroups
    <2>1. CASE OnTop(q, i)
      BY <1>1, <2>1 DEF OnTop, OnceBetween
    <2>2. ASSUME NEW p \in DOMAIN q, PassOf(q, i, p)
          PROVE  OnTop(r, i) \/ \E m \in DOMAIN r : PassOf(r, i, m)
      <3>1. CASE p \in DOMAIN r
        BY <1>1, <2>2, <3>1 DEF PassOf, OnceBetween
      <3>2. CASE p = Len(q)
        BY <1>1, <2>2, <3>2 DEF PassOf, OnTop, OnceBetween
      <3> QED
        BY <1>1, <3>1, <3>2
    <2> QED
      BY <1>1, <2>1, <2>2 DEF Wrapped, OnceGroups
  <1>6. PassesWatched(r)
    <2> SUFFICES ASSUME NEW p \in DOMAIN r, NEW w \in DOMAIN r,
                        r[p].kind = "pass", WithAt(r, w), w < p
                 PROVE  \E o \in DOMAIN r :
                           /\ w < o /\ o < p /\ r[o].capture = r[w].capture
                           /\ \A j \in DOMAIN r : o <= j /\ j < p => r[j].kind = "once"
      BY DEF PassesWatched
    <2>1. PICK o \in DOMAIN q :
                /\ w < o /\ o < p /\ q[o].capture = q[w].capture
                /\ \A j \in DOMAIN q : o <= j /\ j < p => q[j].kind = "once"
      BY <1>1, <1>2 DEF Wrapped, PassesWatched
    <2>2. o \in DOMAIN r
      BY <1>1, <2>1
    <2> QED
      BY <1>1, <2>1, <2>2
  <1> QED
    BY <1>3, <1>4, <1>5, <1>6 DEF Wrapped

(* It stays wrapped when a frame it may hold is pushed. *)
LEMMA WrappedGrows ==
    ASSUME NEW q, NEW r, NEW f, Grown(q, r, f), Wrapped(q),
           q # <<>> => Above(q[Len(q)], f),
           Len(q) = 0 => q = <<>>,
           f.kind \in {"with", "once", "two", "pass"},
           f.kind = "with" => \A w \in DOMAIN q : ~OpenAt(q, w, f.capture),
           f.kind \in {"once", "two"} => /\ \E w \in DOMAIN q : OpenAt(q, w, f.capture)
                                         /\ ~Entered(q, f.kind, f.capture),
           f.kind = "pass" =>
              \A w \in DOMAIN q : WithAt(q, w) => Entered(q, "once", q[w].capture)
    PROVE  Wrapped(r)
  <1> DEFINE t == Len(r)
  <1>1. /\ \A i \in DOMAIN r : i \in DOMAIN q \/ i = t
        /\ \A i \in DOMAIN q : i \in DOMAIN r /\ i < t /\ i \in Int
        /\ t \in DOMAIN r /\ t \in Int
        /\ \A i \in DOMAIN r : i <= t /\ i \in Int
        /\ r[t] = f /\ \A i \in DOMAIN q : r[i] = q[i]
    BY GrownPositions
  <1>2. /\ \A i \in DOMAIN q : WithAt(r, i) <=> WithAt(q, i)
        /\ WithAt(r, t) <=> f.kind = "with"
    BY <1>1 DEF WithAt
  <1>3. \A i \in DOMAIN q : i <= Len(q) /\ Len(q) \in DOMAIN q /\ q # <<>>
    BY DEF Grown
  <1> HIDE DEF t
  <1>4. WrappersInside(r)
    <2>1. ASSUME NEW i \in DOMAIN r, NEW j \in DOMAIN r, WithAt(r, i), WithAt(r, j),
                 r[i].capture = r[j].capture
          PROVE  i = j
      <3>1. CASE i \in DOMAIN q /\ j \in DOMAIN q
        BY <1>1, <1>2, <2>1, <3>1 DEF Wrapped, WrappersInside
      <3>2. CASE i \in DOMAIN q /\ j = t
        BY <1>1, <1>2, <2>1, <3>2 DEF OpenAt
      <3>3. CASE i = t /\ j \in DOMAIN q
        BY <1>1, <1>2, <2>1, <3>3 DEF OpenAt
      <3> QED
        BY <1>1, <3>1, <3>2, <3>3
    <2>2. ASSUME NEW i \in DOMAIN r, r[i].kind \in {"once", "two"}
          PROVE  \E w \in DOMAIN r : w < i /\ WithAt(r, w) /\ r[w].capture = r[i].capture
      <3>1. CASE i \in DOMAIN q
        BY <1>1, <1>2, <2>2, <3>1 DEF Wrapped, WrappersInside
      <3>2. CASE i = t
        BY <1>1, <1>2, <2>2, <3>2 DEF OpenAt
      <3> QED
        BY <1>1, <3>1, <3>2
    <2> QED
      BY <2>1, <2>2 DEF WrappersInside
  <1>5. TwosOnTop(r)
    <2>1. f.kind = "two" => \A i \in DOMAIN q : q[i].kind = "two" => q[i].capture # f.capture
      BY DEF Wrapped, TwosOnTop, Entered
    <2>2. \A i \in DOMAIN q : q[i].kind = "two" => f.kind = "two"
      <3> SUFFICES ASSUME NEW i \in DOMAIN q, q[i].kind = "two" PROVE f.kind = "two"
        OBVIOUS
      <3>1. q[Len(q)].kind = "two"
        BY <1>1, <1>3 DEF Wrapped, TwosOnTop, Grown
      <3> QED
        BY <1>3, <3>1 DEF Above
    <2> SUFFICES ASSUME NEW i \in DOMAIN r, NEW j \in DOMAIN r, r[i].kind = "two"
                 PROVE  /\ i < j => r[j].kind = "two"
                        /\ r[j].kind = "two" /\ r[i].capture = r[j].capture => i = j
      BY DEF TwosOnTop
    <2>3. CASE i \in DOMAIN q /\ j \in DOMAIN q
      BY <1>1, <2>3 DEF Wrapped, TwosOnTop
    <2>4. CASE i \in DOMAIN q /\ j = t
      BY <1>1, <2>1, <2>2, <2>4
    <2>5. CASE i = t /\ j \in DOMAIN q
      BY <1>1, <2>1, <2>5
    <2> QED
      BY <1>1, <2>3, <2>4, <2>5
  <1>6. OnceGroups(r)
    <2> SUFFICES ASSUME NEW i \in DOMAIN r, r[i].kind = "once"
                 PROVE  OnTop(r, i) \/ \E p \in DOMAIN r : PassOf(r, i, p)
      BY DEF OnceGroups
    <2>1. CASE i = t
      BY <1>1, <2>1, t + 1 > t DEF OnTop, OnceBetween, t
    <2>2. ASSUME i \in DOMAIN q, OnTop(q, i)
          PROVE  OnTop(r, i) \/ \E p \in DOMAIN r : PassOf(r, i, p)
      <3>1. /\ \A j \in DOMAIN q : i < j =>
                  q[j].kind = "once" /\ q[j].s = q[i].s /\ q[j].capture # q[i].capture
            /\ q[i].kind = "once"
        BY <1>1, <1>3, <2>2 DEF OnTop, OnceBetween, Grown
      <3>2. q[Len(q)].kind = "once" /\ q[Len(q)].s = q[i].s
        BY <1>1, <1>3, <2>2, <3>1 DEF Grown
      <3>3. f.kind \in {"once", "pass"} /\ f.s = q[i].s
        BY <1>3, <2>2, <3>2 DEF Above
      <3>4. CASE f.kind = "pass"
        <4>1. PassOf(r, i, t)
          BY <1>1, <2>2, <3>1, <3>3, <3>4 DEF PassOf, OnceBetween
        <4> QED
          BY <1>1, <4>1
      <3>5. CASE f.kind = "once"
        <4>1. f.capture # q[i].capture
          <5> SUFFICES ASSUME f.capture = q[i].capture PROVE FALSE
            OBVIOUS
          <5>1. \A j \in DOMAIN q : i <= j => q[j].kind = "once"
            BY <1>1, <2>2, <3>1
          <5> QED
            BY <2>2, <3>5, <5>1 DEF Entered
        <4> QED
          BY <1>1, <2>2, <3>1, <3>3, <3>5, <4>1 DEF OnTop, OnceBetween
      <3> QED
        BY <3>3, <3>4, <3>5
    <2>3. ASSUME i \in DOMAIN q, NEW p \in DOMAIN q, PassOf(q, i, p)
          PROVE  \E m \in DOMAIN r : PassOf(r, i, m)
      <3>1. PassOf(r, i, p)
        BY <1>1, <2>3 DEF PassOf, OnceBetween
      <3> QED
        BY <1>1, <3>1
    <2> QED
      BY <1>1, <2>1, <2>2, <2>3 DEF Wrapped, OnceGroups
  <1>7. PassesWatched(r)
    <2> SUFFICES ASSUME NEW p \in DOMAIN r, NEW w \in DOMAIN r,
                        r[p].kind = "pass", WithAt(r, w), w < p
                 PROVE  \E o \in DOMAIN r :
                           /\ w < o /\ o < p /\ r[o].capture = r[w].capture
                           /\ \A j \in DOMAIN r : o <= j /\ j < p => r[j].kind = "once"
      BY DEF PassesWatched
    <2>1. w \in DOMAIN q /\ WithAt(q, w)
      BY <1>1, <1>2
    <2>2. CASE p \in DOMAIN q
      <3>1. PICK o \in DOMAIN q :
                  /\ w < o /\ o < p /\ q[o].capture = q[w].capture
                  /\ \A j \in DOMAIN q : o <= j /\ j < p => q[j].kind = "once"
        BY <1>1, <2>1, <2>2 DEF Wrapped, PassesWatched
      <3> QED
        BY <1>1, <2>1, <2>2, <3>1
    <2>3. CASE p = t
      <3>1. PICK o \in DOMAIN q : /\ q[o].capture = q[w].capture
                                  /\ \A j \in DOMAIN q : o <= j => q[j].kind = "once"
        BY <1>1, <2>1, <2>3 DEF Entered
      <3>2. q[w].kind = "with"
        BY <2>1 DEF WithAt
      <3>3. w < o
        BY <1>1, <2>1, <3>1, <3>2
      <3> QED
        BY <1>1, <2>1, <2>3, <3>1, <3>3
    <2> QED
      BY <1>1, <2>2, <2>3
  <1> QED
    BY <1>4, <1>5, <1>6, <1>7 DEF Wrapped

-----------------------------------------------------------------------------
(* Calls reach the captures from the innermost outwards. *)

Chain(q) == /\ Len(q) \in Nat /\ DOMAIN q = 1..Len(q)
            /\ \A i \in DOMAIN q : WithAt(q, i) => q[i].capture # Plain
            /\ WrappersInside(q)

(* A call starts with the outermost wrapper. *)
LEMMA CallStarts ==
    ASSUME NEW q, NEW fn, NEW to, Chain(q), OutsideIn(q, Len(q), to), fn # "with",
           q # <<>> => q[Len(q)].kind # fn, Len(q) = 0 => q = <<>>
    PROVE  CallsInwardOut(q, to, fn)
  <1>1. \A c : ~Entered(q, fn, c)
    BY DEF Entered, Chain
  <1>2. CASE to = Plain
    <2>1. \A i \in DOMAIN q : ~WithAt(q, i)
      BY <1>2 DEF OutsideIn, Chain
    <2> QED
      BY <1>2, <2>1 DEF CallsInwardOut
  <1>3. CASE to # Plain
    <2>1. PICK k \in DOMAIN q : /\ WithAt(q, k) /\ q[k].capture = to
                                /\ \A j \in (k + 1)..Len(q) : ~WithAt(q, j)
      BY <1>3 DEF OutsideIn, Chain
    <2>2. ASSUME NEW i \in DOMAIN q, WithAt(q, i), NEW w \in DOMAIN q, w < i, OpenAt(q, w, to)
          PROVE  FALSE
      <3>1. w = k
        BY <2>1, <2>2 DEF OpenAt, Chain, WrappersInside
      <3>2. i \in (k + 1)..Len(q)
        BY <2>2, <3>1 DEF Chain
      <3> QED
        BY <2>1, <2>2, <3>2
    <2>3. \A i \in DOMAIN q : WithAt(q, i) => ~CallPassed(q, to, i)
      BY <1>3, <2>2 DEF CallPassed
    <2> QED
      BY <1>1, <2>1, <2>3 DEF CallsInwardOut, OpenAt
  <1> QED
    BY <1>2, <1>3

(* A wrapper about to be called is open and has not been entered. *)
LEMMA NotYetEntered ==
    ASSUME NEW q, NEW fn, NEW to, Chain(q), CallsInwardOut(q, to, fn), to # Plain
    PROVE  /\ \E w \in DOMAIN q : OpenAt(q, w, to)
           /\ ~Entered(q, fn, to)
  <1>1. PICK w \in DOMAIN q : OpenAt(q, w, to)
    BY DEF CallsInwardOut
  <1>2. ~CallPassed(q, to, w)
    BY <1>1 DEF CallPassed, OpenAt, Chain, WrappersInside
  <1>3. Entered(q, fn, to) => CallPassed(q, to, w)
    BY <1>1 DEF CallsInwardOut, OpenAt
  <1> QED
    BY <1>1, <1>2, <1>3

(* It passes the call to the next wrapper inside. *)
LEMMA CallGoesOn ==
    ASSUME NEW q, NEW r, NEW f, NEW fn, NEW next, Grown(q, r, f), Chain(q),
           f.kind = fn, fn # "with", f.capture # Plain,
           CallsInwardOut(q, f.capture, fn),
           NEW w \in DOMAIN q, OpenAt(q, w, f.capture), OutsideIn(q, w - 1, next)
    PROVE  CallsInwardOut(r, next, fn)
  <1> DEFINE t == Len(r)
  <1>1. /\ \A i \in DOMAIN r : i \in DOMAIN q \/ i = t
        /\ \A i \in DOMAIN q : i \in DOMAIN r /\ i < t /\ i \in Int
        /\ t \in DOMAIN r /\ t \in Int
        /\ \A i \in DOMAIN r : i <= t /\ i \in Int
        /\ r[t] = f /\ \A i \in DOMAIN q : r[i] = q[i]
    BY GrownPositions
  <1> HIDE DEF t
  <1>2. /\ \A i \in DOMAIN q : WithAt(r, i) <=> WithAt(q, i)
        /\ ~WithAt(r, t)
    BY <1>1 DEF WithAt
  <1>3. \A c, i : OpenAt(r, i, c) <=> OpenAt(q, i, c)
    BY <1>1, <1>2 DEF OpenAt
  <1>4. ASSUME NEW c
        PROVE  Entered(r, fn, c) <=> c = f.capture \/ Entered(q, fn, c)
    <2>1. ASSUME Entered(r, fn, c), c # f.capture
          PROVE  Entered(q, fn, c)
      BY <1>1, <2>1 DEF Entered
    <2>2. ASSUME Entered(q, fn, c)
          PROVE  Entered(r, fn, c)
      BY <1>1, <2>2 DEF Entered
    <2>3. ASSUME c = f.capture
          PROVE  Entered(r, fn, c)
      BY <1>1, <2>3 DEF Entered
    <2> QED
      BY <2>1, <2>2, <2>3
  <1>5. ASSUME NEW i \in DOMAIN q, WithAt(q, i)
        PROVE  q[i].capture = f.capture <=> i = w
    BY <1>5 DEF OpenAt, Chain, WrappersInside
  <1>6. ASSUME NEW i \in DOMAIN q
        PROVE  CallPassed(q, f.capture, i) <=> w < i
    BY DEF CallPassed, OpenAt, Chain, WrappersInside
  <1>7. CASE next = Plain
    <2>1. \A i \in DOMAIN q : WithAt(q, i) => i = w \/ w < i
      BY <1>7, <1>1 DEF OutsideIn, Chain
    <2>2. ASSUME NEW i \in DOMAIN r, WithAt(r, i)
          PROVE  Entered(r, fn, r[i].capture) <=> CallPassed(r, next, i)
      <3>1. i \in DOMAIN q /\ WithAt(q, i) /\ r[i].capture = q[i].capture
        BY <1>1, <1>2, <2>2
      <3>2. Entered(q, fn, q[i].capture) <=> CallPassed(q, f.capture, i)
        BY <3>1 DEF CallsInwardOut
      <3>3. Entered(r, fn, r[i].capture)
        BY <1>4, <1>5, <1>6, <2>1, <3>1, <3>2
      <3> QED
        BY <1>7, <3>3 DEF CallPassed
    <2> QED
      BY <1>7, <2>2 DEF CallsInwardOut
  <1>8. CASE next # Plain
    <2>1. PICK v \in 1..(w - 1) : /\ WithAt(q, v) /\ q[v].capture = next
                                  /\ \A j \in (v + 1)..(w - 1) : ~WithAt(q, j)
      BY <1>8 DEF OutsideIn
    <2>2. v \in DOMAIN q /\ v < w /\ OpenAt(q, v, next) /\ w \in Int
      BY <1>1, <2>1 DEF OpenAt, WithAt
    <2>3. \A i \in DOMAIN q : WithAt(q, i) => (v < i <=> i = w \/ w < i)
      BY <1>1, <2>1, <2>2
    <2>4. ASSUME NEW i \in DOMAIN r, WithAt(r, i)
          PROVE  Entered(r, fn, r[i].capture) <=> CallPassed(r, next, i)
      <3>1. i \in DOMAIN q /\ WithAt(q, i) /\ r[i].capture = q[i].capture
        BY <1>1, <1>2, <2>4
      <3>2. Entered(q, fn, q[i].capture) <=> CallPassed(q, f.capture, i)
        BY <3>1 DEF CallsInwardOut
      <3>3. Entered(r, fn, r[i].capture) <=> v < i
        BY <1>4, <1>5, <1>6, <2>3, <3>1, <3>2
      <3>4. CallPassed(r, next, i) <=> v < i
        <4>1. \A u \in DOMAIN q : OpenAt(q, u, next) => u = v
          BY <2>2 DEF OpenAt, Chain, WrappersInside
        <4> QED
          BY <1>1, <1>3, <1>8, <2>2, <4>1 DEF CallPassed, OpenAt
      <3> QED
        BY <3>3, <3>4
    <2> QED
      BY <1>1, <1>3, <2>2, <2>4 DEF CallsInwardOut
  <1> QED
    BY <1>7, <1>8

(* The wrappers of the stack form a chain. *)
LEMMA StackChain ==
    ASSUME TraceInv, Wrapped(stack)
    PROVE  /\ Chain(stack)
           /\ Len(stack) = 0 => stack = <<>>
           /\ OutsideIn(stack, Len(stack), installed)
           /\ \A i \in DOMAIN stack : WithAt(stack, i) =>
                 /\ stack[i].capture \in Opened
                 /\ OutsideIn(stack, i - 1, original[stack[i].capture])
           /\ \A i \in DOMAIN stack, c \in Captures :
                 OpenAt(stack, i, c) => OutsideIn(stack, i - 1, original[c])
  <1>1. NestedIn(stack, installed, original)
    BY NestByStack DEF TraceInv
  <1>2. \A i \in DOMAIN stack : WithAt(stack, i) => stack[i].capture \in Opened
    BY DEF TraceInv, CalleesOpened, WithAt
  <1>3. Plain \notin Opened
    BY FunctionsAssumption DEF Opened
  <1>4. /\ Len(stack) \in Nat /\ DOMAIN stack = 1..Len(stack)
        /\ stack = <<>> <=> Len(stack) = 0
    BY StackPositions DEF TraceInv
  <1> QED
    BY <1>1, <1>2, <1>3, <1>4 DEF Chain, NestedIn, Wrapped, OpenAt

(* Pushing a frame grows the stack. *)
LEMMA StackGrown ==
    ASSUME TypeOK, NEW f \in FrameType, stack' = Append(stack, f)
    PROVE  Grown(stack, stack', f)
  BY Pushed, SMTT(60) DEF Grown

(* Popping one shrinks it. *)
LEMMA StackShrunk ==
    ASSUME TypeOK, stack # <<>>, stack' = Front(stack)
    PROVE  Shrunk(stack, stack')
  BY PoppedTop DEF Shrunk

(* The frame on top of the new stack may lie on the one under it.          *)
LEMMA GrownAbove ==
    ASSUME TypeOK, StackShape', NEW f, Grown(stack, stack', f), stack # <<>>
    PROVE  Above(stack[Len(stack)], f)
  <1>1. Len(stack) \in DOMAIN stack /\ Len(stack) \in Nat
    BY StackPositions
  <1>2. /\ Len(stack) \in DOMAIN stack' /\ Len(stack) + 1 \in DOMAIN stack'
        /\ stack'[Len(stack)] = stack[Len(stack)] /\ stack'[Len(stack) + 1] = f
    BY <1>1 DEF Grown
  <1> QED
    BY <1>2 DEF StackShape, Above

WrapHolds ==
    /\ Wrapped(stack)
    /\ control.mode = "call" => CallsInwardOut(stack, control.to, control.fn)

(* Every step keeps the stack wrapped. *)
LEMMA WrapStep == WrapInv /\ TraceInv' /\ [Next]_vars => WrapHolds'
  <1> SUFFICES ASSUME WrapInv, TraceInv', [Next]_vars PROVE WrapHolds'
    OBVIOUS
  <1>a. TraceInv /\ TypeOK /\ StackShape /\ StackShape' /\ control \in ControlType
    BY DEF WrapInv, TraceInv, TypeOK
  <1>b. /\ Wrapped(stack)
        /\ control.mode = "call" => CallsInwardOut(stack, control.to, control.fn)
    BY DEF WrapInv
  <1>c. /\ Chain(stack)
        /\ Len(stack) = 0 => stack = <<>>
        /\ OutsideIn(stack, Len(stack), installed)
        /\ \A i \in DOMAIN stack : WithAt(stack, i) => stack[i].capture \in Opened
        /\ \A i \in DOMAIN stack, c \in Captures :
              OpenAt(stack, i, c) => OutsideIn(stack, i - 1, original[c])
    BY <1>a, <1>b, StackChain
  <1>d. stack # <<>> => Len(stack) \in DOMAIN stack /\ Top = stack[Len(stack)]
    BY <1>a, StackPositions
  <1>e. Run.mode # "call" /\ Raising.mode # "call"
    BY DEF Run, Raising
  <1> HIDE DEF TraceInv
  <1>1. ASSUME NEW c \in Captures, OpenCapture(c)
        PROVE  WrapHolds'
    <2> DEFINE f == Frame("with", c, None, 0)
    <2>1. /\ control = Run /\ control' = control /\ stack' = Append(stack, f)
          /\ original[c] = None
      BY <1>1 DEF OpenCapture
    <2>2. f \in FrameType /\ f.kind = "with" /\ f.capture = c
      BY <1>a, EntryFrames DEF Frame
    <2> HIDE DEF f
    <2>3. Grown(stack, stack', f)
      BY <1>a, <2>1, <2>2, StackGrown
    <2>4. \A w \in DOMAIN stack : ~OpenAt(stack, w, c)
      BY <1>c, <2>1 DEF OpenAt, Opened
    <2>5. stack # <<>> => Above(stack[Len(stack)], f)
      BY <1>a, <2>3, GrownAbove
    <2>6. Wrapped(stack')
      BY <1>b, <1>c, <2>2, <2>3, <2>4, <2>5, WrappedGrows
    <2> QED
      BY <1>e, <2>1, <2>6 DEF WrapHolds
  <1>2. ASSUME stack # <<>>, stack' = Front(stack), control'.mode # "call"
        PROVE  WrapHolds'
    BY <1>2, <1>a, <1>b, StackShrunk, WrappedShrinks DEF WrapHolds
  <1>3. ASSUME stack' = stack, control' = control \/ control'.mode # "call"
        PROVE  WrapHolds'
    BY <1>3, <1>b DEF WrapHolds
  <1>4. ASSUME control = Run, stack' = stack, control'.mode = "call",
               control'.to = installed, control'.fn \in {"once", "two"}
        PROVE  WrapHolds'
    <2>1. stack # <<>> => stack[Len(stack)].kind # control'.fn
      BY <1>4, <1>a, <1>d, ControlTypes DEF StackShape, TopIs, Doing
    <2>2. CallsInwardOut(stack, installed, control'.fn)
      BY <1>c, <1>4, <2>1, CallStarts
    <2> QED
      BY <1>4, <1>b, <2>2 DEF WrapHolds
  <1>5. ASSUME NEW f \in FrameType, stack' = Append(stack, f), control.mode = "call",
               control.to \in Captures, f.kind = control.fn, control.fn \in {"once", "two"},
               f.capture = control.to,
               control'.fn = control.fn, control'.to = original[control.to]
        PROVE  WrapHolds'
    <2>1. Grown(stack, stack', f)
      BY <1>a, <1>5, StackGrown
    <2>2. f.capture # Plain
      BY <1>5, FunctionsAssumption
    <2>3. CallsInwardOut(stack, f.capture, control.fn)
      BY <1>5, <1>b
    <2>4. /\ \E w \in DOMAIN stack : OpenAt(stack, w, f.capture)
          /\ ~Entered(stack, control.fn, f.capture)
      BY <1>c, <2>2, <2>3, NotYetEntered
    <2>5. stack # <<>> => Above(stack[Len(stack)], f)
      BY <1>a, <2>1, GrownAbove
    <2>6. Wrapped(stack')
      BY <1>b, <1>c, <1>5, <2>1, <2>4, <2>5, WrappedGrows
    <2>7. PICK w \in DOMAIN stack : OpenAt(stack, w, f.capture)
      BY <2>4
    <2>8. OutsideIn(stack, w - 1, control'.to)
      BY <1>c, <1>5, <2>7
    <2>9. CallsInwardOut(stack', control'.to, control.fn)
      BY <1>c, <1>5, <2>1, <2>2, <2>3, <2>7, <2>8, CallGoesOn
    <2> QED
      BY <1>5, <2>6, <2>9 DEF WrapHolds
  <1>6. CASE EnterTracedOnce \/ EnterTracedTwo
    <2>1. CASE EnterTracedOnce
      <3> DEFINE g == Frame("once", control.to, control.s, Len(passes[control.to]) + 1)
      <3>1. /\ control.mode = "call" /\ control.fn = "once" /\ control.to \in Captures
            /\ stack' = Append(stack, g)
            /\ control' = [control EXCEPT !.to = original[control.to]]
        BY <2>1 DEF EnterTracedOnce, Callee
      <3>2. g \in FrameType /\ g.kind = "once" /\ g.capture = control.to
        BY <1>a, <3>1, EntryFrames DEF Frame
      <3>3. control'.fn = control.fn /\ control'.to = original[control.to]
        BY <1>a, <3>1 DEF ControlType, Run, Raising
      <3> HIDE DEF g
      <3> QED
        BY <1>5, <3>1, <3>2, <3>3
    <2>2. CASE EnterTracedTwo
      <3> DEFINE g == Frame("two", control.to, control.s, 0)
      <3>1. /\ control.mode = "call" /\ control.fn = "two" /\ control.to \in Captures
            /\ stack' = Append(stack, g)
            /\ control' = [control EXCEPT !.to = original[control.to]]
        BY <2>2 DEF EnterTracedTwo, Callee
      <3>2. g \in FrameType /\ g.kind = "two" /\ g.capture = control.to
        BY <1>a, <3>1, EntryFrames DEF Frame
      <3>3. control'.fn = control.fn /\ control'.to = original[control.to]
        BY <1>a, <3>1 DEF ControlType, Run, Raising
      <3> HIDE DEF g
      <3> QED
        BY <1>5, <3>1, <3>2, <3>3
    <2> QED
      BY <1>6, <2>1, <2>2
  <1>7. CASE EnterPlainOnce
    <2> DEFINE f == Frame("pass", None, control.s, Len(running) + 1)
    <2>1. /\ control.mode = "call" /\ control.fn = "once" /\ control.to = Plain
          /\ control' = Run /\ stack' = Append(stack, f)
      BY <1>7 DEF EnterPlainOnce
    <2>2. f \in FrameType /\ f.kind = "pass"
      BY <1>a, <2>1, EntryFrames DEF Frame
    <2> HIDE DEF f
    <2>3. Grown(stack, stack', f)
      BY <1>a, <2>1, <2>2, StackGrown
    <2>4. \A w \in DOMAIN stack : WithAt(stack, w) => Entered(stack, "once", stack[w].capture)
      BY <1>b, <2>1 DEF CallsInwardOut, CallPassed
    <2>5. stack # <<>> => Above(stack[Len(stack)], f)
      BY <1>a, <2>3, GrownAbove
    <2>6. Wrapped(stack')
      BY <1>b, <1>c, <2>2, <2>3, <2>4, <2>5, WrappedGrows
    <2> QED
      BY <1>e, <2>1, <2>6 DEF WrapHolds
  <1>8. CASE \/ CloseCapture \/ EndPass \/ ReturnTracedOnce \/ ReturnTracedTwo
             \/ UnwindTracedOnce \/ UnwindPlain
    BY <1>2, <1>8, <1>e
    DEF CloseCapture, EndPass, ReturnTracedOnce, ReturnTracedTwo, UnwindTracedOnce,
        UnwindPlain, TopIs, AfterRendering
  <1>9. CASE \E s \in Schedulers, reorder \in BOOLEAN : CallOnce(s, reorder)
    BY <1>4, <1>9 DEF CallOnce
  <1>10. CASE \E s \in Schedulers, n1, n2 \in SUBSET Atoms : CallTwo(s, n1, n2)
    BY <1>4, <1>10 DEF CallTwo
  <1>11. CASE \/ EnterPlainTwo \/ ReturnToCaller \/ Throw \/ Catch \/ UNCHANGED vars
              \/ \E a \in Atoms : ReorderLoops(a)
    BY <1>3, <1>11, <1>e
    DEF EnterPlainTwo, ReturnToCaller, Throw, Catch, vars, ReorderLoops
  <1> QED
    BY <1>1, <1>6, <1>7, <1>8, <1>9, <1>10, <1>11 DEF Next, Finished

-----------------------------------------------------------------------------
(* The last rewrite, until every capture has recorded it. *)

(* A rewrite is under way exactly in the captures that are open, once the  *)
(* call has got past all wrappers.                                         *)
LEMMA AllEntered ==
    ASSUME WrapInv, control.mode = "call", control.fn = "two", control.to = Plain
    PROVE  \A c \in Captures : TwoIn(stack, c) <=> c \in OpenCaptures
  <1> SUFFICES ASSUME NEW c \in Captures PROVE TwoIn(stack, c) <=> c \in OpenCaptures
    OBVIOUS
  <1>1. ASSUME TwoIn(stack, c) PROVE c \in OpenCaptures
    BY <1>1 DEF TwoIn, WrapInv, Wrapped, WrappersInside, OpenCaptures, WithAt
  <1>2. ASSUME c \in OpenCaptures PROVE TwoIn(stack, c)
    <2>1. PICK w \in DOMAIN stack : WithAt(stack, w) /\ stack[w].capture = c
      BY <1>2 DEF OpenCaptures, WithAt
    <2>2. Entered(stack, "two", c)
      BY <2>1 DEF WrapInv, CallsInwardOut, CallPassed
    <2>3. PICK o \in DOMAIN stack : /\ stack[o].capture = c
                                    /\ \A j \in DOMAIN stack : o <= j => stack[j].kind = "two"
      BY <2>2 DEF Entered
    <2>4. o <= o
      BY StackPositions DEF WrapInv, TraceInv
    <2> QED
      BY <2>3, <2>4 DEF TwoIn
  <1> QED
    BY <1>1, <1>2

(* While a pair is being fused, its wrappers are on top. *)
LEMMA TwosAreOnTop ==
    ASSUME TraceInv, Wrapped(stack), NEW c, TwoIn(stack, c)
    PROVE  TopIs("two")
  <1>1. PICK i \in DOMAIN stack : stack[i].kind = "two"
    BY DEF TwoIn
  <1>2. /\ Len(stack) \in Nat /\ DOMAIN stack = 1..Len(stack)
        /\ stack = <<>> <=> Len(stack) = 0
        /\ stack # <<>> => Len(stack) \in DOMAIN stack /\ Top = stack[Len(stack)]
    BY StackPositions DEF TraceInv
  <1>3. i = Len(stack) \/ i < Len(stack)
    BY <1>1, <1>2
  <1> QED
    BY <1>1, <1>2, <1>3 DEF Wrapped, TwosOnTop, TopIs

(* A return is to the function on top. *)
LEMMA TopReturnsTwo ==
    ASSUME TraceInv, control.mode = "return"
    PROVE  /\ TopIs("two") => control.fn = "two"
           /\ TopIs("once") => control.fn = "once" /\ Top.s = control.s
  BY DEF TraceInv, StackShape, Doing, Raising

(* The nodes of a scheduler, as a list. *)
LEMMA NodesByList ==
    /\ \A s : FusedNodes(s) = ListOf(running, live, s)
  BY DEF FusedNodes, ListOf

(* What fusing a pair changes, and what it leaves alone. *)
LEMMA RewriteMade ==
    ASSUME WrapInv, TypeOK', EnterPlainTwo
    PROVE  LET s == control.s
               nodes == FusePair(ListOf(running, live, s), control.pair)
           IN
           /\ control.mode = "call" /\ control.fn = "two" /\ control.to = Plain
           /\ control' = [mode |-> "return", fn |-> "two", s |-> s,
                          pair |-> control.pair, result |-> UNION control.pair]
           /\ stack' = stack /\ loops' = loops /\ passes' = passes /\ passStack' = passStack
           /\ running # <<>> => Last(running).s = s
           /\ running' # <<>> => Last(running').s = s
           /\ ListOf(running', live', s) = nodes
           /\ DOMAIN running = 1..Len(running)
           /\ Len(running') = Len(running)
           /\ \A k \in DOMAIN running :
                 running'[k].fused = IF k = Len(running) THEN nodes ELSE running[k].fused
  <1> DEFINE s == control.s
             nodes == FusePair(ListOf(running, live, s), control.pair)
  <1>1. /\ control.mode = "call" /\ control.fn = "two" /\ control.to = Plain
        /\ IF running # <<>>
           THEN running' = [running EXCEPT ![Len(running)].fused = nodes] /\ UNCHANGED live
           ELSE live' = [live EXCEPT ![s] = nodes] /\ UNCHANGED running
        /\ control' = [mode |-> "return", fn |-> "two", s |-> s,
                       pair |-> control.pair, result |-> UNION control.pair]
        /\ stack' = stack /\ loops' = loops /\ passes' = passes /\ passStack' = passStack
    BY NodesByList DEF EnterPlainTwo, tracers
  <1>2. running # <<>> => Last(running).s = s
    BY <1>1 DEF WrapInv, TraceInv, CallsAllowed
  <1>3. /\ s \in Schedulers /\ live \in [Schedulers -> NodeList] /\ running \in Seq(Pass)
        /\ DOMAIN running = 1..Len(running)
    BY <1>1, ControlCases, LenProperties DEF WrapInv, TraceInv, TypeOK, Pass
  <1> HIDE DEF nodes, s
  <1>4. CASE running # <<>>
    <2>1. Len(running) \in DOMAIN running /\ Len(running) \in Nat
      BY <1>3, <1>4, FrontElements
    <2>2. running' = [running EXCEPT ![Len(running)] = [running[Len(running)] EXCEPT !.fused = nodes]]
      BY <1>1, <1>4
    <2>3. /\ Len(running') = Len(running) /\ DOMAIN running' = DOMAIN running
          /\ \A k \in DOMAIN running :
                running'[k] = IF k = Len(running) THEN [running[k] EXCEPT !.fused = nodes]
                              ELSE running[k]
      BY <1>3, <2>1, <2>2
    <2>4. \A k \in DOMAIN running : running[k] \in Pass
      BY <1>3, ElementOfSeq
    <2>5. /\ [running[Len(running)] EXCEPT !.fused = nodes].fused = nodes
          /\ [running[Len(running)] EXCEPT !.fused = nodes].s = running[Len(running)].s
      BY <2>1, <2>4 DEF Pass
    <2>6. /\ running' # <<>> /\ Last(running').fused = nodes
          /\ Last(running').s = Last(running).s
      <3>1. running' # <<>>
        BY <2>1, <2>3
      <3> QED
        BY <2>1, <2>3, <2>5, <3>1 DEF Last
    <2>7. ListOf(running', live', s) = nodes
      BY <2>6 DEF ListOf
    <2>8. \A k \in DOMAIN running :
             running'[k].fused = IF k = Len(running) THEN nodes ELSE running[k].fused
      BY <2>3, <2>5
    <2> QED
      BY <1>1, <1>2, <1>3, <1>4, <2>3, <2>6, <2>7, <2>8 DEF s, nodes
  <1>5. CASE running = <<>>
    <2>1. live' = [live EXCEPT ![s] = nodes] /\ running' = running
      BY <1>1, <1>5
    <2>2. ListOf(running', live', s) = nodes
      BY <1>3, <1>5, <2>1 DEF ListOf
    <2>3. DOMAIN running = {} /\ Len(running) = 0
      BY <1>5
    <2> QED
      BY <1>1, <1>2, <1>3, <1>5, <2>1, <2>2, <2>3 DEF s, nodes
  <1> QED
    BY <1>4, <1>5

(* It is logged as seen by the captures that are open. *)
LEMMA RewriteLogged ==
    ASSUME WrapInv, TypeOK', EnterPlainTwo
    PROVE  /\ \A c \in Captures : TwoIn(stack, c) <=> c \in OpenCaptures
           /\ OpenCaptures = {} => happened' = happened
           /\ OpenCaptures # {} =>
                 /\ Len(happened) \in Nat /\ DOMAIN happened = 1..Len(happened)
                 /\ Len(happened') = Len(happened) + 1 /\ happened' # <<>>
                 /\ DOMAIN happened' = 1..(Len(happened) + 1)
                 /\ \A n \in DOMAIN happened : happened'[n] = happened[n]
                 /\ happened'[Len(happened) + 1].seen = OpenCaptures
                 /\ EventIs(happened'[Len(happened) + 1], control',
                            ListOf(running', live', control'.s), loops')
  <1> DEFINE e == Rewrite(control.s, control.pair)
  <1>1. /\ control.mode = "call" /\ control.fn = "two" /\ control.to = Plain
        /\ happened' = IF OpenCaptures = {} THEN happened ELSE Append(happened, e)
    BY DEF EnterPlainTwo
  <1>2. \A c \in Captures : TwoIn(stack, c) <=> c \in OpenCaptures
    BY <1>1, AllEntered
  <1>3. happened \in Seq(Event) /\ happened' \in Seq(Event)
    BY DEF WrapInv, TraceInv, TypeOK, Event
  <1>4. /\ e.s = control.s /\ e.pair = control.pair /\ e.seen = OpenCaptures
        /\ e.live = FusePair(ListOf(running, live, control.s), control.pair)
        /\ e.loops = (UNION control.pair) \cap loops[control.s]
    BY NodesByList DEF Rewrite
  <1> HIDE DEF e
  <1>5. ASSUME OpenCaptures # {}
        PROVE  /\ Len(happened) \in Nat /\ DOMAIN happened = 1..Len(happened)
               /\ Len(happened') = Len(happened) + 1
               /\ DOMAIN happened' = 1..(Len(happened) + 1)
               /\ \A n \in DOMAIN happened : happened'[n] = happened[n]
               /\ happened'[Len(happened) + 1] = e
    <2>1. happened' = Append(happened, e)
      BY <1>1, <1>5
    <2>2. e \in Event
      <3>1. /\ Len(happened) + 1 \in DOMAIN happened'
            /\ happened'[Len(happened) + 1] = e
        BY <1>3, <2>1
      <3> QED
        BY <1>3, <3>1, ElementOfSeq
    <2> QED
      BY <1>3, <2>1, <2>2, AppendElements
  <1>6. OpenCaptures # {} =>
           /\ happened' # <<>>
           /\ EventIs(e, control', ListOf(running', live', control'.s), loops')
    <2>1. /\ control'.s = control.s /\ control'.pair = control.pair
          /\ control'.result = UNION control.pair /\ loops' = loops
          /\ ListOf(running', live', control.s)
                = FusePair(ListOf(running, live, control.s), control.pair)
      BY RewriteMade
    <2>2. EventIs(e, control', ListOf(running', live', control'.s), loops')
      BY <1>4, <2>1 DEF EventIs
    <2> QED
      BY <1>5, <2>2
  <1> QED
    BY <1>1, <1>2, <1>4, <1>5, <1>6

(* Every step keeps what is known of the last rewrite. *)
LEMMA LastRewriteStep == WrapInv /\ WrapInv' /\ LastRewrite /\ [Next]_vars => LastRewrite'
  <1> SUFFICES ASSUME WrapInv, WrapInv', LastRewrite, [Next]_vars PROVE LastRewrite'
    OBVIOUS
  <1>a. TraceInv /\ TypeOK /\ TypeOK' /\ Wrapped(stack) /\ control \in ControlType
    BY DEF WrapInv, TraceInv, TypeOK
  <1>b. Run.mode # "return" /\ Raising.mode # "return"
    BY DEF Run, Raising
  <1>c. ASSUME control'.mode # "return" \/ control'.fn # "two" PROVE LastRewrite'
    BY <1>c DEF LastRewrite
  <1>1. CASE EnterPlainTwo
    <2>1. control'.s = control.s /\ stack' = stack
      BY <1>1, <1>a, RewriteMade
    <2>2. running' # <<>> => Last(running').s = control'.s
      BY <1>1, <1>a, <2>1, RewriteMade
    <2>3. ASSUME NEW c \in Captures, TwoIn(stack', c)
          PROVE  /\ happened' # <<>>
                 /\ EventIs(happened'[Len(happened')], control',
                            ListOf(running', live', control'.s), loops')
                 /\ c \in happened'[Len(happened')].seen
      BY <1>1, <1>a, <2>1, <2>3, RewriteLogged
    <2> QED
      BY <2>2, <2>3 DEF LastRewrite
  <1>2. CASE ReturnTracedTwo
    <2>1. /\ control' = control /\ running' = running /\ live' = live /\ loops' = loops
          /\ happened' = happened
          /\ stack # <<>> /\ stack' = Front(stack)
      BY <1>2 DEF ReturnTracedTwo, AfterRendering, TopIs, schedulers
    <2>2. \A c : TwoIn(stack', c) => TwoIn(stack, c)
      BY <1>a, <2>1, PoppedTop DEF TwoIn
    <2> QED
      BY <2>1, <2>2 DEF LastRewrite
  <1>3. CASE ReturnTracedOnce
    BY <1>3, <1>a, <1>c, TopReturnsTwo DEF ReturnTracedOnce
  <1>4. CASE UNCHANGED vars
    BY <1>4 DEF LastRewrite, vars, schedulers
  <1>5. CASE EnterTracedOnce \/ EnterTracedTwo
    <2>1. /\ control.mode = "call" /\ control.to \in Captures
          /\ control' = [control EXCEPT !.to = original[control.to]]
      BY <1>5 DEF EnterTracedOnce, EnterTracedTwo, Callee
    <2>2. control'.mode = "call"
      BY <1>a, <2>1 DEF ControlType, Run, Raising
    <2> QED
      BY <1>c, <2>2
  <1>6. CASE \/ \E s \in Schedulers, reorder \in BOOLEAN : CallOnce(s, reorder)
             \/ \E s \in Schedulers, n1, n2 \in SUBSET Atoms : CallTwo(s, n1, n2)
    BY <1>6, <1>c DEF CallOnce, CallTwo
  <1>7. CASE \/ \E c \in Captures : OpenCapture(c)
             \/ \E a \in Atoms : ReorderLoops(a)
             \/ CloseCapture \/ EnterPlainOnce \/ EndPass \/ ReturnToCaller \/ Throw
             \/ UnwindTracedOnce \/ UnwindPlain \/ Catch
    BY <1>7, <1>b, <1>c
    DEF OpenCapture, CloseCapture, EnterPlainOnce,
        ReorderLoops, EndPass, ReturnToCaller, Throw, UnwindTracedOnce, UnwindPlain, Catch
  <1> QED
    BY <1>1, <1>2, <1>3, <1>4, <1>5, <1>6, <1>7 DEF Next, Finished

-----------------------------------------------------------------------------
(* How the passes of a trace grow. *)

(* The steps of all passes stay; new passes have none.                     *)
StepsKept(ps, qs) ==
    /\ \A i \in DOMAIN ps : /\ i \in DOMAIN qs /\ qs[i].graph = ps[i].graph
                            /\ qs[i].steps = ps[i].steps
    /\ \A i \in DOMAIN qs : i \in DOMAIN ps \/ qs[i].steps = <<>>

(* Pass k, which may be a new one, gains a step.                           *)
Gained(ps, qs, k, step) ==
    /\ k \in DOMAIN qs
    /\ \A i \in DOMAIN ps :
          /\ i \in DOMAIN qs
          /\ qs[i].graph = ps[i].graph
          /\ qs[i].before = ps[i].before /\ qs[i].after = ps[i].after
    /\ \A i \in DOMAIN qs : i # k => i \in DOMAIN ps /\ qs[i] = ps[i]
    /\ Len(qs[k].steps) \in Nat \ {0} /\ DOMAIN qs[k].steps = 1..Len(qs[k].steps)
    /\ qs[k].steps[Len(qs[k].steps)] = step
    /\ k \in DOMAIN ps =>
          /\ Len(ps[k].steps) = Len(qs[k].steps) - 1
          /\ DOMAIN ps[k].steps = 1..(Len(qs[k].steps) - 1)
          /\ \A j \in DOMAIN ps[k].steps : qs[k].steps[j] = ps[k].steps[j]
    /\ k \notin DOMAIN ps => Len(qs[k].steps) = 1

(* Records stay complete when no step is added. *)
LEMMA RecordsKept ==
    ASSUME NEW c, NEW ps, NEW qs, NEW hap, NEW un, NEW still, RecordsIn(c, ps, hap, un),
           still <=> un, StepsKept(ps, qs)
    PROVE  RecordsIn(c, qs, hap, still)
  <1>1. /\ \A i \in DOMAIN ps : /\ i \in DOMAIN qs /\ qs[i].graph = ps[i].graph
                                /\ qs[i].steps = ps[i].steps
        /\ \A i \in DOMAIN qs : i \in DOMAIN ps \/ DOMAIN qs[i].steps = {}
    BY DEF StepsKept
  <1>2. \A i \in DOMAIN qs : \A j \in DOMAIN qs[i].steps :
           i \in DOMAIN ps /\ j \in DOMAIN ps[i].steps /\ qs[i].steps[j] = ps[i].steps[j]
    BY <1>1
  <1> QED
    BY <1>1, <1>2 DEF RecordsIn

(* They become complete when the missing step is added. *)
LEMMA RecordsGain ==
    ASSUME NEW c, NEW ps, NEW qs, NEW hap, NEW k, NEW step,
           RecordsIn(c, ps, hap, TRUE), Gained(ps, qs, k, step),
           SeenBy(hap, c, Len(hap)), step.n = Len(hap), StepRight(hap, step, qs[k].graph)
    PROVE  RecordsIn(c, qs, hap, FALSE)
  <1> DEFINE m == Len(qs[k].steps)
             Old(i, j) == i \in DOMAIN ps /\ j \in DOMAIN ps[i].steps
             New(i, j) == i = k /\ j = m
  <1>1. /\ k \in DOMAIN qs /\ m \in DOMAIN qs[k].steps /\ qs[k].steps[m] = step
        /\ \A i \in DOMAIN ps : i \in DOMAIN qs /\ qs[i].graph = ps[i].graph
    BY DEF Gained
  <1>2. ASSUME NEW i \in DOMAIN qs, NEW j \in DOMAIN qs[i].steps
        PROVE  \/ New(i, j) /\ qs[i].steps[j] = step
               \/ Old(i, j) /\ ~New(i, j) /\ qs[i].steps[j] = ps[i].steps[j]
    <2>1. CASE i # k
      BY <1>2, <2>1 DEF Gained
    <2>2. CASE i = k /\ j = m
      BY <1>1, <2>2
    <2>3. CASE i = k /\ j # m
      <3>1. k \in DOMAIN ps /\ j \in DOMAIN ps[k].steps
        BY <1>2, <2>3 DEF Gained
      <3> QED
        BY <2>3, <3>1 DEF Gained
    <2> QED
      BY <2>1, <2>2, <2>3
  <1>3. ASSUME NEW i \in DOMAIN ps, NEW j \in DOMAIN ps[i].steps
        PROVE  i \in DOMAIN qs /\ j \in DOMAIN qs[i].steps /\ qs[i].steps[j] = ps[i].steps[j]
    <2>1. CASE i # k
      BY <1>3, <2>1 DEF Gained
    <2>2. CASE i = k
      BY <1>3, <2>2 DEF Gained
    <2> QED
      BY <2>1, <2>2
  <1> HIDE DEF m
  <1>4. ASSUME NEW i \in DOMAIN qs, NEW j \in DOMAIN qs[i].steps
        PROVE  /\ SeenBy(hap, c, qs[i].steps[j].n)
               /\ StepRight(hap, qs[i].steps[j], qs[i].graph)
    <2>1. CASE New(i, j)
      BY <1>1, <2>1
    <2>2. CASE Old(i, j) /\ qs[i].steps[j] = ps[i].steps[j]
      BY <1>1, <2>2 DEF RecordsIn
    <2> QED
      BY <1>2, <2>1, <2>2
  <1>5. ASSUME NEW n \in DOMAIN hap, SeenBy(hap, c, n)
        PROVE  \E i \in DOMAIN qs : \E j \in DOMAIN qs[i].steps : qs[i].steps[j].n = n
    <2>1. CASE n = Len(hap)
      BY <1>1, <2>1
    <2>2. CASE n # Len(hap)
      <3>1. PICK i \in DOMAIN ps : \E j \in DOMAIN ps[i].steps : ps[i].steps[j].n = n
        BY <1>5, <2>2 DEF RecordsIn
      <3>2. PICK j \in DOMAIN ps[i].steps : ps[i].steps[j].n = n
        BY <3>1
      <3> QED
        BY <1>3, <3>2
    <2> QED
      BY <2>1, <2>2
  <1>6. ASSUME NEW i \in DOMAIN qs, NEW l \in DOMAIN qs,
               NEW j \in DOMAIN qs[i].steps, NEW o \in DOMAIN qs[l].steps,
               qs[i].steps[j].n = qs[l].steps[o].n
        PROVE  i = l /\ j = o
    <2>1. CASE New(i, j) /\ New(l, o)
      BY <2>1
    <2>2. CASE New(i, j) /\ Old(l, o) /\ qs[l].steps[o] = ps[l].steps[o]
      BY <1>1, <1>6, <2>2 DEF RecordsIn
    <2>3. CASE New(l, o) /\ Old(i, j) /\ qs[i].steps[j] = ps[i].steps[j]
      BY <1>1, <1>6, <2>3 DEF RecordsIn
    <2>4. CASE /\ Old(l, o) /\ qs[l].steps[o] = ps[l].steps[o]
               /\ Old(i, j) /\ qs[i].steps[j] = ps[i].steps[j]
      BY <1>6, <2>4 DEF RecordsIn
    <2> QED
      BY <1>2, <2>1, <2>2, <2>3, <2>4
  <1> QED
    BY <1>4, <1>5, <1>6 DEF RecordsIn

(* One more rewrite leaves the open captures a step behind. *)
LEMMA RecordsLater ==
    ASSUME NEW c, NEW ps, NEW hap, NEW later, RecordsIn(c, ps, hap, FALSE),
           Len(hap) \in Nat, DOMAIN hap = 1..Len(hap), Len(later) = Len(hap) + 1,
           DOMAIN later = 1..(Len(hap) + 1), \A n \in DOMAIN hap : later[n] = hap[n],
           NEW un, un <=> c \in later[Len(later)].seen
    PROVE  RecordsIn(c, ps, later, un)
  <1>1. /\ \A n \in DOMAIN later : n \in DOMAIN hap \/ n = Len(later)
        /\ \A n \in DOMAIN hap : n \in DOMAIN later /\ n # Len(later) /\ later[n] = hap[n]
    OBVIOUS
  <1>2. \A n \in DOMAIN hap : SeenBy(later, c, n) <=> SeenBy(hap, c, n)
    BY <1>1 DEF SeenBy
  <1>3. ASSUME NEW i \in DOMAIN ps, NEW j \in DOMAIN ps[i].steps
        PROVE  /\ SeenBy(later, c, ps[i].steps[j].n)
               /\ ps[i].steps[j].n # Len(later)
               /\ StepRight(later, ps[i].steps[j], ps[i].graph)
    <2>1. /\ SeenBy(hap, c, ps[i].steps[j].n)
          /\ StepRight(hap, ps[i].steps[j], ps[i].graph)
      BY <1>3 DEF RecordsIn
    <2>2. ps[i].steps[j].n \in DOMAIN hap
      BY <2>1 DEF SeenBy
    <2> QED
      BY <1>1, <1>2, <2>1, <2>2 DEF StepRight
  <1>4. ASSUME NEW n \in DOMAIN later, SeenBy(later, c, n)
        PROVE  \/ un /\ n = Len(later)
               \/ \E i \in DOMAIN ps : \E j \in DOMAIN ps[i].steps : ps[i].steps[j].n = n
    <2>1. CASE n = Len(later)
      BY <1>4, <2>1 DEF SeenBy
    <2>2. CASE n \in DOMAIN hap
      BY <1>2, <1>4, <2>2 DEF RecordsIn
    <2> QED
      BY <1>1, <2>1, <2>2
  <1> QED
    BY <1>3, <1>4 DEF RecordsIn

(* The pass that a rewrite is credited to.                                 *)
CreditedTo(c) == IF passStack[c] # <<>> THEN CurrentPass(c) ELSE Len(passes[c]) + 1

(* A traced rewrite that returns adds one step, to the right pass. *)
LEMMA StepAdded ==
    ASSUME TraceInv, ReturnTracedTwo
    PROVE  LET c == Top.capture
               k == CreditedTo(c)
               step == StepOf(control.s, control.pair, control.result)
           IN  /\ c \in Captures
               /\ \A d \in Captures \ {c} : passes'[d] = passes[d]
               /\ Gained(passes[c], passes'[c], k, step)
               /\ passStack[c] # <<>> => k \in DOMAIN passes[c]
               /\ passStack[c] = <<>> => /\ passes'[c][k].graph = control.s
                                         /\ passes'[c][k].before = control.pair
                                         /\ passes'[c][k].after = {}
                                         /\ k \notin DOMAIN passes[c]
  <1> DEFINE c == Top.capture
             k == CreditedTo(c)
             step == StepOf(control.s, control.pair, control.result)
  <1>1. /\ TopIs("two") /\ control.mode = "return" /\ control.fn = "two"
        /\ passes' = [passes EXCEPT ![c] = Recorded(c, control.s, step)]
    BY TopReturnsTwo DEF ReturnTracedTwo
  <1>2. TypeOK /\ FramesKnown
    BY DEF TraceInv
  <1>3. c \in Captures
    BY <1>1, <1>2, StackPositions DEF FramesKnown, TopIs
  <1>4. control.s \in Schedulers /\ control.pair \in NodeList /\ control.result \in Nodes
    BY <1>1, <1>2, ControlCases DEF TypeOK
  <1>5. step \in StepType
    <2>1. FusedNodes(control.s) \in NodeList
      BY <1>2, <1>4, FusedNodesType
    <2>2. control.result \cap loops[control.s] \in SUBSET Atoms
      BY <1>4 DEF Nodes
    <2>3. Len(happened) \in Nat
      BY <1>2, LenProperties DEF TypeOK
    <2> QED
      BY <1>4, <2>1, <2>2, <2>3 DEF StepOf, StepType, LiveNodes
  <1>6. passes \in [Captures -> Seq(PassType)] /\ passes[c] \in Seq(PassType)
    BY <1>2, <1>3 DEF TypeOK
  <1> HIDE DEF c, step
  <1>7. CASE passStack[c] # <<>>
    <2> DEFINE p == [passes[c][k] EXCEPT !.steps = Append(passes[c][k].steps, step)]
    <2>1. k = CurrentPass(c) /\ k \in DOMAIN passes[c]
      <3>1. passStack[c] \in Seq(Nat)
        BY <1>2, <1>3 DEF TypeOK
      <3>2. Len(passStack[c]) \in DOMAIN passStack[c]
        BY <1>7, <3>1, FrontElements
      <3> QED
        BY <1>2, <1>3, <1>7, <3>2 DEF TypeOK, CurrentPass, CreditedTo, Last
    <2> HIDE DEF k
    <2>2. passes[c][k] \in PassType
      BY <1>6, <2>1, LenProperties, ElementOfSeq
    <2>3. passes[c][k].steps \in Seq(StepType)
      BY <2>2 DEF PassType
    <2>4. /\ Append(passes[c][k].steps, step) \in Seq(StepType)
          /\ Len(passes[c][k].steps) \in Nat
          /\ DOMAIN passes[c][k].steps = 1..Len(passes[c][k].steps)
          /\ Len(Append(passes[c][k].steps, step)) = Len(passes[c][k].steps) + 1
          /\ DOMAIN Append(passes[c][k].steps, step) = 1..(Len(passes[c][k].steps) + 1)
          /\ \A j \in DOMAIN passes[c][k].steps :
                Append(passes[c][k].steps, step)[j] = passes[c][k].steps[j]
          /\ Append(passes[c][k].steps, step)[Len(passes[c][k].steps) + 1] = step
      <3> HIDE DEF p
      <3> DEFINE q == passes[c][k].steps
      <3>1. q \in Seq(StepType)
        BY <2>3
      <3> HIDE DEF q
      <3>2. /\ Append(q, step) \in Seq(StepType)
            /\ Len(q) \in Nat
            /\ DOMAIN q = 1..Len(q)
            /\ Len(Append(q, step)) = Len(q) + 1
            /\ DOMAIN Append(q, step) = 1..(Len(q) + 1)
            /\ \A j \in DOMAIN q : Append(q, step)[j] = q[j]
            /\ Append(q, step)[Len(q) + 1] = step
        BY <1>5, <3>1, AppendElements
      <3> QED
        BY <3>2 DEF q
    <2>5. /\ p.steps = Append(passes[c][k].steps, step) /\ p.graph = passes[c][k].graph
          /\ p.before = passes[c][k].before /\ p.after = passes[c][k].after
      BY <2>2 DEF PassType
    <2>6. Recorded(c, control.s, step) = [passes[c] EXCEPT ![k] = p]
      BY <1>7, <2>1, <2>2 DEF Recorded, PassType
    <2> HIDE DEF p
    <2>7. /\ passes'[c] = [passes[c] EXCEPT ![k] = p]
          /\ \A d \in Captures \ {c} : passes'[d] = passes[d]
      BY <1>1, <1>3, <1>6, <2>6
    <2>8. /\ DOMAIN passes'[c] = DOMAIN passes[c] /\ passes'[c][k] = p
          /\ \A i \in DOMAIN passes[c] : i # k => passes'[c][i] = passes[c][i]
      BY <2>1, <2>7
    <2>9. Gained(passes[c], passes'[c], k, step)
      BY <2>1, <2>4, <2>5, <2>8 DEF Gained
    <2> QED
      BY <1>3, <1>7, <2>1, <2>7, <2>9 DEF c, k, step
  <1>8. CASE passStack[c] = <<>>
    <2> DEFINE new == NewPass(c, control.s, FALSE, step.pair)
               p == [new EXCEPT !.steps = <<step>>]
    <2>1. k = Len(passes[c]) + 1 /\ DOMAIN passes[c] = 1..Len(passes[c]) /\ Len(passes[c]) \in Nat
      BY <1>6, <1>8, LenProperties DEF CreditedTo
    <2>2. <<step>> \in Seq(StepType) /\ step.pair = control.pair
      BY <1>5 DEF StepOf, step
    <2>3. p \in PassType /\ new \in PassType
      BY <1>2, <1>3, <1>4, <2>2, NewPassType
    <2>4. new.graph = control.s /\ new.before = control.pair /\ new.after = {}
      BY <2>2 DEF NewPass
    <2>5. Recorded(c, control.s, step) = Append(passes[c], p)
      BY <1>8 DEF Recorded
    <2> HIDE DEF new
    <2>6. /\ p.steps = <<step>> /\ p.graph = control.s
          /\ p.before = control.pair /\ p.after = {}
      BY <2>3, <2>4 DEF PassType
    <2> HIDE DEF p, k
    <2>7. /\ passes'[c] = Append(passes[c], p)
          /\ \A d \in Captures \ {c} : passes'[d] = passes[d]
      BY <1>1, <1>3, <1>6, <2>5
    <2>8. /\ DOMAIN passes'[c] = 1..(Len(passes[c]) + 1) /\ passes'[c][k] = p
          /\ \A i \in DOMAIN passes[c] : passes'[c][i] = passes[c][i]
      BY <1>6, <2>1, <2>3, <2>7, AppendElements
    <2>9. Len(p.steps) = 1 /\ DOMAIN p.steps = 1..1 /\ p.steps[1] = step
      BY <2>6
    <2>10. Gained(passes[c], passes'[c], k, step) /\ k \notin DOMAIN passes[c]
      BY <2>1, <2>8, <2>9 DEF Gained
    <2> QED
      BY <1>3, <1>8, <2>6, <2>7, <2>8, <2>10 DEF c, k, step
  <1> QED
    BY <1>7, <1>8

(* While a rewrite returns through a capture that has a pass open, the     *)
(* last of these is the pass that made the rewrite.                        *)
LEMMA CreditedPass ==
    ASSUME WrapInv, NEW c \in Captures, TwoIn(stack, c), passStack[c] # <<>>
    PROVE  \E i \in OnceIn(stack, c) :
              /\ stack[i].at = CurrentPass(c)
              /\ running # <<>> /\ Last(running).s = stack[i].s
              /\ \E p \in DOMAIN stack : PassOf(stack, i, p) /\ stack[p].at = Len(running)
  <1> DEFINE stk == passStack[c]
  <1>1. TraceInv /\ TypeOK /\ FramesKnown /\ Wrapped(stack)
    BY DEF WrapInv, TraceInv
  <1>2. stk \in Seq(Nat) /\ Len(stk) \in DOMAIN stk /\ DOMAIN stk = 1..Len(stk) /\ Len(stk) \in Nat
    BY <1>1, FrontElements DEF TypeOK
  <1>3. Tracked(stack, stk, passes[c], c)
    BY <1>1, TrackedByCapture DEF TraceInv
  <1>4. PICK i \in OnceIn(stack, c) : stack[i].at = stk[Len(stk)]
    BY <1>2, <1>3 DEF Tracked
  <1>5. /\ Len(stack) \in Nat /\ DOMAIN stack = 1..Len(stack)
        /\ i \in DOMAIN stack /\ stack[i].kind = "once" /\ stack[i].capture = c
    BY <1>1, StackPositions DEF OnceIn
  <1>6. ASSUME NEW j \in OnceIn(stack, c), i < j PROVE FALSE
    <2>1. stack[i].at < stack[j].at
      BY <1>3, <1>6 DEF Tracked
    <2>2. PICK k \in DOMAIN stk : stk[k] = stack[j].at
      BY <1>3, <1>6 DEF Tracked
    <2>3. k < Len(stk) => stk[k] < stk[Len(stk)]
      BY <1>2, <1>3 DEF Tracked, Increasing
    <2>4. stk[k] \in Nat /\ stk[Len(stk)] \in Nat
      BY <1>2, ElementOfSeq
    <2> QED
      BY <1>2, <1>4, <2>1, <2>2, <2>3, <2>4
  <1>7. ~OnTop(stack, i)
    <2>1. PICK t \in DOMAIN stack : stack[t].kind = "two" /\ stack[t].capture = c
      BY DEF TwoIn
    <2>2. i < t
      BY <1>1, <1>5, <2>1 DEF Wrapped, TwosOnTop
    <2> QED
      BY <1>5, <2>1, <2>2 DEF OnTop, OnceBetween
  <1>8. PICK p \in DOMAIN stack : PassOf(stack, i, p)
    BY <1>1, <1>5, <1>7 DEF Wrapped, OnceGroups
  <1>9. PICK w \in DOMAIN stack : w < i /\ WithAt(stack, w) /\ stack[w].capture = c
    BY <1>1, <1>5 DEF Wrapped, WrappersInside
  <1>10. ASSUME NEW q \in DOMAIN stack, stack[q].kind = "pass", p < q PROVE FALSE
    <2>1. w < q /\ i < p /\ stack[p].kind = "pass"
      BY <1>5, <1>8, <1>9, <1>10 DEF PassOf
    <2>2. PICK o \in DOMAIN stack :
                /\ o < q /\ stack[o].capture = c
                /\ \A j \in DOMAIN stack : o <= j /\ j < q => stack[j].kind = "once"
      BY <1>1, <1>9, <1>10, <2>1 DEF Wrapped, PassesWatched
    <2>3. p < o
      BY <1>5, <1>10, <2>1, <2>2
    <2>4. o \in OnceIn(stack, c) /\ i < o
      BY <1>5, <2>1, <2>2, <2>3 DEF OnceIn
    <2> QED
      BY <1>6, <2>4
  <1>11. stack[p].kind = "pass" /\ stack[p].s = stack[i].s
    BY <1>8 DEF PassOf
  <1>12. /\ stack[p].at \in DOMAIN running /\ running[stack[p].at].s = stack[p].s
         /\ DOMAIN running = 1..Len(running) /\ Len(running) \in Nat
         /\ Len(running) \in DOMAIN running /\ running # <<>>
    <2>1. stack[p].at \in DOMAIN running /\ running[stack[p].at].s = stack[p].s
      BY <1>1, <1>11 DEF FramesKnown
    <2>2. running \in Seq(Pass)
      BY <1>1 DEF TypeOK, Pass
    <2> QED
      BY <2>1, <2>2, LenProperties, EmptySeq
  <1>13. PICK r \in DOMAIN stack : PassAt(r) /\ stack[r].at = Len(running)
    BY <1>1, <1>12 DEF FramesKnown
  <1>14. stack[p].at = Len(running)
    <2>1. r < p => stack[r].at < stack[p].at
      BY <1>1, <1>11, <1>13 DEF FramesKnown, PassAt
    <2>2. r <= p
      BY <1>5, <1>10, <1>13 DEF PassAt
    <2> QED
      BY <1>5, <1>12, <1>13, <2>1, <2>2
  <1> QED
    BY <1>4, <1>8, <1>11, <1>12, <1>14 DEF CurrentPass, Last

-----------------------------------------------------------------------------
(* Records stay right. *)

(* Entering a traced pass adds an empty record. *)
LEMMA PassBegun ==
    ASSUME TypeOK, EnterTracedOnce
    PROVE  LET c == control.to
               k == Len(passes[c]) + 1
           IN  /\ c \in Captures /\ control.s \in Schedulers
               /\ \A d \in Captures \ {c} : passes'[d] = passes[d]
               /\ \A i \in DOMAIN passes[c] : i \in DOMAIN passes'[c] /\ passes'[c][i] = passes[c][i]
               /\ \A i \in DOMAIN passes'[c] : i \in DOMAIN passes[c] \/ i = k
               /\ k \in DOMAIN passes'[c] /\ k \notin DOMAIN passes[c]
               /\ passes'[c][k].steps = <<>> /\ passes'[c][k].graph = control.s
               /\ passes'[c][k].before = live[control.s] /\ passes'[c][k].after = {}
  <1> DEFINE c == control.to
             p == NewPass(c, control.s, control.reorder, live[control.s])
  <1>1. /\ control.mode = "call" /\ control.fn = "once" /\ c \in Captures
        /\ passes' = [passes EXCEPT ![c] = Append(@, p)]
    BY DEF EnterTracedOnce
  <1>2. /\ control.s \in Schedulers /\ control.reorder \in BOOLEAN
        /\ live[control.s] \in NodeList
    BY <1>1, ControlCases DEF TypeOK
  <1>3. p \in PassType /\ p.index = Len(passes[c]) + 1
    BY <1>1, <1>2, NewPassType, EmptySeq, ZenonT(60)
  <1>4. /\ p.steps = <<>> /\ p.graph = control.s /\ p.before = live[control.s] /\ p.after = {}
    BY DEF NewPass
  <1> HIDE DEF p
  <1>5. /\ passes'[c] = Append(passes[c], p) /\ passes'[c][Len(passes[c]) + 1] = p
        /\ \A d \in Captures \ {c} : passes'[d] = passes[d]
        /\ \A i \in DOMAIN passes[c] : passes'[c][i] = passes[c][i]
    BY <1>1, <1>3, PassAppended
  <1>6. /\ passes[c] \in Seq(PassType) /\ Len(passes[c]) \in Nat
        /\ DOMAIN passes[c] = 1..Len(passes[c])
        /\ DOMAIN passes'[c] = 1..(Len(passes[c]) + 1)
    BY <1>1, <1>3, <1>5, AppendElements DEF TypeOK
  <1> QED
    BY <1>1, <1>2, <1>4, <1>5, <1>6

(* Leaving it fills in how it ended, and nothing else. *)
LEMMA PassFinished ==
    ASSUME TraceInv, ReturnTracedOnce
    PROVE  LET c == Top.capture
               k == Top.at
           IN  /\ c \in Captures /\ k \in DOMAIN passes[c]
               /\ \A d \in Captures \ {c} : passes'[d] = passes[d]
               /\ DOMAIN passes'[c] = DOMAIN passes[c]
               /\ \A i \in DOMAIN passes[c] : i # k => passes'[c][i] = passes[c][i]
               /\ passes'[c][k].steps = passes[c][k].steps
               /\ passes'[c][k].graph = passes[c][k].graph
               /\ passes'[c][k].before = passes[c][k].before
               /\ passes'[c][k].after = control.result
  <1> DEFINE c == Top.capture
             k == Top.at
             p == [passes[c][k] EXCEPT !.after = control.result]
  <1>1. TopIs("once") /\ passes' = [passes EXCEPT ![c][k].after = control.result]
    BY DEF ReturnTracedOnce
  <1>2. c \in Captures /\ k \in DOMAIN passes[c]
    BY <1>1, TopOnce DEF TraceInv
  <1>3. passes \in [Captures -> Seq(PassType)] /\ passes[c] \in Seq(PassType)
    BY <1>2 DEF TraceInv, TypeOK
  <1>4. passes[c][k] \in PassType
    BY <1>2, <1>3, LenProperties, ElementOfSeq
  <1>5. /\ p.steps = passes[c][k].steps /\ p.graph = passes[c][k].graph
        /\ p.before = passes[c][k].before /\ p.after = control.result
    BY <1>4 DEF PassType
  <1>6. passes' = [passes EXCEPT ![c] = [passes[c] EXCEPT ![k] = p]]
    BY <1>1, <1>2, <1>3
  <1> HIDE DEF p, c, k
  <1>7. /\ passes'[c] = [passes[c] EXCEPT ![k] = p]
        /\ \A d \in Captures \ {c} : passes'[d] = passes[d]
    BY <1>2, <1>3, <1>6
  <1> QED
    BY <1>2, <1>5, <1>7 DEF c, k

(* Every step keeps the records of each capture. *)
LEMMA RecordStep ==
    ASSUME RecordInv, WrapInv', [Next]_vars, NEW c \in Captures
    PROVE  RecordsIn(c, passes'[c], happened', Unrecorded(stack', control', c))
  <1>a. /\ WrapInv /\ TraceInv /\ TypeOK /\ TypeOK' /\ Wrapped(stack) /\ LastRewrite
        /\ control \in ControlType
    BY DEF RecordInv, WrapInv, TraceInv, TypeOK
  <1>b. RecordsIn(c, passes[c], happened, Unrecorded(stack, control, c))
    BY DEF RecordInv
  <1>c. /\ Run.mode # "return" /\ Raising.mode # "return"
        /\ ~TopIs("two") => ~TwoIn(stack, c)
        /\ \A s : FusedNodes(s) = ListOf(running, live, s)
    BY <1>a, TwosAreOnTop, NodesByList DEF Run, Raising
  <1>1. ASSUME StepsKept(passes[c], passes'[c]), happened' = happened,
               Unrecorded(stack', control', c) <=> Unrecorded(stack, control, c)
        PROVE  RecordsIn(c, passes'[c], happened', Unrecorded(stack', control', c))
    BY <1>1, <1>b, RecordsKept
  <1>2. ASSUME passes' = passes, happened' = happened,
               Unrecorded(stack', control', c) <=> Unrecorded(stack, control, c)
        PROVE  RecordsIn(c, passes'[c], happened', Unrecorded(stack', control', c))
    BY <1>1, <1>2 DEF StepsKept
  <1>3. ASSUME passes' = passes, happened' = happened,
               control.mode # "return" \/ control.fn # "two" \/ ~TopIs("two"),
               control'.mode # "return" \/ control'.fn # "two"
        PROVE  RecordsIn(c, passes'[c], happened', Unrecorded(stack', control', c))
    BY <1>2, <1>3, <1>c DEF Unrecorded
  <1>4. CASE EnterTracedOnce
    <2>1. /\ control.mode = "call" /\ control.to \in Captures /\ happened' = happened
          /\ control' = [control EXCEPT !.to = original[control.to]]
      BY <1>4 DEF EnterTracedOnce, Callee
    <2>2. control'.mode = "call"
      BY <1>a, <2>1 DEF ControlType, Run, Raising
    <2>3. StepsKept(passes[c], passes'[c])
      <3>1. CASE c = control.to
        BY <1>4, <1>a, <3>1, PassBegun DEF StepsKept
      <3>2. CASE c # control.to
        BY <1>4, <1>a, <3>2, PassBegun DEF StepsKept
      <3> QED
        BY <3>1, <3>2
    <2> QED
      BY <1>1, <2>1, <2>2, <2>3 DEF Unrecorded
  <1>5. CASE EnterTracedTwo
    <2>1. /\ control.mode = "call" /\ control.to \in Captures
          /\ happened' = happened /\ passes' = passes
          /\ control' = [control EXCEPT !.to = original[control.to]]
      BY <1>5 DEF EnterTracedTwo, Callee, tracers
    <2>2. control'.mode = "call"
      BY <1>a, <2>1 DEF ControlType, Run, Raising
    <2> QED
      BY <1>3, <2>1, <2>2
  <1>6. CASE EnterPlainTwo
    <2>1. /\ control.mode = "call" /\ stack' = stack /\ passes' = passes
          /\ control'.mode = "return" /\ control'.fn = "two"
          /\ TwoIn(stack, c) <=> c \in OpenCaptures
      BY <1>6, <1>a, RewriteMade, RewriteLogged
    <2>2. Unrecorded(stack', control', c) <=> c \in OpenCaptures
      BY <2>1 DEF Unrecorded
    <2>3. RecordsIn(c, passes[c], happened, FALSE)
      <3>1. ~Unrecorded(stack, control, c)
        BY <2>1 DEF Unrecorded
      <3> QED
        BY <1>b, <3>1 DEF RecordsIn
    <2>4. CASE OpenCaptures = {}
      <3>1. happened' = happened /\ ~Unrecorded(stack', control', c)
        BY <1>6, <1>a, <2>2, <2>4, RewriteLogged
      <3> QED
        BY <2>1, <2>3, <3>1 DEF RecordsIn
    <2>5. CASE OpenCaptures # {}
      <3>1. /\ Len(happened) \in Nat /\ DOMAIN happened = 1..Len(happened)
            /\ Len(happened') = Len(happened) + 1
            /\ DOMAIN happened' = 1..(Len(happened) + 1)
            /\ \A n \in DOMAIN happened : happened'[n] = happened[n]
            /\ happened'[Len(happened')].seen = OpenCaptures
        BY <1>6, <1>a, <2>5, RewriteLogged
      <3>2. Unrecorded(stack', control', c) <=> c \in happened'[Len(happened')].seen
        BY <2>2, <3>1
      <3>3. RecordsIn(c, passes[c], happened', Unrecorded(stack', control', c))
        BY <2>3, <3>1, <3>2, RecordsLater
      <3> QED
        BY <2>1, <3>3
    <2> QED
      BY <2>4, <2>5
  <1>7. CASE ReturnTracedOnce
    <2>1. /\ control.fn = "once" /\ control' = control /\ happened' = happened
      BY <1>7, <1>a, TopReturnsTwo DEF ReturnTracedOnce
    <2>2. StepsKept(passes[c], passes'[c])
      <3>1. CASE c = Top.capture
        <4>1. \A i \in DOMAIN passes[c] : i = Top.at \/ i # Top.at
          OBVIOUS
        <4> QED
          BY <1>7, <1>a, <3>1, <4>1, PassFinished DEF StepsKept
      <3>2. CASE c # Top.capture
        BY <1>7, <1>a, <3>2, PassFinished DEF StepsKept
      <3> QED
        BY <3>1, <3>2
    <2> QED
      BY <1>1, <2>1, <2>2 DEF Unrecorded
  <1>8. CASE ReturnTracedTwo
    <2> DEFINE k == CreditedTo(c)
               step == StepOf(control.s, control.pair, control.result)
    <2>1. /\ TopIs("two") /\ control.mode = "return" /\ control.fn = "two"
          /\ control' = control /\ happened' = happened /\ stack # <<>> /\ stack' = Front(stack)
      BY <1>8, <1>a, TopReturnsTwo DEF ReturnTracedTwo, AfterRendering, TopIs
    <2>2. /\ Len(stack) \in Nat \ {0} /\ DOMAIN stack = 1..Len(stack)
          /\ DOMAIN stack' = 1..(Len(stack) - 1)
          /\ \A i \in DOMAIN stack' : stack'[i] = stack[i] /\ i \in DOMAIN stack
          /\ Top = stack[Len(stack)] /\ Len(stack) \in DOMAIN stack
      BY <1>a, <2>1, PoppedTop
    <2>3. CASE c # Top.capture
      <3>1. passes'[c] = passes[c]
        BY <1>8, <1>a, <2>3, StepAdded
      <3>2. TwoIn(stack', c) <=> TwoIn(stack, c)
        <4>1. ASSUME TwoIn(stack, c) PROVE TwoIn(stack', c)
          <5>1. PICK i \in DOMAIN stack : stack[i].kind = "two" /\ stack[i].capture = c
            BY <4>1 DEF TwoIn
          <5>2. i \in DOMAIN stack'
            BY <2>2, <2>3, <5>1
          <5> QED
            BY <2>2, <5>1, <5>2 DEF TwoIn
        <4> QED
          BY <2>2, <4>1 DEF TwoIn
      <3> QED
        BY <1>1, <2>1, <3>1, <3>2 DEF StepsKept, Unrecorded
    <2>4. CASE c = Top.capture
      <3>1. TwoIn(stack, c)
        BY <2>1, <2>2, <2>4 DEF TwoIn, TopIs
      <3>2. ~TwoIn(stack', c)
        <4> SUFFICES ASSUME NEW i \in DOMAIN stack', stack'[i].kind = "two",
                            stack'[i].capture = c
                     PROVE  FALSE
          BY DEF TwoIn
        <4>1. /\ i \in DOMAIN stack /\ i < Len(stack)
              /\ stack[i].kind = "two" /\ stack[i].capture = c
              /\ stack[Len(stack)].kind = "two" /\ stack[Len(stack)].capture = c
          BY <2>1, <2>2, <2>4 DEF TopIs
        <4>2. i = Len(stack)
          BY <1>a, <2>2, <4>1 DEF Wrapped, TwosOnTop
        <4> QED
          BY <2>2, <4>1, <4>2
      <3>3. RecordsIn(c, passes[c], happened, TRUE)
        BY <1>b, <2>1, <3>1 DEF RecordsIn, Unrecorded
      <3>4. /\ Gained(passes[c], passes'[c], k, step)
            /\ passStack[c] # <<>> => k \in DOMAIN passes[c]
            /\ passStack[c] = <<>> => passes'[c][k].graph = control.s
        BY <1>8, <1>a, <2>4, StepAdded
      <3>5. passes'[c][k].graph = control.s
        <4>1. CASE passStack[c] # <<>>
          <5>1. PICK i \in OnceIn(stack, c) :
                      /\ stack[i].at = CurrentPass(c)
                      /\ running # <<>> /\ Last(running).s = stack[i].s
            BY <1>a, <3>1, <4>1, CreditedPass
          <5>2. Tracked(stack, passStack[c], passes[c], c)
            BY <1>a, TrackedByCapture DEF TraceInv
          <5>3. passes[c][k].graph = stack[i].s
            BY <4>1, <5>1, <5>2 DEF Tracked, CreditedTo
          <5>4. Last(running).s = control.s
            BY <1>a, <2>1, <5>1 DEF LastRewrite
          <5> QED
            BY <3>4, <4>1, <5>1, <5>3, <5>4 DEF Gained
        <4> QED
          BY <3>4, <4>1
      <3>6. /\ happened # <<>>
            /\ EventIs(happened[Len(happened)], control, ListOf(running, live, control.s), loops)
            /\ c \in happened[Len(happened)].seen
        BY <1>a, <2>1, <3>1 DEF LastRewrite
      <3>7. Len(happened) \in DOMAIN happened
        <4>1. happened \in Seq(Event)
          BY <1>a DEF TypeOK, Event
        <4> QED
          BY <3>6, <4>1, FrontElements
      <3>8. step.n = Len(happened)
        BY DEF StepOf
      <3>9. StepRight(happened, step, passes'[c][k].graph)
        BY <1>c, <3>5, <3>6 DEF StepRight, StepOf, LiveNodes, EventIs
      <3>10. SeenBy(happened, c, Len(happened))
        BY <3>6, <3>7 DEF SeenBy
      <3> HIDE DEF k, step
      <3>11. RecordsIn(c, passes'[c], happened, FALSE)
        BY <3>3, <3>4, <3>8, <3>9, <3>10, RecordsGain
      <3> QED
        BY <2>1, <3>2, <3>11 DEF RecordsIn, Unrecorded
    <2> QED
      BY <2>3, <2>4
  <1>9. CASE UNCHANGED vars
    BY <1>2, <1>9 DEF vars, tracers
  <1>10. CASE \/ \E s \in Schedulers, reorder \in BOOLEAN : CallOnce(s, reorder)
              \/ \E s \in Schedulers, n1, n2 \in SUBSET Atoms : CallTwo(s, n1, n2)
    BY <1>3, <1>10, <1>c DEF CallOnce, CallTwo, tracers
  <1>11. CASE \/ \E d \in Captures : OpenCapture(d)
              \/ \E a \in Atoms : ReorderLoops(a)
              \/ CloseCapture \/ EnterPlainOnce \/ EndPass \/ ReturnToCaller \/ Throw
              \/ UnwindTracedOnce \/ UnwindPlain \/ Catch
    BY <1>3, <1>11, <1>c
    DEF OpenCapture, CloseCapture, EnterPlainOnce, ReorderLoops, EndPass, ReturnToCaller,
        Throw, UnwindTracedOnce, UnwindPlain, Catch, tracers, Raising
  <1> QED
    BY <1>4, <1>5, <1>6, <1>7, <1>8, <1>9, <1>10, <1>11 DEF Next, Finished

-----------------------------------------------------------------------------
(* The invariant of records. *)

(* The invariant is its parts. *)
LEMMA WrapByParts == (WrapInv <=> TraceInv /\ WrapHolds) /\ (WrapInv' <=> TraceInv' /\ WrapHolds')
  BY DEF WrapInv, WrapHolds

(* The invariant of the records holds at first. *)
LEMMA RecordInvInit == Init => RecordInv
  <1> SUFFICES ASSUME Init PROVE RecordInv
    OBVIOUS
  <1>1. TraceInv
    BY TraceInvInit
  <1>2. /\ stack = <<>> /\ control = Run /\ happened = <<>>
        /\ \A c \in Captures : passes[c] = <<>>
    BY DEF Init
  <1>3. Wrapped(stack)
    BY <1>2 DEF Wrapped, WrappersInside, TwosOnTop, OnceGroups, PassesWatched
  <1>4. control.mode = "run"
    BY <1>2 DEF Run
  <1>5. \A c \in Captures :
           RecordsIn(c, passes[c], happened, Unrecorded(stack, control, c))
    BY <1>2 DEF RecordsIn
  <1> QED
    BY <1>1, <1>3, <1>4, <1>5 DEF RecordInv, WrapInv, LastRewrite

(* Every step keeps it. *)
LEMMA RecordInvStep == RecordInv /\ [Next]_vars => RecordInv'
  <1> SUFFICES ASSUME RecordInv, [Next]_vars PROVE RecordInv'
    OBVIOUS
  <1>1. TraceInv'
    BY TraceInvStep DEF RecordInv, WrapInv
  <1>2. WrapInv'
    BY <1>1, WrapStep, WrapByParts DEF RecordInv
  <1>3. LastRewrite'
    BY <1>2, LastRewriteStep DEF RecordInv
  <1>4. \A c \in Captures :
           RecordsIn(c, passes'[c], happened', Unrecorded(stack', control', c))
    BY <1>2, RecordStep
  <1> QED
    BY <1>2, <1>3, <1>4 DEF RecordInv

(* It holds in every state. *)
LEMMA RecordInvariant == Spec => []RecordInv
  BY RecordInvInit, RecordInvStep, PTL DEF Spec

(* Then every rewrite is recorded once. *)
LEMMA RecordsAreComplete == RecordInv => EveryRewriteOnce
  <1> SUFFICES ASSUME RecordInv, control.mode = "run", NEW c \in Captures
               PROVE  LET seen == {n \in DOMAIN happened : c \in happened[n].seen} IN
                      /\ {StepAt(c, at).n : at \in StepsOf(c)} = seen
                      /\ \A at1, at2 \in StepsOf(c) :
                            StepAt(c, at1).n = StepAt(c, at2).n => at1 = at2
                      /\ \A at \in StepsOf(c) :
                            LET step == StepAt(c, at)
                                event == happened[step.n]
                            IN  /\ passes[c][at[1]].graph = event.s
                                /\ step.pair = event.pair /\ step.live = event.live
                                /\ step.loop_ir = IF Renders(step.result) THEN event.loops
                                                  ELSE None
    BY DEF EveryRewriteOnce
  <1> DEFINE ps == passes[c]
  <1>1. RecordsIn(c, ps, happened, FALSE)
    <2>1. ~Unrecorded(stack, control, c)
      BY DEF Unrecorded
    <2> QED
      BY <2>1 DEF RecordInv, RecordsIn
  <1>2. \A at : at \in StepsOf(c) <=>
           \E i \in DOMAIN ps : \E j \in DOMAIN ps[i].steps : at = <<i, j>>
    BY DEF StepsOf
  <1>3. ASSUME NEW at \in StepsOf(c)
        PROVE  \E i \in DOMAIN ps : \E j \in DOMAIN ps[i].steps :
                  /\ at = <<i, j>> /\ at[1] = i
                  /\ StepAt(c, at) = ps[i].steps[j]
    BY <1>2 DEF StepAt
  <1>4. ASSUME NEW i \in DOMAIN ps, NEW j \in DOMAIN ps[i].steps
        PROVE  <<i, j>> \in StepsOf(c) /\ StepAt(c, <<i, j>>) = ps[i].steps[j]
    BY <1>2 DEF StepAt
  <1> HIDE DEF ps
  <1>5. {StepAt(c, at).n : at \in StepsOf(c)} = {n \in DOMAIN happened : c \in happened[n].seen}
    <2>1. ASSUME NEW at \in StepsOf(c)
          PROVE  SeenBy(happened, c, StepAt(c, at).n)
      BY <1>1, <1>3 DEF RecordsIn
    <2>2. ASSUME NEW n \in DOMAIN happened, c \in happened[n].seen
          PROVE  \E at \in StepsOf(c) : StepAt(c, at).n = n
      <3>1. PICK i \in DOMAIN ps : \E j \in DOMAIN ps[i].steps : ps[i].steps[j].n = n
        BY <1>1, <2>2 DEF RecordsIn, SeenBy
      <3>2. PICK j \in DOMAIN ps[i].steps : ps[i].steps[j].n = n
        BY <3>1
      <3> QED
        BY <1>4, <3>2
    <2> QED
      BY <2>1, <2>2 DEF SeenBy
  <1>6. \A at1, at2 \in StepsOf(c) : StepAt(c, at1).n = StepAt(c, at2).n => at1 = at2
    BY <1>1, <1>3 DEF RecordsIn
  <1>7. ASSUME NEW at \in StepsOf(c)
        PROVE  StepRight(happened, StepAt(c, at), passes[c][at[1]].graph)
    BY <1>1, <1>3 DEF RecordsIn, ps
  <1> QED
    BY <1>5, <1>6, <1>7 DEF StepRight

(* No capture loses a rewrite, records one twice, or credits it to a pass  *)
(* of another scheduler: however captures, passes and exceptions are       *)
(* nested, and for any number of each (traced_fuse_two_nodes,              *)
(* fusion_trace.py:119).                                                   *)
THEOREM RewritesRecordedOnce == Spec => []EveryRewriteOnce
  BY RecordInvariant, RecordsAreComplete, PTL

-----------------------------------------------------------------------------
(* Wrappers and their passes, when the stack grows or shrinks. *)

(* Which pass a frame belongs to when a frame is pushed. *)
LEMMA PassOfGrown ==
    ASSUME NEW q, NEW r, NEW f, Grown(q, r, f)
    PROVE  /\ \A i, p \in DOMAIN q : PassOf(r, i, p) <=> PassOf(q, i, p)
           /\ \A i \in DOMAIN q : OnTop(r, i) => f.kind = "once" /\ OnTop(q, i)
           /\ \A i \in DOMAIN q : PassOf(r, i, Len(r)) =>
                 f.kind = "pass" /\ f.s = q[i].s /\ OnTop(q, i)
           /\ \A p \in DOMAIN r : ~PassOf(r, Len(r), p)
           /\ OnTop(r, Len(r))
  <1>1. /\ \A i \in DOMAIN r : i \in DOMAIN q \/ i = Len(r)
        /\ \A i \in DOMAIN q : i \in DOMAIN r /\ i < Len(r) /\ i \in Int
        /\ Len(r) \in DOMAIN r /\ Len(r) \in Int
        /\ \A i \in DOMAIN r : i <= Len(r) /\ i \in Int
        /\ r[Len(r)] = f /\ \A i \in DOMAIN q : r[i] = q[i]
    BY GrownPositions
  <1>2. Len(r) = Len(q) + 1 /\ Len(q) \in Nat
    BY DEF Grown
  <1>3. \A i, p \in DOMAIN q : PassOf(r, i, p) <=> PassOf(q, i, p)
    BY <1>1 DEF PassOf, OnceBetween
  <1>4. ASSUME NEW i \in DOMAIN q, OnTop(r, i)
        PROVE  f.kind = "once" /\ OnTop(q, i)
    BY <1>1, <1>2, <1>4 DEF OnTop, OnceBetween
  <1>5. ASSUME NEW i \in DOMAIN q, PassOf(r, i, Len(r))
        PROVE  f.kind = "pass" /\ f.s = q[i].s /\ OnTop(q, i)
    BY <1>1, <1>2, <1>5 DEF PassOf, OnTop, OnceBetween
  <1>6. \A p \in DOMAIN r : ~PassOf(r, Len(r), p)
    BY <1>1 DEF PassOf
  <1>7. OnTop(r, Len(r))
    BY <1>1 DEF OnTop, OnceBetween
  <1> QED
    BY <1>3, <1>4, <1>5, <1>6, <1>7

(* Which pass it belongs to when the top is popped. *)
LEMMA PassOfShrunk ==
    ASSUME NEW q, NEW r, Shrunk(q, r)
    PROVE  /\ \A i, p \in DOMAIN r : PassOf(r, i, p) <=> PassOf(q, i, p)
           /\ \A i \in DOMAIN r : OnTop(r, i) =>
                 \A j \in DOMAIN q : i < j /\ j < Len(q) =>
                    q[j].kind = "once" /\ q[j].s = q[i].s /\ q[j].capture # q[i].capture
  <1>1. /\ \A i \in DOMAIN q : /\ i \in DOMAIN r \/ i = Len(q)
                               /\ i <= Len(q) /\ i \in Int
        /\ \A i \in DOMAIN r : i \in DOMAIN q /\ i < Len(q) /\ r[i] = q[i]
        /\ Len(q) \in DOMAIN q /\ Len(r) + 1 = Len(q)
    BY ShrunkPositions
  <1> QED
    BY <1>1 DEF PassOf, OnTop, OnceBetween

(* A traced pass with only wrappers above has one of them on top. *)
LEMMA OnTopIsTop ==
    ASSUME NEW q, NEW i \in DOMAIN q, DOMAIN q = 1..Len(q), Len(q) \in Nat,
           q[i].kind = "once", OnTop(q, i)
    PROVE  q[Len(q)].kind = "once" /\ q[Len(q)].s = q[i].s /\ q # <<>>
  BY DEF OnTop, OnceBetween

(* A frame belongs to one pass. *)
LEMMA OnePass ==
    ASSUME NEW q, NEW i \in DOMAIN q, NEW p \in DOMAIN q, NEW r \in DOMAIN q,
           DOMAIN q = 1..Len(q), PassOf(q, i, p), PassOf(q, i, r)
    PROVE  p = r
  BY DEF PassOf, OnceBetween

(* A pass has one frame per capture. *)
LEMMA OneWrapper ==
    ASSUME NEW q, NEW i \in DOMAIN q, NEW j \in DOMAIN q, NEW p \in DOMAIN q,
           DOMAIN q = 1..Len(q), PassOf(q, i, p), PassOf(q, j, p),
           q[i].capture = q[j].capture
    PROVE  i = j
  BY DEF PassOf, OnceBetween

(* new is pass with one more step.                                         *)
Extended(pass, new, step) ==
    /\ new.before = pass.before
    /\ Len(new.steps) \in Nat \ {0} /\ DOMAIN new.steps = 1..Len(new.steps)
    /\ new.steps[Len(new.steps)] = step
    /\ Len(pass.steps) = Len(new.steps) - 1
    /\ DOMAIN pass.steps = 1..(Len(new.steps) - 1)
    /\ \A j \in DOMAIN pass.steps : new.steps[j] = pass.steps[j]

(* A record that replays still does with the step that was made. *)
LEMMA ReplaysGain ==
    ASSUME NEW pass, NEW new, NEW step, Replays(pass), Extended(pass, new, step),
           step.live = FusePair(EndOf(pass), step.pair)
    PROVE  Replays(new) /\ EndOf(new) = step.live
  <1> USE DEF Extended
  <1> DEFINE m == Len(new.steps)
  <1>1. \A j \in 0..(m - 1) : ListAfter(new, j) = ListAfter(pass, j)
    BY DEF ListAfter
  <1>2. ASSUME NEW j \in DOMAIN new.steps
        PROVE  new.steps[j].live = FusePair(ListAfter(new, j - 1), new.steps[j].pair)
    <2>1. ListAfter(new, j - 1) = ListAfter(pass, j - 1)
      BY <1>1
    <2>2. CASE j = m
      BY <2>1, <2>2 DEF EndOf
    <2>3. CASE j # m
      <3>1. j \in DOMAIN pass.steps
        BY <2>3
      <3> QED
        BY <2>1, <3>1 DEF Replays
    <2> QED
      BY <2>2, <2>3
  <1>3. EndOf(new) = step.live
    BY DEF EndOf, ListAfter
  <1> QED
    BY <1>2, <1>3 DEF Replays

(* Replaying depends on where the pass began and on its steps. *)
LEMMA ReplaysSame ==
    ASSUME NEW pass, NEW new, new.before = pass.before, new.steps = pass.steps
    PROVE  (Replays(new) <=> Replays(pass)) /\ EndOf(new) = EndOf(pass)
  <1>1. \A k : ListAfter(new, k) = ListAfter(pass, k)
    BY DEF ListAfter
  <1> QED
    BY <1>1 DEF Replays, EndOf

-----------------------------------------------------------------------------
(* Passes stay explained by their steps. *)

(* Nothing is being recorded, and nothing is called or returned to a       *)
(* wrapper of fuse_nodes_once.                                             *)
Idle(q, k) ==
    /\ \A c \in Captures : ~Unrecorded(q, k, c)
    /\ \A i \in DOMAIN q : q[i].kind = "once" /\ OnTop(q, i) => k.mode \notin {"call", "return"}

(* A wrapper that stays on the stack keeps its pass, with the same list.   *)
SamePass(q, r, i) ==
    /\ i \in DOMAIN q /\ r[i] = q[i]
    /\ \A p \in DOMAIN r : PassOf(r, i, p) =>
          /\ p \in DOMAIN q /\ r[p] = q[p] /\ PassOf(q, i, p)
          /\ running'[q[p].at].fused = running[q[p].at].fused

(* An open pass replays when nothing about it changes. *)
LEMMA OpenPassKept ==
    ASSUME OpenReplay, NEW i \in DOMAIN stack', stack'[i].kind = "once",
           SamePass(stack, stack', i),
           NEW new, new = passes[stack[i].capture][stack[i].at],
           ~Unrecorded(stack, control, stack[i].capture),
           ~Unrecorded(stack', control', stack[i].capture),
           OnTop(stack', i) =>
              /\ control'.mode = "call" => EndOf(new) = live'[stack[i].s]
              /\ control'.mode = "return" => EndOf(new) = control'.result
    PROVE  OpenPassReplays(stack', i, new, running', live', control')
  <1>1. OpenPassReplays(stack, i, new, running, live, control)
    BY DEF OpenReplay, SamePass
  <1>2. stack'[i] = stack[i]
    BY DEF SamePass
  <1>3. ASSUME NEW p \in DOMAIN stack', PassOf(stack', i, p)
        PROVE  running'[stack'[p].at].fused = EndOf(new)
    <2>1. /\ p \in DOMAIN stack /\ stack'[p] = stack[p] /\ PassOf(stack, i, p)
          /\ running'[stack[p].at].fused = running[stack[p].at].fused
      BY <1>3 DEF SamePass
    <2>2. running[stack[p].at].fused = EndOf(new)
      BY <1>1, <2>1 DEF OpenPassReplays
    <2> QED
      BY <2>1, <2>2
  <1>4. new.after = {} /\ Replays(new)
    BY <1>1 DEF OpenPassReplays
  <1> QED
    BY <1>2, <1>3, <1>4 DEF OpenPassReplays

(* So do all when a step records nothing. *)
LEMMA QuietReplay ==
    ASSUME ReplayInv, UNCHANGED passes,
           \A i \in DOMAIN stack' : stack'[i].kind = "once" => SamePass(stack, stack', i),
           \A i \in DOMAIN stack' : stack'[i].kind = "once" => stack'[i].capture \in Captures,
           \A c \in Captures : ~Unrecorded(stack, control, c),
           Idle(stack', control')
    PROVE  OpenReplay' /\ \A c \in Captures : FinishedReplay(passes'[c])
  <1>1. ASSUME NEW i \in DOMAIN stack', stack'[i].kind = "once"
        PROVE  OpenPassReplays(stack', i, passes'[stack'[i].capture][stack'[i].at],
                               running', live', control')
    <2> DEFINE new == passes[stack[i].capture][stack[i].at]
    <2>1. SamePass(stack, stack', i) /\ stack'[i] = stack[i] /\ stack[i].capture \in Captures
      BY <1>1 DEF SamePass
    <2>2. /\ ~Unrecorded(stack, control, stack[i].capture)
          /\ ~Unrecorded(stack', control', stack[i].capture)
          /\ OnTop(stack', i) => control'.mode # "call" /\ control'.mode # "return"
      BY <1>1, <2>1 DEF Idle
    <2> HIDE DEF new
    <2>3. OpenPassReplays(stack', i, new, running', live', control')
      BY <1>1, <2>1, <2>2, OpenPassKept DEF ReplayInv, new
    <2> QED
      BY <2>1, <2>3 DEF new
  <1> QED
    BY <1>1 DEF OpenReplay, ReplayInv

(* Nothing waits to be recorded unless a rewrite is returning. *)
LEMMA NothingUnrecorded ==
    ASSUME TraceInv, Wrapped(stack),
           control.mode # "return" \/ control.fn # "two" \/ ~TopIs("two")
    PROVE  \A c \in Captures : ~Unrecorded(stack, control, c)
  BY TwosAreOnTop DEF Unrecorded

(* The list of a pass that is still open is not that of the innermost one. *)
LEMMA InnermostList ==
    ASSUME TraceInv, TopIs("pass"), NEW p \in DOMAIN stack, p # Len(stack),
           stack[p].kind = "pass", running' = Front(running)
    PROVE  running'[stack[p].at] = running[stack[p].at]
  <1>1. /\ TypeOK /\ FramesKnown
        /\ Len(stack) \in Nat /\ DOMAIN stack = 1..Len(stack)
        /\ Top = stack[Len(stack)] /\ Len(stack) \in DOMAIN stack
    BY StackPositions DEF TraceInv, TopIs
  <1>2. running # <<>> /\ Top.at = Len(running)
    BY <1>1, TopPass
  <1>3. stack[p].at < stack[Len(stack)].at
    BY <1>1 DEF FramesKnown, PassAt, TopIs
  <1>4. stack[p].at \in DOMAIN running /\ running \in Seq(Pass)
    BY <1>1 DEF FramesKnown, TypeOK, Pass
  <1>5. /\ Len(running) \in Nat \ {0} /\ DOMAIN running = 1..Len(running)
        /\ \A j \in 1..(Len(running) - 1) : Front(running)[j] = running[j]
    BY <1>2, <1>4, FrontElements
  <1>6. stack[p].at \in 1..(Len(running) - 1)
    BY <1>1, <1>2, <1>3, <1>4, <1>5
  <1> QED
    BY <1>5, <1>6

(* The steps that neither begin, end nor extend a pass. *)
LEMMA ReplayQuiet ==
    ASSUME ReplayInv, RecordInv', [Next]_vars,
           ~EnterTracedOnce, ~EnterPlainOnce, ~EnterPlainTwo, ~EndPass,
           ~ReturnTracedOnce, ~ReturnTracedTwo
    PROVE  OpenReplay' /\ \A c \in Captures : FinishedReplay(passes'[c])
  <1>a. /\ TraceInv /\ TypeOK /\ Wrapped(stack) /\ StackShape /\ FramesKnown
        /\ TraceInv' /\ TypeOK' /\ Wrapped(stack') /\ StackShape' /\ FramesKnown'
        /\ control \in ControlType
    BY DEF ReplayInv, RecordInv, WrapInv, TraceInv, TypeOK
  <1>b. /\ Len(stack) \in Nat /\ DOMAIN stack = 1..Len(stack)
        /\ stack # <<>> => Top = stack[Len(stack)]
    BY <1>a, StackPositions
  <1>c. /\ Run.mode = "run" /\ Raising.mode = "raise"
        /\ control = Run => ~TopIs("once") /\ ~TopIs("two")
    BY <1>a DEF StackShape, Doing, Run, Raising
  <1>d. /\ \A i \in DOMAIN stack : stack[i].kind = "once" => stack[i].capture \in Captures
        /\ \A i \in DOMAIN stack' : stack'[i].kind = "once" => stack'[i].capture \in Captures
    BY <1>a DEF FramesKnown
  <1>e. ASSUME NEW i \in DOMAIN stack, stack[i].kind = "once", OnTop(stack, i)
        PROVE  TopIs("once")
    BY <1>b, <1>e, OnTopIsTop DEF TopIs
  <1>1. ASSUME UNCHANGED <<stack, passes, running>>,
               control.mode # "return" \/ ~TopIs("two"),
               control'.mode # "return", control'.mode # "call" \/ ~TopIs("once")
        PROVE  OpenReplay' /\ \A c \in Captures : FinishedReplay(passes'[c])
    <2>1. \A c \in Captures : ~Unrecorded(stack, control, c)
      BY <1>1, <1>a, NothingUnrecorded
    <2>2. Idle(stack', control')
      BY <1>1, <1>e DEF Idle, Unrecorded
    <2>3. \A i \in DOMAIN stack' : stack'[i].kind = "once" => SamePass(stack, stack', i)
      BY <1>1 DEF SamePass
    <2> QED
      BY <1>1, <1>d, <2>1, <2>2, <2>3, QuietReplay
  <1>2. ASSUME NEW f \in FrameType, f.kind \in {"with", "two"}, stack' = Append(stack, f),
               UNCHANGED <<passes, running>>, control.mode # "return",
               control'.mode # "return"
        PROVE  OpenReplay' /\ \A c \in Captures : FinishedReplay(passes'[c])
    <2>1. Grown(stack, stack', f)
      BY <1>2, <1>a, StackGrown
    <2>2. /\ \A i \in DOMAIN stack' : i \in DOMAIN stack \/ i = Len(stack')
          /\ stack'[Len(stack')] = f /\ \A i \in DOMAIN stack : stack'[i] = stack[i]
      BY <2>1, GrownPositions
    <2>3. \A i \in DOMAIN stack' : stack'[i].kind = "once" =>
             i \in DOMAIN stack /\ ~OnTop(stack', i)
      BY <1>2, <2>1, <2>2, PassOfGrown
    <2>4. ASSUME NEW i \in DOMAIN stack', stack'[i].kind = "once"
          PROVE  SamePass(stack, stack', i)
      <3>1. i \in DOMAIN stack /\ stack'[i] = stack[i]
        BY <2>2, <2>3, <2>4
      <3>2. ASSUME NEW p \in DOMAIN stack', PassOf(stack', i, p)
            PROVE  p \in DOMAIN stack /\ stack'[p] = stack[p] /\ PassOf(stack, i, p)
        <4>1. p \in DOMAIN stack
          BY <1>2, <2>2, <3>2 DEF PassOf
        <4> QED
          BY <2>1, <2>2, <3>1, <3>2, <4>1, PassOfGrown
      <3> QED
        BY <1>2, <3>1, <3>2 DEF SamePass
    <2>5. \A c \in Captures : ~Unrecorded(stack, control, c)
      BY <1>2 DEF Unrecorded
    <2>6. Idle(stack', control')
      BY <1>2, <2>3 DEF Idle, Unrecorded
    <2> QED
      BY <1>2, <1>d, <2>4, <2>5, <2>6, QuietReplay
  <1>3. ASSUME stack # <<>>, stack' = Front(stack), UNCHANGED passes,
               control \in {Run, Raising}, control' = control,
               \/ UNCHANGED running
               \/ TopIs("pass") /\ running' = Front(running)
        PROVE  OpenReplay' /\ \A c \in Captures : FinishedReplay(passes'[c])
    <2>1. Shrunk(stack, stack')
      BY <1>3, <1>a, StackShrunk
    <2>2. \A i \in DOMAIN stack' : i \in DOMAIN stack /\ i < Len(stack) /\ stack'[i] = stack[i]
      BY <2>1, ShrunkPositions
    <2>3. ASSUME NEW i \in DOMAIN stack', stack'[i].kind = "once"
          PROVE  SamePass(stack, stack', i)
      <3> SUFFICES ASSUME NEW p \in DOMAIN stack', PassOf(stack', i, p)
                   PROVE  /\ p \in DOMAIN stack /\ stack'[p] = stack[p] /\ PassOf(stack, i, p)
                          /\ running'[stack[p].at].fused = running[stack[p].at].fused
        BY <2>2 DEF SamePass
      <3>1. p \in DOMAIN stack /\ stack'[p] = stack[p] /\ PassOf(stack, i, p)
        BY <2>1, <2>2, PassOfShrunk
      <3>2. stack[p].kind = "pass" /\ p # Len(stack)
        BY <1>b, <2>2, <3>1 DEF PassOf
      <3> QED
        BY <1>3, <1>a, <3>1, <3>2, InnermostList
    <2>4. \A c \in Captures : ~Unrecorded(stack, control, c)
      BY <1>3, <1>c DEF Unrecorded
    <2>5. Idle(stack', control')
      BY <1>3, <1>c DEF Idle, Unrecorded
    <2> QED
      BY <1>3, <1>d, <2>3, <2>4, <2>5, QuietReplay
  <1>4. CASE UNCHANGED vars
    <2>1. /\ stack' = stack /\ passes' = passes /\ running' = running /\ live' = live
          /\ control' = control
      BY <1>4 DEF vars, schedulers, tracers
    <2> QED
      BY <2>1 DEF ReplayInv, OpenReplay
  <1>5. ASSUME NEW c \in Captures, OpenCapture(c)
        PROVE  OpenReplay' /\ \A d \in Captures : FinishedReplay(passes'[d])
    <2> DEFINE f == Frame("with", c, None, 0)
    <2>1. f \in FrameType /\ f.kind = "with"
      BY <1>a, EntryFrames DEF Frame
    <2>2. /\ stack' = Append(stack, f) /\ UNCHANGED <<passes, running>>
          /\ control = Run /\ control' = control
      BY <1>5 DEF OpenCapture
    <2> HIDE DEF f
    <2> QED
      BY <1>2, <1>c, <2>1, <2>2
  <1>6. CASE EnterTracedTwo
    <2> DEFINE f == Frame("two", control.to, control.s, 0)
    <2>1. /\ control.mode = "call" /\ control.fn = "two" /\ control.to \in Captures
          /\ stack' = Append(stack, f) /\ UNCHANGED <<passes, running>>
          /\ control' = [control EXCEPT !.to = original[control.to]]
      BY <1>6 DEF EnterTracedTwo, Callee, tracers
    <2>2. f \in FrameType /\ f.kind = "two"
      BY <1>a, <2>1, EntryFrames DEF Frame
    <2>3. control'.mode = "call"
      BY <1>a, <2>1 DEF ControlType, Run, Raising
    <2> HIDE DEF f
    <2> QED
      BY <1>2, <2>1, <2>2, <2>3
  <1>7. CASE CloseCapture \/ UnwindTracedOnce \/ UnwindPlain
    BY <1>3, <1>7 DEF CloseCapture, UnwindTracedOnce, UnwindPlain, TopIs, schedulers, tracers
  <1>8. CASE \/ \E s \in Schedulers, reorder \in BOOLEAN : CallOnce(s, reorder)
             \/ \E s \in Schedulers, n1, n2 \in SUBSET Atoms : CallTwo(s, n1, n2)
    BY <1>1, <1>8, <1>c DEF CallOnce, CallTwo, schedulers, tracers
  <1>9. CASE Throw
    BY <1>1, <1>9, <1>c DEF Throw, schedulers, tracers
  <1>10. CASE ReturnToCaller \/ Catch \/ \E a \in Atoms : ReorderLoops(a)
    BY <1>1, <1>10, <1>c DEF ReturnToCaller, Catch, ReorderLoops, schedulers, tracers
  <1> QED
    BY <1>4, <1>5, <1>6, <1>7, <1>8, <1>9, <1>10 DEF Next, Finished

(* A pass begins: first its records, then the pass itself. *)
LEMMA ReplayBegin ==
    ASSUME ReplayInv, RecordInv', EnterTracedOnce
    PROVE  OpenReplay' /\ \A c \in Captures : FinishedReplay(passes'[c])
  <1> DEFINE c == control.to
             k == Len(passes[c]) + 1
             f == Frame("once", c, control.s, k)
  <1>a. /\ TraceInv /\ TypeOK /\ FramesKnown /\ control \in ControlType
    BY DEF ReplayInv, RecordInv, WrapInv, TraceInv, TypeOK
  <1>1. /\ control.mode = "call" /\ control.fn = "once" /\ c \in Captures
        /\ stack' = Append(stack, f) /\ running' = running /\ live' = live
        /\ control' = [control EXCEPT !.to = original[c]]
    BY DEF EnterTracedOnce, Callee, schedulers
  <1>2. f \in FrameType /\ f.kind = "once" /\ f.capture = c /\ f.at = k /\ f.s = control.s
    BY <1>a, <1>1, EntryFrames DEF Frame
  <1>3. /\ \A d \in Captures \ {c} : passes'[d] = passes[d]
        /\ \A i \in DOMAIN passes[c] : i \in DOMAIN passes'[c] /\ passes'[c][i] = passes[c][i]
        /\ \A i \in DOMAIN passes'[c] : i \in DOMAIN passes[c] \/ i = k
        /\ k \in DOMAIN passes'[c] /\ k \notin DOMAIN passes[c]
        /\ passes'[c][k].steps = <<>> /\ passes'[c][k].before = live[control.s]
        /\ passes'[c][k].after = {}
    BY <1>a, PassBegun
  <1>4. control'.mode = "call"
    BY <1>a, <1>1 DEF ControlType, Run, Raising
  <1> HIDE DEF f, k, c
  <1>5. Grown(stack, stack', f)
    BY <1>1, <1>2, <1>a, StackGrown
  <1>6. /\ \A i \in DOMAIN stack' : i \in DOMAIN stack \/ i = Len(stack')
        /\ stack'[Len(stack')] = f /\ \A i \in DOMAIN stack : stack'[i] = stack[i]
    BY <1>5, GrownPositions
  <1>7. ASSUME NEW i \in DOMAIN stack', stack'[i].kind = "once"
        PROVE  OpenPassReplays(stack', i, passes'[stack'[i].capture][stack'[i].at],
                               running', live', control')
    <2>1. CASE i \in DOMAIN stack
      <3> DEFINE new == passes[stack[i].capture][stack[i].at]
      <3>1. stack'[i] = stack[i] /\ stack[i].kind = "once"
        BY <1>6, <1>7, <2>1
      <3>2. stack[i].capture \in Captures /\ stack[i].at \in DOMAIN passes[stack[i].capture]
        BY <1>a, <2>1, <3>1 DEF FramesKnown
      <3>3. passes'[stack[i].capture][stack[i].at] = new
        BY <1>3, <3>2
      <3>4. OpenPassReplays(stack, i, new, running, live, control)
        BY <2>1, <3>1 DEF ReplayInv, OpenReplay
      <3> HIDE DEF new
      <3>5. ASSUME NEW p \in DOMAIN stack', PassOf(stack', i, p)
            PROVE  p \in DOMAIN stack /\ stack'[p] = stack[p] /\ PassOf(stack, i, p)
        <4>1. p \in DOMAIN stack
          BY <1>2, <1>6, <3>5 DEF PassOf
        <4> QED
          BY <1>5, <1>6, <2>1, <3>5, <4>1, PassOfGrown
      <3>6. SamePass(stack, stack', i)
        BY <1>1, <2>1, <3>1, <3>5 DEF SamePass
      <3>7. /\ ~Unrecorded(stack, control, stack[i].capture)
            /\ ~Unrecorded(stack', control', stack[i].capture)
        BY <1>1, <1>4 DEF Unrecorded
      <3>8. OnTop(stack', i) => EndOf(new) = live'[stack[i].s]
        BY <1>1, <1>5, <2>1, <3>4, PassOfGrown DEF OpenPassReplays
      <3>9. OpenPassReplays(stack', i, new, running', live', control')
        BY <1>4, <1>7, <3>6, <3>7, <3>8, OpenPassKept DEF ReplayInv, new
      <3> QED
        BY <3>1, <3>3, <3>9
    <2>2. CASE i = Len(stack')
      <3> DEFINE new == passes'[c][k]
      <3>1. stack'[i] = f
        BY <1>6, <2>2
      <3>2. new.after = {} /\ Replays(new) /\ EndOf(new) = live[control.s]
        BY <1>3 DEF Replays, EndOf, ListAfter
      <3>3. \A p \in DOMAIN stack' : ~PassOf(stack', i, p)
        BY <1>5, <2>2, PassOfGrown
      <3> HIDE DEF new
      <3>4. OpenPassReplays(stack', i, new, running', live', control')
        BY <1>1, <1>2, <1>4, <3>1, <3>2, <3>3 DEF OpenPassReplays
      <3> QED
        BY <1>2, <3>1, <3>4 DEF new
    <2> QED
      BY <1>6, <2>1, <2>2
  <1>8. ASSUME NEW d \in Captures PROVE FinishedReplay(passes'[d])
    <2>1. FinishedReplay(passes[d])
      BY DEF ReplayInv
    <2>2. CASE d # c
      BY <1>3, <2>1, <2>2
    <2>3. CASE d = c
      BY <1>3, <2>1, <2>3 DEF FinishedReplay
    <2> QED
      BY <2>2, <2>3
  <1> QED
    BY <1>7, <1>8 DEF OpenReplay

(* Entering the scheduler's own pass. *)
LEMMA ReplayEnter ==
    ASSUME ReplayInv, RecordInv', EnterPlainOnce
    PROVE  OpenReplay' /\ \A c \in Captures : FinishedReplay(passes'[c])
  <1> DEFINE f == Frame("pass", None, control.s, Len(running) + 1)
             new == [s |-> control.s, reorder |-> control.reorder, fused |-> live[control.s]]
  <1>a. /\ TraceInv /\ TypeOK /\ FramesKnown /\ control \in ControlType
    BY DEF ReplayInv, RecordInv, WrapInv, TraceInv, TypeOK
  <1>1. /\ control.mode = "call" /\ control.fn = "once" /\ control' = Run
        /\ stack' = Append(stack, f) /\ running' = Append(running, new)
        /\ passes' = passes /\ live' = live
    BY DEF EnterPlainOnce, schedulers, tracers
  <1>2. /\ f \in FrameType /\ f.kind = "pass" /\ f.s = control.s /\ f.at = Len(running) + 1
        /\ new.fused = live[control.s]
    BY <1>a, <1>1, EntryFrames DEF Frame
  <1>3. /\ new \in Pass /\ running \in Seq(Pass)
    BY <1>a, <1>1, ControlCases DEF TypeOK, Pass
  <1> HIDE DEF f, new
  <1>4. /\ DOMAIN running = 1..Len(running)
        /\ \A j \in DOMAIN running : running'[j] = running[j]
        /\ running'[Len(running) + 1] = new
    BY <1>1, <1>3, AppendElements
  <1>5. Grown(stack, stack', f)
    BY <1>1, <1>2, <1>a, StackGrown
  <1>6. /\ \A i \in DOMAIN stack' : i \in DOMAIN stack \/ i = Len(stack')
        /\ stack'[Len(stack')] = f /\ \A i \in DOMAIN stack : stack'[i] = stack[i]
    BY <1>5, GrownPositions
  <1>7. Run.mode # "return" /\ Run.mode # "call"
    BY DEF Run
  <1>8. ASSUME NEW i \in DOMAIN stack', stack'[i].kind = "once"
        PROVE  OpenPassReplays(stack', i, passes'[stack'[i].capture][stack'[i].at],
                               running', live', control')
    <2> DEFINE pass == passes[stack[i].capture][stack[i].at]
    <2>1. i \in DOMAIN stack /\ stack'[i] = stack[i] /\ stack[i].kind = "once"
      BY <1>2, <1>6, <1>8
    <2>2. OpenPassReplays(stack, i, pass, running, live, control)
      BY <2>1 DEF ReplayInv, OpenReplay
    <2> HIDE DEF pass
    <2>3. ASSUME NEW p \in DOMAIN stack', PassOf(stack', i, p)
          PROVE  running'[stack'[p].at].fused = EndOf(pass)
      <3>1. CASE p \in DOMAIN stack
        <4>1. PassOf(stack, i, p) /\ stack'[p] = stack[p]
          BY <1>5, <1>6, <2>1, <2>3, <3>1, PassOfGrown
        <4>2. running[stack[p].at].fused = EndOf(pass)
          BY <1>1, <2>2, <3>1, <4>1 DEF OpenPassReplays, Unrecorded
        <4>3. stack[p].at \in DOMAIN running
          BY <1>a, <3>1, <4>1 DEF FramesKnown, PassOf
        <4> QED
          BY <1>4, <4>1, <4>2, <4>3
      <3>2. CASE p = Len(stack')
        <4>1. OnTop(stack, i) /\ control.s = stack[i].s
          BY <1>2, <1>5, <2>1, <2>3, <3>2, PassOfGrown
        <4>2. EndOf(pass) = live[control.s]
          BY <1>1, <2>2, <4>1 DEF OpenPassReplays
        <4> QED
          BY <1>2, <1>4, <1>6, <3>2, <4>2
      <3> QED
        BY <1>6, <3>1, <3>2
    <2>4. pass.after = {} /\ Replays(pass)
      BY <2>2 DEF OpenPassReplays
    <2>5. OpenPassReplays(stack', i, pass, running', live', control')
      BY <1>1, <1>7, <2>3, <2>4 DEF OpenPassReplays, Unrecorded
    <2> QED
      BY <1>1, <2>1, <2>5 DEF pass
  <1> QED
    BY <1>1, <1>8 DEF OpenReplay, ReplayInv

(* A rewrite is made in the innermost pass: its captures are to record it. *)
LEMMA ReplayRewrite ==
    ASSUME ReplayInv, RecordInv', EnterPlainTwo
    PROVE  OpenReplay' /\ \A c \in Captures : FinishedReplay(passes'[c])
  <1> DEFINE s == control.s
             nodes == FusePair(ListOf(running, live, s), control.pair)
  <1>a. /\ WrapInv /\ TraceInv /\ TypeOK /\ TypeOK' /\ FramesKnown /\ StackShape'
        /\ Wrapped(stack)
    BY DEF ReplayInv, RecordInv, WrapInv, TraceInv
  <1>1. /\ control.mode = "call" /\ control'.mode = "return" /\ control'.fn = "two"
        /\ control'.pair = control.pair
        /\ stack' = stack /\ passes' = passes
        /\ DOMAIN running = 1..Len(running) /\ Len(running') = Len(running)
        /\ \A k \in DOMAIN running :
              running'[k].fused = IF k = Len(running) THEN nodes ELSE running[k].fused
    BY <1>a, RewriteMade
  <1>2. \A c \in Captures : TwoIn(stack, c) <=> c \in OpenCaptures
    BY <1>a, RewriteLogged
  <1>3. /\ Len(stack) \in Nat /\ DOMAIN stack = 1..Len(stack)
        /\ stack # <<>> => Top = stack[Len(stack)]
    BY <1>a, StackPositions
  <1>4. ~TopIs("once")
    <2>1. TopIs("once")' => control'.fn = "once"
      BY <1>1, <1>a DEF Raising, Doing, StackShape
    <2>2. TopIs("once") => TopIs("once")'
      BY <1>1 DEF TopIs, Top
    <2> QED
      BY <1>1, <2>1, <2>2
  <1>5. ASSUME NEW i \in DOMAIN stack, stack[i].kind = "once"
        PROVE  OpenPassReplays(stack', i, passes'[stack[i].capture][stack[i].at],
                               running', live', control')
    <2> DEFINE pass == passes[stack[i].capture][stack[i].at]
    <2>1. OpenPassReplays(stack, i, pass, running, live, control)
      BY <1>5 DEF ReplayInv, OpenReplay
    <2> HIDE DEF pass
    <2>2. ~OnTop(stack, i)
      BY <1>3, <1>4, <1>5, OnTopIsTop DEF TopIs
    <2>3. Unrecorded(stack', control', stack[i].capture)
      <3>1. stack[i].capture \in Captures
        BY <1>a, <1>5 DEF FramesKnown
      <3>2. stack[i].capture \in OpenCaptures
        BY <1>a, <1>5 DEF Wrapped, WrappersInside, OpenCaptures, WithAt
      <3> QED
        BY <1>1, <1>2, <3>1, <3>2 DEF Unrecorded
    <2>4. ASSUME NEW p \in DOMAIN stack, PassOf(stack, i, p)
          PROVE  running'[stack[p].at].fused =
                    IF stack[p].at = Len(running') THEN FusePair(EndOf(pass), control'.pair)
                    ELSE EndOf(pass)
      <3>1. stack[p].at \in DOMAIN running
        BY <1>a, <2>4 DEF FramesKnown, PassOf
      <3>2. running[stack[p].at].fused = EndOf(pass)
        BY <1>1, <2>1, <2>4 DEF OpenPassReplays, Unrecorded
      <3>3. stack[p].at = Len(running) => ListOf(running, live, s) = EndOf(pass)
        <4>1. running # <<>>
          BY <3>1
        <4> QED
          BY <3>2, <4>1 DEF ListOf, Last
      <3> QED
        BY <1>1, <3>1, <3>2, <3>3
    <2>5. pass.after = {} /\ Replays(pass)
      BY <2>1 DEF OpenPassReplays
    <2>6. OpenPassReplays(stack, i, pass, running', live', control')
      BY <1>1, <2>2, <2>3, <2>4, <2>5 DEF OpenPassReplays
    <2> QED
      BY <1>1, <2>6 DEF pass
  <1> QED
    BY <1>1, <1>5 DEF OpenReplay, ReplayInv

(* A pass ends with its list for a result.                                 *)
LEMMA ReplayEnd ==
    ASSUME ReplayInv, RecordInv', EndPass
    PROVE  OpenReplay' /\ \A c \in Captures : FinishedReplay(passes'[c])
  <1> DEFINE t == Len(stack)
  <1>a. TraceInv /\ TypeOK /\ FramesKnown /\ StackShape /\ TypeOK'
    BY DEF ReplayInv, RecordInv, WrapInv, TraceInv
  <1>1. /\ control = Run /\ TopIs("pass") /\ stack # <<>>
        /\ stack' = Front(stack) /\ running' = Front(running)
        /\ control'.mode = "return" /\ control'.fn = "once"
        /\ control'.result = Last(running).fused
        /\ passes' = passes
    BY DEF EndPass, TopIs, tracers
  <1>2. /\ t \in Nat /\ DOMAIN stack = 1..t /\ t \in DOMAIN stack
        /\ stack[t].kind = "pass" /\ stack[t] = Top
    BY <1>a, <1>1, StackPositions DEF TopIs
  <1>3. running # <<>> /\ stack[t].at = Len(running)
    BY <1>a, <1>1, <1>2, TopPass
  <1>4. Shrunk(stack, stack')
    BY <1>1, <1>a, StackShrunk
  <1>5. \A i \in DOMAIN stack' : i \in DOMAIN stack /\ i < t /\ stack'[i] = stack[i]
    BY <1>4, ShrunkPositions
  <1>6. Run.mode = "run"
    BY DEF Run
  <1> HIDE DEF t
  <1>7. ASSUME NEW i \in DOMAIN stack', stack'[i].kind = "once"
        PROVE  OpenPassReplays(stack', i, passes'[stack'[i].capture][stack'[i].at],
                               running', live', control')
    <2> DEFINE pass == passes[stack[i].capture][stack[i].at]
    <2>1. i \in DOMAIN stack /\ stack'[i] = stack[i] /\ stack[i].kind = "once" /\ i < t
      BY <1>5, <1>7
    <2>2. OpenPassReplays(stack, i, pass, running, live, control)
      BY <2>1 DEF ReplayInv, OpenReplay
    <2> HIDE DEF pass
    <2>3. ~Unrecorded(stack, control, stack[i].capture)
          /\ ~Unrecorded(stack', control', stack[i].capture)
      BY <1>1, <1>6 DEF Unrecorded
    <2>4. ASSUME OnTop(stack', i) PROVE EndOf(pass) = control'.result
      <3>1. \A j \in DOMAIN stack : i < j /\ j < t =>
               /\ stack[j].kind = "once" /\ stack[j].s = stack[i].s
               /\ stack[j].capture # stack[i].capture
        BY <1>4, <2>4, PassOfShrunk DEF t
      <3>2. stack[t].s = stack[i].s
        <4> DEFINE j == t - 1
        <4>1. j \in DOMAIN stack /\ t = j + 1 /\ (j = i \/ (i < j /\ j < t))
          BY <1>2, <2>1
        <4>2. stack[j].kind = "once" /\ stack[j].s = stack[i].s
          BY <2>1, <3>1, <4>1
        <4> HIDE DEF j
        <4> QED
          BY <1>a, <1>2, <4>1, <4>2 DEF StackShape
      <3>3. PassOf(stack, i, t)
        BY <1>2, <2>1, <3>1, <3>2 DEF PassOf, OnceBetween
      <3>4. running[stack[t].at].fused = EndOf(pass)
        BY <1>2, <2>2, <2>3, <3>3 DEF OpenPassReplays
      <3> QED
        BY <1>1, <1>3, <3>4 DEF Last
    <2>5. SamePass(stack, stack', i)
      <3> SUFFICES ASSUME NEW p \in DOMAIN stack', PassOf(stack', i, p)
                   PROVE  /\ p \in DOMAIN stack /\ stack'[p] = stack[p] /\ PassOf(stack, i, p)
                          /\ running'[stack[p].at].fused = running[stack[p].at].fused
        BY <2>1 DEF SamePass
      <3>1. p \in DOMAIN stack /\ stack'[p] = stack[p] /\ PassOf(stack, i, p)
        BY <1>4, <1>5, PassOfShrunk
      <3>2. stack[p].kind = "pass" /\ p # Len(stack)
        BY <1>2, <1>5, <3>1 DEF PassOf, t
      <3> QED
        BY <1>1, <1>a, <3>1, <3>2, InnermostList
    <2>6. OpenPassReplays(stack', i, pass, running', live', control')
      BY <1>1, <1>7, <2>3, <2>4, <2>5, OpenPassKept DEF ReplayInv, pass
    <2> QED
      BY <1>1, <2>1, <2>6 DEF pass
  <1> QED
    BY <1>1, <1>7 DEF OpenReplay, ReplayInv

(* A wrapper fills in its pass and returns to the wrapper around it.       *)
LEMMA ReplayFinish ==
    ASSUME ReplayInv, RecordInv', ReturnTracedOnce
    PROVE  OpenReplay' /\ \A c \in Captures : FinishedReplay(passes'[c])
  <1> DEFINE t == Len(stack)
             c == Top.capture
             k == Top.at
  <1>a. /\ TraceInv /\ TypeOK /\ FramesKnown /\ Wrapped(stack) /\ PassStackIsCallStack
    BY DEF ReplayInv, RecordInv, WrapInv, TraceInv
  <1>1. /\ TopIs("once") /\ stack # <<>> /\ stack' = Front(stack)
        /\ control.mode = "return" /\ control' = control
        /\ running' = running /\ live' = live
    BY DEF ReturnTracedOnce, TopIs, schedulers
  <1>2. /\ t \in Nat /\ DOMAIN stack = 1..t /\ t \in DOMAIN stack
        /\ stack[t].kind = "once" /\ stack[t] = Top
    BY <1>a, <1>1, StackPositions DEF TopIs
  <1>3. control.fn = "once"
    BY <1>a, <1>1, TopReturnsTwo
  <1>4. /\ c \in Captures /\ k \in DOMAIN passes[c]
        /\ \A d \in Captures \ {c} : passes'[d] = passes[d]
        /\ DOMAIN passes'[c] = DOMAIN passes[c]
        /\ \A i \in DOMAIN passes[c] : i # k => passes'[c][i] = passes[c][i]
        /\ passes'[c][k].steps = passes[c][k].steps
        /\ passes'[c][k].before = passes[c][k].before
        /\ passes'[c][k].after = control.result
    BY <1>a, PassFinished
  <1>5. Shrunk(stack, stack')
    BY <1>1, <1>a, StackShrunk
  <1>6. \A i \in DOMAIN stack' : i \in DOMAIN stack /\ i < t /\ stack'[i] = stack[i]
    BY <1>5, ShrunkPositions
  <1>7. \A d \in Captures : ~Unrecorded(stack, control, d) /\ ~Unrecorded(stack', control', d)
    BY <1>1, <1>3 DEF Unrecorded
  <1>8. OpenPassReplays(stack, t, passes[c][k], running, live, control)
    BY <1>2 DEF ReplayInv, OpenReplay
  <1> HIDE DEF t
  <1>9. ASSUME NEW i \in DOMAIN stack', stack'[i].kind = "once"
        PROVE  OpenPassReplays(stack', i, passes'[stack'[i].capture][stack'[i].at],
                               running', live', control')
    <2> DEFINE pass == passes[stack[i].capture][stack[i].at]
    <2>1. i \in DOMAIN stack /\ stack'[i] = stack[i] /\ stack[i].kind = "once" /\ i < t
      BY <1>6, <1>9
    <2>2. stack[i].capture \in Captures /\ stack[i].at \in DOMAIN passes[stack[i].capture]
      BY <1>a, <2>1 DEF FramesKnown
    <2>3. passes'[stack[i].capture][stack[i].at] = pass
      <3>1. CASE stack[i].capture # c
        BY <1>4, <2>2, <3>1
      <3>2. CASE stack[i].capture = c
        <4>1. Tracked(stack, passStack[c], passes[c], c)
          BY <1>4, <1>a, TrackedByCapture
        <4>2. i \in OnceIn(stack, c) /\ t \in OnceIn(stack, c)
          BY <1>2, <2>1, <3>2 DEF OnceIn
        <4>3. stack[i].at < k /\ k \in Nat
          <5>1. passes[c] \in Seq(PassType)
            BY <1>4, <1>a DEF TypeOK
          <5>2. k \in Nat
            BY <1>4, <5>1, LenProperties
          <5> QED
            BY <1>2, <2>1, <4>1, <4>2, <5>2 DEF Tracked
        <4> QED
          BY <1>4, <2>2, <3>2, <4>3
      <3> QED
        BY <3>1, <3>2
    <2>4. OpenPassReplays(stack, i, pass, running, live, control)
      BY <2>1 DEF ReplayInv, OpenReplay
    <2> HIDE DEF pass
    <2>5. ASSUME OnTop(stack', i) PROVE EndOf(pass) = control'.result
      <3>1. \A j \in DOMAIN stack : i < j /\ j < t => stack[j].kind = "once"
        BY <1>5, <2>5, PassOfShrunk DEF t
      <3>2. ASSUME NEW p \in DOMAIN stack, PassOf(stack, i, p) PROVE FALSE
        <4>1. stack[p].kind = "pass" /\ i < p
          BY <3>2 DEF PassOf
        <4>2. p = t \/ p < t
          BY <1>2
        <4> QED
          BY <1>2, <3>1, <4>1, <4>2
      <3>3. OnTop(stack, i)
        BY <1>a, <2>1, <3>2 DEF Wrapped, OnceGroups
      <3> QED
        BY <1>1, <2>4, <3>3 DEF OpenPassReplays
    <2>6. SamePass(stack, stack', i)
      <3> SUFFICES ASSUME NEW p \in DOMAIN stack', PassOf(stack', i, p)
                   PROVE  /\ p \in DOMAIN stack /\ stack'[p] = stack[p] /\ PassOf(stack, i, p)
                          /\ running'[stack[p].at].fused = running[stack[p].at].fused
        BY <2>1 DEF SamePass
      <3> QED
        BY <1>1, <1>5, <1>6, PassOfShrunk
    <2>7. OpenPassReplays(stack', i, pass, running', live', control')
      BY <1>1, <1>7, <1>9, <2>2, <2>5, <2>6, OpenPassKept DEF ReplayInv, pass
    <2> QED
      BY <2>1, <2>3, <2>7
  <1>10. ASSUME NEW d \in Captures PROVE FinishedReplay(passes'[d])
    <2>1. FinishedReplay(passes[d])
      BY DEF ReplayInv
    <2>2. CASE d # c
      BY <1>4, <2>1, <2>2
    <2>3. CASE d = c
      <3>1. OnTop(stack, t)
        BY <1>2 DEF OnTop, OnceBetween, t
      <3>2. Replays(passes[c][k]) /\ EndOf(passes[c][k]) = control.result
        BY <1>1, <1>8, <3>1 DEF OpenPassReplays
      <3>3. Replays(passes'[c][k]) /\ passes'[c][k].after = EndOf(passes'[c][k])
        BY <1>4, <3>2, ReplaysSame
      <3> QED
        BY <1>4, <2>1, <2>3, <3>3 DEF FinishedReplay
    <2> QED
      BY <2>2, <2>3
  <1> QED
    BY <1>9, <1>10 DEF OpenReplay

(* A wrapper records the rewrite that the innermost pass has made.         *)
LEMMA ReplayRecord ==
    ASSUME ReplayInv, RecordInv', ReturnTracedTwo
    PROVE  OpenReplay' /\ \A c \in Captures : FinishedReplay(passes'[c])
  <1> DEFINE t == Len(stack)
             c == Top.capture
             k == CreditedTo(c)
             step == StepOf(control.s, control.pair, control.result)
  <1>a. /\ WrapInv /\ TraceInv /\ TypeOK /\ FramesKnown /\ StackShape /\ Wrapped(stack)
    BY DEF ReplayInv, RecordInv, WrapInv, TraceInv
  <1>1. /\ TopIs("two") /\ stack # <<>> /\ stack' = Front(stack)
        /\ control.mode = "return" /\ control.fn = "two" /\ control' = control
        /\ running' = running /\ live' = live
    BY <1>a, TopReturnsTwo DEF ReturnTracedTwo, TopIs, schedulers, AfterRendering
  <1>2. /\ t \in Nat /\ DOMAIN stack = 1..t /\ t \in DOMAIN stack
        /\ stack[t].kind = "two" /\ stack[t] = Top
    BY <1>a, <1>1, StackPositions DEF TopIs
  <1>3. /\ c \in Captures
        /\ \A d \in Captures \ {c} : passes'[d] = passes[d]
        /\ Gained(passes[c], passes'[c], k, step)
        /\ passStack[c] # <<>> => k \in DOMAIN passes[c]
        /\ passStack[c] = <<>> => passes'[c][k].after = {} /\ k \notin DOMAIN passes[c]
    BY <1>a, StepAdded
  <1>4. /\ step.pair = control.pair
        /\ running # <<>> => step.live = running[Len(running)].fused
    BY DEF StepOf, LiveNodes, FusedNodes, Last
  <1>5. Shrunk(stack, stack')
    BY <1>1, <1>a, StackShrunk
  <1>6. \A i \in DOMAIN stack' : i \in DOMAIN stack /\ i < t /\ stack'[i] = stack[i]
    BY <1>5, ShrunkPositions
  <1>7. TwoIn(stack, c) /\ Unrecorded(stack, control, c)
    BY <1>1, <1>2 DEF TwoIn, Unrecorded
  <1>8. /\ \A d \in Captures \ {c} : Unrecorded(stack', control', d) <=> Unrecorded(stack, control, d)
        /\ ~Unrecorded(stack', control', c)
    <2>1. \A i \in DOMAIN stack : i \in DOMAIN stack' \/ i = t
      BY <1>5, ShrunkPositions DEF t
    <2>2. ASSUME NEW d \in Captures \ {c} PROVE TwoIn(stack', d) <=> TwoIn(stack, d)
      BY <1>2, <1>6, <2>1, <2>2 DEF TwoIn
    <2>3. \A i \in DOMAIN stack' : ~(stack'[i].kind = "two" /\ stack'[i].capture = c)
      BY <1>a, <1>2, <1>6 DEF Wrapped, TwosOnTop
    <2> QED
      BY <1>1, <2>2, <2>3 DEF Unrecorded, TwoIn
  <1>9. ASSUME NEW i \in DOMAIN stack', stack'[i].kind = "once" PROVE ~OnTop(stack', i)
    <2> SUFFICES ASSUME OnTop(stack', i) PROVE FALSE
      OBVIOUS
    <2> DEFINE j == t - 1
    <2>1. \A l \in DOMAIN stack : i < l /\ l < t => stack[l].kind = "once"
      BY <1>5, PassOfShrunk DEF t
    <2>2. /\ j \in DOMAIN stack /\ t = j + 1 /\ (j = i \/ (i < j /\ j < t))
          /\ stack[i].kind = "once"
      BY <1>2, <1>6, <1>9
    <2>3. stack[j].kind = "once"
      BY <2>1, <2>2
    <2> HIDE DEF j, t
    <2> QED
      BY <1>a, <1>2, <2>2, <2>3 DEF StackShape
  <1> HIDE DEF t, c, k, step
  <1>10. ASSUME passStack[c] # <<>>
         PROVE  \E i \in OnceIn(stack, c) :
                   /\ stack[i].at = k /\ running # <<>>
                   /\ \E p \in DOMAIN stack : PassOf(stack, i, p) /\ stack[p].at = Len(running)
    BY <1>3, <1>7, <1>10, <1>a, CreditedPass DEF k, CreditedTo
  <1>11. ASSUME NEW i \in DOMAIN stack', NEW p \in DOMAIN stack', PassOf(stack', i, p)
         PROVE  p \in DOMAIN stack /\ stack'[p] = stack[p] /\ PassOf(stack, i, p)
    BY <1>5, <1>6, <1>11, PassOfShrunk
  <1>12. ASSUME NEW i \in DOMAIN stack', stack'[i].kind = "once"
         PROVE  OpenPassReplays(stack', i, passes'[stack'[i].capture][stack'[i].at],
                                running', live', control')
    <2> DEFINE pass == passes[stack[i].capture][stack[i].at]
               new == passes'[stack[i].capture][stack[i].at]
    <2>1. i \in DOMAIN stack /\ stack'[i] = stack[i] /\ stack[i].kind = "once"
      BY <1>6, <1>12
    <2>2. stack[i].capture \in Captures /\ stack[i].at \in DOMAIN passes[stack[i].capture]
      BY <1>a, <2>1 DEF FramesKnown
    <2>3. OpenPassReplays(stack, i, pass, running, live, control)
      BY <2>1 DEF ReplayInv, OpenReplay
    <2>4. CASE stack[i].capture # c
      <3>1. new = pass
        BY <1>3, <2>2, <2>4
      <3>2. Unrecorded(stack', control', stack[i].capture)
               <=> Unrecorded(stack, control, stack[i].capture)
        BY <1>8, <2>2, <2>4
      <3> HIDE DEF new, pass
      <3>3. OpenPassReplays(stack', i, pass, running', live', control')
        BY <1>1, <1>9, <1>11, <1>12, <2>1, <2>3, <3>2 DEF OpenPassReplays
      <3> QED
        BY <2>1, <3>1, <3>3 DEF new
    <2>5. CASE stack[i].capture = c
      <3>1. i \in OnceIn(stack, c)
        BY <2>1, <2>5 DEF OnceIn
      <3>2. Tracked(stack, passStack[c], passes[c], c)
        BY <1>3, <1>a, TrackedByCapture DEF TraceInv
      <3>3. passStack[c] # <<>>
        <4>1. \E j \in DOMAIN passStack[c] : TRUE
          BY <3>1, <3>2 DEF Tracked
        <4> QED
          BY <4>1
      <3>4. PICK o \in OnceIn(stack, c) :
                  /\ stack[o].at = k /\ running # <<>>
                  /\ \E p \in DOMAIN stack : PassOf(stack, o, p) /\ stack[p].at = Len(running)
        BY <1>10, <3>3
      <3>5. PICK r \in DOMAIN stack : PassOf(stack, o, r) /\ stack[r].at = Len(running)
        BY <3>4
      <3>6. k \in DOMAIN passes[c] /\ k \in Nat
        <4>1. passes[c] \in Seq(PassType)
          BY <1>3, <1>a DEF TypeOK
        <4> QED
          BY <1>3, <3>3, <4>1, LenProperties
      <3>7. CASE i = o
        <4>1. pass = passes[c][k] /\ new = passes'[c][k]
          BY <2>5, <3>4, <3>7
        <4>2. /\ step.live = FusePair(EndOf(pass), step.pair)
              /\ Replays(pass) /\ pass.after = {}
          BY <1>4, <1>7, <2>1, <2>3, <2>5, <3>4, <3>5, <3>7 DEF OpenPassReplays
        <4> HIDE DEF pass, new
        <4>3. Extended(pass, new, step) /\ new.after = pass.after
          BY <1>3, <3>6, <4>1 DEF Gained, Extended
        <4>4. Replays(new) /\ EndOf(new) = step.live
          BY <4>2, <4>3, ReplaysGain
        <4>5. ASSUME NEW p \in DOMAIN stack', PassOf(stack', i, p)
              PROVE  running'[stack'[p].at].fused = EndOf(new)
          <5>1. p = r
            BY <1>2, <1>11, <2>1, <3>5, <3>7, <4>5, OnePass DEF t
          <5> QED
            BY <1>1, <1>4, <1>11, <3>4, <3>5, <4>4, <4>5, <5>1
        <4>6. OpenPassReplays(stack', i, new, running', live', control')
          BY <1>8, <1>9, <1>12, <2>1, <2>5, <4>2, <4>3, <4>4, <4>5 DEF OpenPassReplays
        <4> QED
          BY <2>1, <4>6 DEF new
      <3>8. CASE i # o
        <4>1. o \in DOMAIN stack /\ i \in Int /\ o \in Int
          BY <1>2, <2>1 DEF OnceIn
        <4>2. stack[i].at # k
          <5>1. \A n \in DOMAIN passes[c] : n \in Int
            <6>1. passes[c] \in Seq(PassType)
              BY <1>3, <1>a DEF TypeOK
            <6> QED
              BY <6>1, LenProperties
          <5>2. stack[i].at \in Int
            BY <2>2, <2>5, <5>1
          <5>3. i < o \/ o < i
            BY <3>8, <4>1
          <5>4. stack[i].at < stack[o].at \/ stack[o].at < stack[i].at
            BY <3>1, <3>2, <5>3 DEF Tracked
          <5> QED
            BY <3>4, <3>6, <5>2, <5>4
        <4>3. new = pass
          BY <1>3, <2>2, <2>5, <4>2 DEF Gained
        <4>4. ASSUME NEW p \in DOMAIN stack, PassOf(stack, i, p), stack[p].at = Len(running)
              PROVE  FALSE
          <5>1. stack[p].kind = "pass" /\ stack[r].kind = "pass"
            BY <3>5, <4>4 DEF PassOf
          <5>2. /\ p < r => stack[p].at < stack[r].at
                /\ r < p => stack[r].at < stack[p].at
            BY <1>a, <5>1 DEF FramesKnown, PassAt
          <5>3. Len(running) \in Nat /\ p \in Int /\ r \in Int
            BY <1>2, <1>a, LenProperties DEF TypeOK
          <5>4. p = r
            BY <3>5, <4>4, <5>2, <5>3
          <5>5. PassOf(stack, i, r) /\ stack[o].capture = stack[i].capture
            BY <2>5, <4>4, <5>4 DEF OnceIn
          <5>6. DOMAIN stack = 1..Len(stack)
            BY <1>2 DEF t
          <5>7. i = o
            BY <2>1, <3>5, <4>1, <5>5, <5>6, OneWrapper
          <5> QED
            BY <3>8, <5>7
        <4> HIDE DEF pass, new
        <4>5. ASSUME NEW p \in DOMAIN stack', PassOf(stack', i, p)
              PROVE  running'[stack'[p].at].fused = EndOf(new)
          BY <1>1, <1>11, <2>3, <4>3, <4>4, <4>5 DEF OpenPassReplays
        <4>6. new.after = {} /\ Replays(new)
          BY <2>3, <4>3 DEF OpenPassReplays
        <4>7. OpenPassReplays(stack', i, new, running', live', control')
          BY <1>8, <1>9, <1>12, <2>1, <2>5, <4>5, <4>6 DEF OpenPassReplays
        <4> QED
          BY <2>1, <4>7 DEF new
      <3> QED
        BY <3>7, <3>8
    <2> QED
      BY <2>4, <2>5
  <1>13. ASSUME NEW d \in Captures PROVE FinishedReplay(passes'[d])
    <2>1. FinishedReplay(passes[d])
      BY DEF ReplayInv
    <2>2. CASE d # c
      BY <1>3, <2>1, <2>2
    <2>3. CASE d = c
      <3>1. passes'[c][k].after = {}
        <4>1. CASE passStack[c] # <<>>
          <5>1. PICK o \in OnceIn(stack, c) : stack[o].at = k
            BY <1>10, <4>1
          <5>2. OpenPassReplays(stack, o, passes[c][k], running, live, control)
            BY <5>1 DEF ReplayInv, OpenReplay, OnceIn
          <5> QED
            BY <1>3, <4>1, <5>2 DEF OpenPassReplays, Gained
        <4> QED
          BY <1>3, <4>1
      <3>2. \A i \in DOMAIN passes'[c] : i # k => i \in DOMAIN passes[c] /\ passes'[c][i] = passes[c][i]
        BY <1>3 DEF Gained
      <3> QED
        BY <2>1, <2>3, <3>1, <3>2 DEF FinishedReplay
    <2> QED
      BY <2>2, <2>3
  <1> QED
    BY <1>12, <1>13 DEF OpenReplay

-----------------------------------------------------------------------------
(* The invariant of histories. *)

(* The invariant of replaying holds at first. *)
LEMMA ReplayInvInit == Init => ReplayInv
  <1> SUFFICES ASSUME Init PROVE ReplayInv
    OBVIOUS
  <1>1. stack = <<>> /\ \A c \in Captures : passes[c] = <<>>
    BY DEF Init
  <1> QED
    BY <1>1, RecordInvInit DEF ReplayInv, OpenReplay, FinishedReplay

(* Every step keeps it. *)
LEMMA ReplayInvStep == ReplayInv /\ [Next]_vars => ReplayInv'
  <1> SUFFICES ASSUME ReplayInv, [Next]_vars PROVE ReplayInv'
    OBVIOUS
  <1>1. RecordInv'
    BY RecordInvStep DEF ReplayInv
  <1>2. OpenReplay' /\ \A c \in Captures : FinishedReplay(passes'[c])
    BY <1>1, ReplayQuiet, ReplayBegin, ReplayEnter, ReplayRewrite, ReplayEnd, ReplayFinish,
       ReplayRecord
  <1> QED
    BY <1>1, <1>2 DEF ReplayInv

(* The steps of a finished pass explain its result: each is the fusion of  *)
(* its pair in the list that the step before left, the first in the pass's *)
(* input nodes, and the last leaves the list that the pass returned, in    *)
(* every capture and whatever else was interrupted ("each pass's input     *)
(* nodes, every rewrite ... and the final live-node list", README.md:105). *)
THEOREM PassesExplained == Spec => []PassesReplay
  <1>1. ReplayInv => PassesReplay
    BY DEF ReplayInv, FinishedReplay, Replays, EndOf, ListAfter, PassesReplay
  <1> QED
    BY <1>1, ReplayInvInit, ReplayInvStep, PTL DEF Spec
=============================================================================
