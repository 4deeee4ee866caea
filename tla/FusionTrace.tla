----------------------------- MODULE FusionTrace -----------------------------
(***************************************************************************)
(* Watching fusion (pretty_print_loop/fusion_trace.py).                    *)
(*                                                                         *)
(* capture_fusion_steps replaces Scheduler.fuse_nodes_once and             *)
(* Scheduler.fuse_two_nodes by wrappers for the length of a with block.    *)
(* A wrapper calls the function it replaced, which may be the wrapper of   *)
(* an enclosing capture, and records what happened.                        *)
(*                                                                         *)
(* The state is Python's call stack, one frame per wrapper, per pass of a  *)
(* scheduler and per with block; calls, returns and exceptions travel one  *)
(* frame per step.  The lists that passes work on are kept in running, one *)
(* per pass frame.  Captures may open around a compilation, inside one     *)
(* another, or in code that a pass calls; the with statement closes them   *)
(* innermost first.  Threads are excluded by the docstring, and get_name   *)
(* and debug_str are assumed not to raise.                                 *)
(***************************************************************************)
EXTENDS Naturals, Sequences, SequencesExt

CONSTANTS
    Schedulers, Atoms, MaxPasses, MaxFaults,   \* as in FusionHistory
    Unsupported, \* atoms that build_fused_node_loop_ir cannot express
    Captures,    \* capture_fusion_steps objects, each opened at most once
    Plain,       \* the unpatched functions of Scheduler
    None         \* no value; for a step's loop IR, "unimplemented"

ASSUME FunctionsAssumption ==
    Plain \notin Captures /\ None \notin Captures /\ Plain # None
ASSUME AtomsAssumption == Unsupported \subseteq Atoms
ASSUME TraceBounds == MaxPasses \in Nat /\ MaxFaults \in Nat

VARIABLES
    live, loops, begun, faults,  \* the schedulers (external)
    running,    \* the passes being executed (external): [s, reorder, fused]
    stack,      \* call stack: [kind, capture, s, at]
    control,    \* what Python is doing: run, call, return or raise
    installed,  \* what both patched attributes of Scheduler hold
    original,   \* original_once and original_two of each capture
    passes,     \* trace.passes of each capture
    passStack,  \* pass_stack of each capture, as indices into passes
    happened    \* history: the rewrites, and the captures that were open

schedulers == <<live, loops, begun, faults>>
tracers    == <<original, passes, passStack>>
vars       == <<schedulers, running, stack, control, installed, tracers, happened>>

-----------------------------------------------------------------------------
Run == [mode |-> "run"]
Raising == [mode |-> "raise"]

(* A frame of the call stack.  A pass has its list at running[at], a call  *)
(* of traced_fuse_nodes_once its local fusion_pass at passes[capture][at]. *)
Frame(kind, c, s, at) == [kind |-> kind, capture |-> c, s |-> s, at |-> at]

Top == stack[Len(stack)]
TopIs(kind) == stack # <<>> /\ Top.kind = kind

OpenCaptures == {stack[i].capture : i \in {j \in DOMAIN stack : stack[j].kind = "with"}}

(* fused_nodes, the list a rewrite works on: the innermost pass's own, or  *)
(* the scheduler's when no pass is being executed.                         *)
InPass(s) == \E i \in DOMAIN running : running[i].s = s
FusedNodes(s) == IF running = <<>> THEN live[s] ELSE Last(running).fused

-----------------------------------------------------------------------------
(* The with block. *)

OpenCapture(c) ==
    /\ control = Run
    /\ original[c] = None
    /\ original' = [original EXCEPT ![c] = installed]
    /\ installed' = c
    /\ stack' = Append(stack, Frame("with", c, None, 0))
    /\ UNCHANGED <<schedulers, running, control, passes, passStack, happened>>

\* mutant: undoes the patches only when the block ends normally
RestoreUnlessRaising(c) == IF control = Raising THEN installed ELSE original[c]

(* patch.object puts back what it found, however the block ends. *)
Restore(c) == original[c]

CloseCapture ==
    /\ control \in {Run, Raising}
    /\ TopIs("with")
    /\ installed' = Restore(Top.capture)
    /\ stack' = Front(stack)
    /\ UNCHANGED <<schedulers, running, control, tracers, happened>>

-----------------------------------------------------------------------------
(* Calls: the code that runs now calls a function of Scheduler. *)

CallOnce(s, reorder) ==
    /\ control = Run
    /\ begun < MaxPasses
    /\ ~InPass(s)
    /\ begun' = begun + 1
    /\ control' = [mode |-> "call", fn |-> "once", to |-> installed, s |-> s,
                   reorder |-> reorder]
    /\ UNCHANGED <<live, loops, faults, running, stack, installed, tracers, happened>>

(* node1 and node2 are in the innermost pass, or no pass is open at all. *)
CallTwo(s, n1, n2) ==
    /\ control = Run
    /\ running # <<>> => Last(running).s = s
    /\ {n1, n2} \subseteq FusedNodes(s) /\ n1 # n2
    /\ control' = [mode |-> "call", fn |-> "two", to |-> installed, s |-> s,
                   pair |-> {n1, n2}]
    /\ UNCHANGED <<schedulers, running, stack, installed, tracers, happened>>

(* The function a wrapper calls. *)
Callee(c) == original[c]

\* mutant: numbers the passes of a trace from 0
NextIndexFromZero(c) == Len(passes[c])

(* next(pass_counter) *)
NextIndex(c) == Len(passes[c]) + 1

(* A FusionPass; after_nodes is set when the pass returns. *)
NewPass(c, s, reorder, before) ==
    [index |-> NextIndex(c), graph |-> s, reorder |-> reorder,
     before |-> before, after |-> {}, steps |-> <<>>]

(* traced_fuse_nodes_once up to the call of original_once. *)
EnterTracedOnce ==
    LET c == control.to IN
    /\ control.mode = "call" /\ control.fn = "once" /\ c \in Captures
    /\ passes' = [passes EXCEPT ![c] =
                     Append(@, NewPass(c, control.s, control.reorder, live[control.s]))]
    /\ passStack' = [passStack EXCEPT ![c] = Append(@, Len(passes[c]) + 1)]
    /\ stack' = Append(stack, Frame("once", c, control.s, Len(passes[c]) + 1))
    /\ control' = [control EXCEPT !.to = Callee(c)]
    /\ UNCHANGED <<schedulers, running, installed, original, happened>>

(* original_once: the pass itself starts on a copy of the nodes. *)
EnterPlainOnce ==
    /\ control.mode = "call" /\ control.fn = "once" /\ control.to = Plain
    /\ running' = Append(running, [s |-> control.s, reorder |-> control.reorder,
                                   fused |-> live[control.s]])
    /\ stack' = Append(stack, Frame("pass", None, control.s, Len(running) + 1))
    /\ control' = Run
    /\ UNCHANGED <<schedulers, installed, tracers, happened>>

(* traced_fuse_two_nodes starts by calling original_two. *)
EnterTracedTwo ==
    LET c == control.to IN
    /\ control.mode = "call" /\ control.fn = "two" /\ c \in Captures
    /\ stack' = Append(stack, Frame("two", c, control.s, 0))
    /\ control' = [control EXCEPT !.to = Callee(c)]
    /\ UNCHANGED <<schedulers, running, installed, tracers, happened>>

(* original_two: node1 and node2 leave the list, their union enters it. *)
FusePair(nodes, pair) == (nodes \ pair) \cup {UNION pair}

Rewrite(s, pair) ==
    [s |-> s, pair |-> pair, live |-> FusePair(FusedNodes(s), pair),
     loops |-> (UNION pair) \cap loops[s], seen |-> OpenCaptures]

EnterPlainTwo ==
    LET s == control.s
        nodes == FusePair(FusedNodes(s), control.pair)
    IN
    /\ control.mode = "call" /\ control.fn = "two" /\ control.to = Plain
    /\ IF running # <<>>
       THEN /\ running' = [running EXCEPT ![Len(running)].fused = nodes]
            /\ UNCHANGED live
       ELSE /\ live' = [live EXCEPT ![s] = nodes]
            /\ UNCHANGED running
    /\ happened' = IF OpenCaptures = {} THEN happened
                   ELSE Append(happened, Rewrite(s, control.pair))
    /\ control' = [mode |-> "return", fn |-> "two", s |-> s,
                   pair |-> control.pair, result |-> UNION control.pair]
    /\ UNCHANGED <<loops, begun, faults, stack, installed, tracers>>

-----------------------------------------------------------------------------
(* A pass runs: it may change the loops of nodes, in a reordering round,   *)
(* and it ends by returning its list.                                      *)

ReorderLoops(a) ==
    /\ control = Run
    /\ TopIs("pass") /\ Last(running).reorder
    /\ loops' = [loops EXCEPT ![Last(running).s] = @ \cup {a}]
    /\ UNCHANGED <<live, begun, faults, running, stack, control, installed, tracers,
                   happened>>

EndPass ==
    /\ control = Run
    /\ TopIs("pass")
    /\ stack' = Front(stack)
    /\ running' = Front(running)
    /\ control' = [mode |-> "return", fn |-> "once", s |-> Last(running).s,
                   result |-> Last(running).fused]
    /\ UNCHANGED <<schedulers, installed, tracers, happened>>

-----------------------------------------------------------------------------
(* Returns. *)

\* mutant: leaves the pass on pass_stack unless the call returned
PoppedOnReturn(c) == IF control = Raising THEN passStack[c] ELSE Front(passStack[c])

(* The finally clause of traced_fuse_nodes_once. *)
Popped(c) == Front(passStack[c])

ReturnTracedOnce ==
    LET c == Top.capture IN
    /\ control.mode = "return"
    /\ TopIs("once")
    /\ passes' = [passes EXCEPT ![c][Top.at].after = control.result]
    /\ passStack' = [passStack EXCEPT ![c] = Popped(c)]
    /\ stack' = Front(stack)
    /\ UNCHANGED <<schedulers, running, control, installed, original, happened>>

\* mutant: lists the nodes the scheduler had before the pass
LiveNodesOfScheduler(s) == live[s]

(* live_nodes: fused_nodes as it is when the wrapper gets it back. *)
LiveNodes(s) == FusedNodes(s)

(* The loop IR of a step is rendered at once from the loops the nodes have *)
(* now; a failure to render is recorded, not raised.                       *)
Renders(node) == node \cap Unsupported = {}

StepOf(s, pair, result) ==
    [pair |-> pair, result |-> result, live |-> LiveNodes(s),
     loop_ir |-> IF Renders(result) THEN result \cap loops[s] ELSE None,
     n |-> Len(happened)]     \* history: which rewrite this is

\* mutant: credits the outermost open pass
CurrentPassOutermost(c) == passStack[c][1]

(* The pass a rewrite is credited to. *)
CurrentPass(c) == Last(passStack[c])

(* A rewrite outside of every pass this capture saw gets an entry of its own. *)
Recorded(c, s, step) ==
    IF passStack[c] # <<>>
    THEN [passes[c] EXCEPT ![CurrentPass(c)].steps = Append(@, step)]
    ELSE Append(passes[c],
                [NewPass(c, s, FALSE, step.pair) EXCEPT !.steps = <<step>>])

\* mutant: lets a failure to render out of the wrapper
AfterRenderingOrRaise(node) == IF Renders(node) THEN control ELSE Raising

(* How the wrapper goes on once it has tried to render: it returns. *)
AfterRendering(node) == control

ReturnTracedTwo ==
    LET c == Top.capture IN
    /\ control.mode = "return"
    /\ TopIs("two")
    /\ passes' = [passes EXCEPT ![c] =
                     Recorded(c, control.s,
                              StepOf(control.s, control.pair, control.result))]
    /\ stack' = Front(stack)
    /\ control' = AfterRendering(control.result)
    /\ UNCHANGED <<schedulers, running, installed, original, passStack, happened>>

(* The caller continues; a caller of fuse_nodes_once installs the result. *)
ReturnToCaller ==
    /\ control.mode = "return"
    /\ ~TopIs("once") /\ ~TopIs("two")
    /\ live' = IF control.fn = "once"
               THEN [live EXCEPT ![control.s] = control.result] ELSE live
    /\ control' = Run
    /\ UNCHANGED <<loops, begun, faults, running, stack, installed, tracers, happened>>

-----------------------------------------------------------------------------
(* Exceptions: raised by code of the compiler, or of the with block;       *)
(* caught by either, or by the program around them.                        *)

Throw ==
    /\ \/ control = Run
       \/ control.mode = "call" /\ control.fn = "two" /\ control.to = Plain
    /\ faults < MaxFaults
    /\ faults' = faults + 1
    /\ control' = Raising
    /\ UNCHANGED <<live, loops, begun, running, stack, installed, tracers, happened>>

UnwindTracedOnce ==
    LET c == Top.capture IN
    /\ control = Raising
    /\ TopIs("once")
    /\ passStack' = [passStack EXCEPT ![c] = Popped(c)]
    /\ stack' = Front(stack)
    /\ UNCHANGED <<schedulers, running, control, installed, original, passes, happened>>

(* Neither original_two nor a pass has anything to clean up. *)
UnwindPlain ==
    /\ control = Raising
    /\ TopIs("two") \/ TopIs("pass")
    /\ stack' = Front(stack)
    /\ running' = IF TopIs("pass") THEN Front(running) ELSE running
    /\ UNCHANGED <<schedulers, control, installed, tracers, happened>>

Catch ==
    /\ control = Raising
    /\ ~TopIs("once") /\ ~TopIs("two")
    /\ control' = Run
    /\ UNCHANGED <<schedulers, running, stack, installed, tracers, happened>>

(* Nothing runs: the compilations are over, or the next has not begun. *)
Finished == control = Run /\ stack = <<>> /\ UNCHANGED vars

-----------------------------------------------------------------------------
Init ==
    /\ live = [s \in Schedulers |-> {{a} : a \in Atoms}]
    /\ loops = [s \in Schedulers |-> {}]
    /\ begun = 0
    /\ faults = 0
    /\ running = <<>>
    /\ stack = <<>>
    /\ control = Run
    /\ installed = Plain
    /\ original = [c \in Captures |-> None]
    /\ passes = [c \in Captures |-> <<>>]
    /\ passStack = [c \in Captures |-> <<>>]
    /\ happened = <<>>

Next ==
    \/ \E c \in Captures : OpenCapture(c)
    \/ CloseCapture
    \/ \E s \in Schedulers, reorder \in BOOLEAN : CallOnce(s, reorder)
    \/ \E s \in Schedulers, n1, n2 \in SUBSET Atoms : CallTwo(s, n1, n2)
    \/ EnterTracedOnce
    \/ EnterPlainOnce
    \/ EnterTracedTwo
    \/ EnterPlainTwo
    \/ \E a \in Atoms : ReorderLoops(a)
    \/ EndPass
    \/ ReturnTracedOnce
    \/ ReturnTracedTwo
    \/ ReturnToCaller
    \/ Throw
    \/ UnwindTracedOnce
    \/ UnwindPlain
    \/ Catch
    \/ Finished

Spec == Init /\ [][Next]_vars

(* What code under way owes: a call runs and answers, an exception reaches *)
(* a handler, a pass ends and a with block is left.  Nobody owes a call,   *)
(* a rewrite, a capture or an exception.                                   *)
Proceed ==
    \/ EnterTracedOnce \/ EnterPlainOnce \/ EnterTracedTwo \/ EnterPlainTwo
    \/ EndPass \/ ReturnTracedOnce \/ ReturnTracedTwo \/ ReturnToCaller
    \/ UnwindTracedOnce \/ UnwindPlain \/ Catch
    \/ CloseCapture

FairSpec == Spec /\ WF_vars(Proceed)

-----------------------------------------------------------------------------
(* Properties.                                                             *)

Nodes == SUBSET Atoms
NodeList == SUBSET Nodes

StepType == [pair: NodeList, result: Nodes, live: NodeList,
             loop_ir: (SUBSET Atoms) \cup {None}, n: Nat]
PassType == [index: Nat, graph: Schedulers, reorder: BOOLEAN, before: NodeList,
             after: NodeList, steps: Seq(StepType)]
FrameType == [kind: {"with", "pass", "once", "two"}, capture: Captures \cup {None},
              s: Schedulers \cup {None}, at: Nat]
ControlType ==
    {Run, Raising}
    \cup [mode: {"call"}, fn: {"once"}, to: Captures \cup {Plain}, s: Schedulers,
          reorder: BOOLEAN]
    \cup [mode: {"call"}, fn: {"two"}, to: Captures \cup {Plain}, s: Schedulers,
          pair: NodeList]
    \cup [mode: {"return"}, fn: {"once"}, s: Schedulers, result: NodeList]
    \cup [mode: {"return"}, fn: {"two"}, s: Schedulers, pair: NodeList, result: Nodes]

(* The type invariant. *)
TypeOK ==
    /\ live \in [Schedulers -> NodeList]
    /\ loops \in [Schedulers -> SUBSET Atoms]
    /\ begun \in 0..MaxPasses /\ faults \in 0..MaxFaults
    /\ running \in Seq([s: Schedulers, reorder: BOOLEAN, fused: NodeList])
    /\ stack \in Seq(FrameType)
    /\ control \in ControlType
    /\ installed \in Captures \cup {Plain}
    /\ original \in [Captures -> Captures \cup {Plain, None}]
    /\ passes \in [Captures -> Seq(PassType)]
    /\ passStack \in [Captures -> Seq(Nat)]
    /\ \A c \in Captures :
          /\ \A i \in DOMAIN passes[c] : passes[c][i].index = i
          /\ \A i \in DOMAIN passStack[c] : passStack[c][i] \in DOMAIN passes[c]
    /\ happened \in Seq([s: Schedulers, pair: NodeList, live: NodeList,
                          loops: SUBSET Atoms, seen: SUBSET Captures])

(* Tracing is transparent: with any number of captures open, rewrites,     *)
(* results and exceptions are those of a compilation without them, and no  *)
(* capture adds an exception ("one unsupported intermediate must not abort *)
(* the compilation whose fusion history we are observing", line 129).      *)
liveUntraced ==
    IF control.mode = "return" /\ control.fn = "once"
    THEN [live EXCEPT ![control.s] = control.result] ELSE live
begunUntraced ==
    begun - (IF control.mode = "call" /\ control.fn = "once" THEN 1 ELSE 0)

Untraced == INSTANCE FusionHistory WITH
    live <- liveUntraced, begun <- begunUntraced, frames <- running,
    failing <- control.mode = "raise"

Transparent == Untraced!HistorySpec

(* What the innermost of the with blocks among the first n frames has      *)
(* installed, or the unpatched function if there is none.                  *)
With(i) == i \in DOMAIN stack /\ stack[i].kind = "with"
Outside(n, fn) ==
    \/ fn = Plain /\ \A i \in 1..n : ~With(i)
    \/ \E i \in 1..n : /\ With(i) /\ stack[i].capture = fn
                      /\ \A j \in (i + 1)..n : ~With(j)

(* The patches nest: Scheduler holds the wrapper of the innermost open     *)
(* capture, each capture calls the one around it, and when none is open    *)
(* Scheduler is as it was, however the blocks ended.                       *)
PatchesNest ==
    /\ Outside(Len(stack), installed)
    /\ \A i \in DOMAIN stack : With(i) => Outside(i - 1, original[stack[i].capture])

StepsOf(c) == UNION {{<<i, j>> : j \in DOMAIN passes[c][i].steps} : i \in DOMAIN passes[c]}
StepAt(c, at) == passes[c][at[1]].steps[at[2]]

(* No rewrite is lost, doubled or credited to another scheduler's pass:    *)
(* while no call is in flight, the steps of a capture are exactly the      *)
(* rewrites made while it was open, each once, in a pass of the scheduler  *)
(* that made it, with the list and the loops as they were then even if the *)
(* nodes were reordered later.                                             *)
EveryRewriteOnce ==
    control.mode = "run" =>
        \A c \in Captures :
            LET seen == {n \in DOMAIN happened : c \in happened[n].seen} IN
            /\ {StepAt(c, at).n : at \in StepsOf(c)} = seen
            /\ \A at1, at2 \in StepsOf(c) :
                  StepAt(c, at1).n = StepAt(c, at2).n => at1 = at2
            /\ \A at \in StepsOf(c) :
                  LET step == StepAt(c, at)
                      event == happened[step.n]
                  IN  /\ passes[c][at[1]].graph = event.s
                      /\ step.pair = event.pair /\ step.live = event.live
                      /\ step.loop_ir = IF Renders(step.result) THEN event.loops ELSE None

(* The history of a pass explains its result: replaying the steps of a     *)
(* finished pass from its input nodes gives each recorded live list and,   *)
(* at the end, the final one ("each pass's input nodes, every rewrite ...  *)
(* and the final live-node list", README.md:105).                          *)
PassesReplay ==
    \A c \in Captures : \A i \in DOMAIN passes[c] :
        LET pass == passes[c][i]
            listAfter(k) == IF k = 0 THEN pass.before ELSE pass.steps[k].live
        IN  pass.after # {} =>
                /\ \A k \in DOMAIN pass.steps :
                      pass.steps[k].live = FusePair(listAfter(k - 1), pass.steps[k].pair)
                /\ pass.after = listAfter(Len(pass.steps))

(* pass_stack holds exactly the passes being executed under this capture,  *)
(* in the order of their calls, so that an aborted pass never collects the *)
(* rewrites of a later one.                                                *)
Increasing(seq) == \A i, j \in DOMAIN seq : i < j => seq[i] < seq[j]
OnceFrames(c) == {i \in DOMAIN stack : stack[i].kind = "once" /\ stack[i].capture = c}

PassStackIsCallStack ==
    \A c \in Captures :
        /\ Increasing(passStack[c])
        /\ \A i, j \in OnceFrames(c) : i < j => stack[i].at < stack[j].at
        /\ {passStack[c][k] : k \in DOMAIN passStack[c]} = {stack[i].at : i \in OnceFrames(c)}
        /\ \A i \in OnceFrames(c) : passes[c][stack[i].at].graph = stack[i].s

(* Watching ends: from any point of a capture, through whatever passes,    *)
(* rewrites, exceptions and inner captures, the code comes to a point      *)
(* where Scheduler is unpatched and no pass is left open in a trace.       *)
WatchingEnds ==
    installed # Plain ~> /\ installed = Plain
                         /\ \A c \in Captures : passStack[c] = <<>>
=============================================================================
