---------------------------- MODULE FusionHistory ----------------------------
(***************************************************************************)
(* What fusion does when nobody watches: the abstract specification that   *)
(* FusionTrace implements.                                                 *)
(*                                                                         *)
(* A scheduler keeps a list of nodes.  fuse_nodes_once works on a copy of  *)
(* it, rewriting two nodes into one at a time and, in a loop-reordering    *)
(* round, changing the loops of nodes in place; its caller installs the    *)
(* result.  An exception anywhere abandons the passes it leaves.  This is  *)
(* torch._inductor.scheduler.Scheduler as fusion_trace.py uses it.         *)
(***************************************************************************)
EXTENDS Naturals, Sequences

CONSTANTS
    Schedulers,  \* Scheduler objects, the compiled graph's and its subgraphs'
    Atoms,       \* the SchedulerNodes of one graph
    MaxPasses,   \* bound: passes begun
    MaxFaults    \* bound: exceptions raised by the compiler itself

VARIABLES
    live,     \* scheduler.nodes: a node is the set of atoms fused in it
    loops,    \* which atoms have had their loops reordered
    frames,   \* the passes being executed, innermost last
    begun,    \* passes begun, to bound them
    faults,   \* exceptions raised, to bound them
    failing   \* an exception is propagating

historyVars == <<live, loops, frames, begun, faults, failing>>

HistoryInit ==
    /\ live = [s \in Schedulers |-> {{a} : a \in Atoms}]
    /\ loops = [s \in Schedulers |-> {}]
    /\ frames = <<>>
    /\ begun = 0
    /\ faults = 0
    /\ failing = FALSE

Innermost(s) == frames # <<>> /\ frames[Len(frames)].s = s

FusePair(nodes, n1, n2) == (nodes \ {n1, n2}) \cup {n1 \cup n2}

BeginPass(s, reorder) ==
    /\ ~failing
    /\ begun < MaxPasses
    /\ \A i \in DOMAIN frames : frames[i].s # s
    /\ begun' = begun + 1
    /\ frames' = Append(frames, [s |-> s, reorder |-> reorder, fused |-> live[s]])
    /\ UNCHANGED <<live, loops, faults, failing>>

(* A rewrite belongs to the innermost pass, or to no pass at all. *)
FuseInPass(n1, n2) ==
    /\ ~failing
    /\ frames # <<>>
    /\ {n1, n2} \subseteq frames[Len(frames)].fused /\ n1 # n2
    /\ frames' = [frames EXCEPT ![Len(frames)].fused = FusePair(@, n1, n2)]
    /\ UNCHANGED <<live, loops, begun, faults, failing>>

FuseOutOfPass(s, n1, n2) ==
    /\ ~failing
    /\ frames = <<>>
    /\ {n1, n2} \subseteq live[s] /\ n1 # n2
    /\ live' = [live EXCEPT ![s] = FusePair(@, n1, n2)]
    /\ UNCHANGED <<loops, frames, begun, faults, failing>>

ReorderLoops(a) ==
    /\ ~failing
    /\ frames # <<>>
    /\ frames[Len(frames)].reorder
    /\ loops' = [loops EXCEPT ![frames[Len(frames)].s] = @ \cup {a}]
    /\ UNCHANGED <<live, frames, begun, faults, failing>>

EndPass ==
    /\ ~failing
    /\ frames # <<>>
    /\ live' = [live EXCEPT ![frames[Len(frames)].s] = frames[Len(frames)].fused]
    /\ frames' = SubSeq(frames, 1, Len(frames) - 1)
    /\ UNCHANGED <<loops, begun, faults, failing>>

Throw ==
    /\ ~failing
    /\ faults < MaxFaults
    /\ faults' = faults + 1
    /\ failing' = TRUE
    /\ UNCHANGED <<live, loops, frames, begun>>

UnwindPass ==
    /\ failing
    /\ frames # <<>>
    /\ frames' = SubSeq(frames, 1, Len(frames) - 1)
    /\ UNCHANGED <<live, loops, begun, faults, failing>>

Catch ==
    /\ failing
    /\ failing' = FALSE
    /\ UNCHANGED <<live, loops, frames, begun, faults>>

HistoryNext ==
    \/ \E s \in Schedulers, reorder \in BOOLEAN : BeginPass(s, reorder)
    \/ \E n1, n2 \in SUBSET Atoms : FuseInPass(n1, n2)
    \/ \E s \in Schedulers, n1, n2 \in SUBSET Atoms : FuseOutOfPass(s, n1, n2)
    \/ \E a \in Atoms : ReorderLoops(a)
    \/ EndPass
    \/ Throw
    \/ UnwindPass
    \/ Catch

HistorySpec == HistoryInit /\ [][HistoryNext]_historyVars
=============================================================================
