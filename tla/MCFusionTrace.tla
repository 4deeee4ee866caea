---------------------------- MODULE MCFusionTrace ----------------------------
(***************************************************************************)
(* The instance of FusionTrace that TLC checks.                            *)
(***************************************************************************)
EXTENDS FusionTrace, TLC

(* Nothing tells captures, schedulers or the nodes of a graph apart. *)
NameSymmetry ==
    Permutations(Captures) \cup Permutations(Schedulers)
        \cup Permutations(Atoms \ Unsupported)
=============================================================================
