---------------------------- MODULE MCFusedExec ----------------------------
(***************************************************************************)
(* The instance of FusedExec that TLC checks: values are residues, and Mix *)
(* tells operands and their order apart.                                   *)
(***************************************************************************)
EXTENDS FusedExec, TLC

Modulus == 251
MCUndef == Modulus
MCValue == 0..Modulus

MCMix(x, y) == IF MCUndef \in {x, y} THEN MCUndef ELSE (7 * x + 11 * y + 3) % Modulus
MCAdd(x, y) == IF MCUndef \in {x, y} THEN MCUndef ELSE (x + y) % Modulus

\* distinct contents for every address, so that a misplaced read shows
MCInitialMemory ==
    [at \in Buf \X Points \X Rs |->
        (29 * at[2] + 101 * at[3] + (IF at[1] \in Inputs THEN 5 ELSE 17)) % Modulus]

(* The children of a region are interchangeable. *)
ChildSymmetry == Permutations(Outputs)
=============================================================================
