--------------------------- MODULE MCPostLowering ---------------------------
(* Values of the constants of PostLowering. *)
EXTENDS PostLowering

\* an input that is data or seeds, and one whose name says it holds seeds
MCInputs == {<<"input", 1>>, <<"input_seed", 2>>}

MCTargets == {<<"input", 1>>}

=============================================================================
