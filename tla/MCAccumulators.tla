---------------------------- MODULE MCAccumulators ----------------------------
(***************************************************************************)
(* The instance of Accumulators that TLC checks: no, one and two reduction *)
(* variables, and an empty nest.                                           *)
(***************************************************************************)
EXTENDS Accumulators, Bitwise

SmallShapes == {<<>>, <<3>>, <<2, 2>>, <<2, 0>>}
AllTypes == SimpleTypes \cup WelfordTypes
MCBitXor(a, b) == a ^^ b
SmallBatches == {<<>>, <<1>>, <<3, 0>>}
=============================================================================
