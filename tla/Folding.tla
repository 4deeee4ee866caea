-------------------------------- MODULE Folding --------------------------------
(***************************************************************************)
(* Folds along a sequence, as recursive functions: what the loops of the   *)
(* code that only accumulate come to.                                      *)
(***************************************************************************)
EXTENDS Naturals, Sequences

(* f[... f[f[base, xs[1]], xs[2]] ..., xs[Len(xs)]] *)
Fold(f, base, xs) ==
    LET result[n \in 0..Len(xs)] == IF n = 0 THEN base ELSE f[<<result[n - 1], xs[n]>>]
    IN result[Len(xs)]
=============================================================================
