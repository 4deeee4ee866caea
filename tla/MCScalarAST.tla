----------------------------- MODULE MCScalarAST -----------------------------
(***************************************************************************)
(* The instance of ScalarAST that TLC checks: three operations.            *)
(***************************************************************************)
EXTENDS ScalarAST, TLC

ThreeBuffers == <<"buf0", "buf1", "buf2">>
AccumulatorName(n) == "acc_" \o ToString(n)

SomeShapes == {<<>>, <<2, 3>>}
SomeReducedShapes == {<<>>, <<2>>}

\* columns before rows and rows backwards; the summed dimension; one cell
i0 == <<"i", 0>>
i1 == <<"i", 1>>
r0 == <<"r", 0>>
SomeIndices ==
    {<<<<Integer(1)>>, <<Integer(-1), Symbol(i0)>>, <<Integer(2), Symbol(i1)>>>>,
     <<<<Symbol(r0)>>>>,
     <<<<Integer(4)>>>>}

\* tells operands and their order apart
LinearMix(x, y) == (5 * x + 7 * y + 1) % 97
\* distinct contents for every cell
DistinctContents(name, i) == 31 * i + (IF name = "a" THEN 3 ELSE 13)
=============================================================================
