------------------------------ MODULE MCIndexMap ------------------------------
(***************************************************************************)
(* The instance of IndexMap that TLC checks: extents whose products        *)
(* coincide in several ways, and an extent of one.                         *)
(***************************************************************************)
EXTENDS IndexMap

CONSTANT MaxNumel   \* bound: elements of a buffer

Extents == {1, 2, 3, 6}
Bounded(dims) ==
    {sizes \in BoundedSeq(Extents, dims) :
        /\ Product(sizes) <= MaxNumel
        /\ 1 \in Range(sizes) => Len(sizes) <= 2}

Parents == {<<<<12>>, <<>>>>, <<<<2, 6>>, <<>>>>, <<<<3>>, <<2>>>>, <<<<2>>, <<6>>>>}
Children == {ranges \in Bounded(3) \X Bounded(1) :
                /\ Len(ranges[1] \o ranges[2]) <= 3
                /\ Product(ranges[1] \o ranges[2]) <= MaxNumel}
Buffers == Bounded(3) \ {<<>>}
=============================================================================
