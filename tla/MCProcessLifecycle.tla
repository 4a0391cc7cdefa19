------------------------- MODULE MCProcessLifecycle -------------------------
(* Three structs, or four where the table must be smaller than the heap.     *)
EXTENDS ProcessLifecycle

CONSTANTS p1, p2, p3, p4
ThreeStructs == {p1, p2, p3}
FourStructs == {p1, p2, p3, p4}
=============================================================================
