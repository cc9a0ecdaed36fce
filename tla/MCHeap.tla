------------------------------- MODULE MCHeap -------------------------------
(* Alignment 2 and headers of 5 bytes, so that headers are not aligned. *)
EXTENDS Heap

SmallArenas == {<<1, 9>>, <<2, 31>>, <<3, 32>>}
=============================================================================
