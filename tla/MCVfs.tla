------------------------------- MODULE MCVfs -------------------------------
(* Files have room for two bytes and the arena ends inside the second. *)
EXTENDS Vfs, FiniteSets, TLC

(* The path "fx" is cut to "f". *)
Cut(n) == IF n = "fx" THEN "f" ELSE n

(* 3 is behind every file, and -1 as a size_t. *)
SmallPositions == {0, 1, 3}
Signed(n) == IF n < 2 THEN n ELSE n - 4

SmallBuffers == {<<1>>, <<1, 0>>}

(* At most two descriptors are open at once: a full table, or one each. *)
FewOpen == Cardinality({x \in Proc \X Fd : InUse(x[1], x[2])}) <= 2

Symmetry == Permutations(Proc)
=============================================================================
