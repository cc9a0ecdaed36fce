------------------------------ MODULE MCMcsfs1 ------------------------------
EXTENDS Mcsfs1, TLC

CONSTANTS x, y

(* An empty file, a file of one block and one of two. *)
SmallContents == {<<>>, <<x>>, <<y, x>>}

Symmetry == Permutations(Names)
=============================================================================
