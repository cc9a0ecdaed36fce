----------------------------- MODULE MCMcsfs1j -----------------------------
(* MCSFS1J with two file inodes, three names and a three-block device. *)
EXTENDS Mcsfs1j, TLC

Symmetry == Permutations(Names) \cup Permutations(Contents)
=============================================================================
