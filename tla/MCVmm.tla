------------------------------- MODULE MCVmm -------------------------------
(* Frames of four bytes and tables of two entries. *)
EXTENDS Vmm

UsableRegion(b, l) == [base |-> b, length |-> l, usable |-> TRUE]
OtherRegion(b, l) == [base |-> b, length |-> l, usable |-> FALSE]

(* Aligned, unaligned, overlapping and oversized regions, one that ends    *)
(* past the last word and one that rounds up past it.                      *)
SmallMaps == {<<UsableRegion(1, 31)>>,
              <<UsableRegion(4, 44), OtherRegion(6, 4), UsableRegion(16, 8)>>,
              <<OtherRegion(0, 3), UsableRegion(3, 29), OtherRegion(62, 5), OtherRegion(24, 39)>>}

SmallRanges == {<<5, 1>>, <<22, 3>>, <<12, 51>>}

(* Two pages that share every table and one that shares the first two. *)
SmallPages == {<<0, 0, 0, 0>>, <<0, 0, 0, 1>>, <<0, 1, 0, 0>>}
=============================================================================
