--------------------------- MODULE MCBufferCache ---------------------------
(* Two devices that share their LBAs: "a" has two blocks, "b" has one. *)
EXTENDS BufferCache

TwoSizes == [d \in {"a", "b"} |-> IF d = "a" THEN 4 ELSE 2]

(* All their blocks, and one behind the end of "b". *)
BeyondTheEnd == {<<"a", 0>>, <<"a", 1>>, <<"b", 0>>, <<"b", 1>>}

(* One block, two blocks, none, and ranges that end behind the device. *)
SmallRequests == {<<0, 1>>, <<0, 2>>, <<1, 1>>, <<1, 0>>, <<1, 2>>, <<2, 1>>}

None == <<"none", 0>>
=============================================================================
