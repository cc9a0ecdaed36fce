------------------------------ MODULE MCKernel ------------------------------
(* The kernel with words of four bits: an image has at most 12 bytes, two  *)
(* of them the ELF header, and a program header takes two.                 *)
EXTENDS Kernel

Regions == {[base |-> 4, limit |-> 12],
            [base |-> 4, limit |-> 15],   \* up to the last word
            [base |-> 0, limit |-> 9],    \* which the system calls refuse
            [base |-> 8, limit |-> 8]}    \* empty
CallRegions == {[base |-> 4, limit |-> 12], [base |-> 0, limit |-> 9]}

PowersOfTwo == {1, 2, 4, 8}

Code == [load |-> TRUE, flags |-> {"R", "X"}, offset |-> 8, vaddr |-> 4,
         filesz |-> 2, memsz |-> 3, align |-> 4]

(* Every header of a small product of fields. *)
Headers == [load : {TRUE}, flags : {{"R", "X"}},
            offset : {0, 8, 11, 12, 15}, vaddr : {3, 4, 8, 12, 15},
            filesz : {0, 1, 4, 15}, memsz : {0, 1, 4, 12, 15}, align : {0, 3, 4}]

(* Headers that a table combines: good, not to be loaded, overlapping,     *)
(* out of the region.                                                      *)
Flags == {{"R"}, {"R", "W"}, {"W", "X"}, {"R", "other"}}
Combined == {Code, [Code EXCEPT !.load = FALSE, !.vaddr = 0],
             [Code EXCEPT !.flags = {"R", "W"}, !.align = 0, !.vaddr = 6],
             [Code EXCEPT !.align = 0, !.vaddr = 14]}
Tables == {<<>>} \cup [1..1 -> Combined] \cup [1..2 -> Combined] \cup [1..3 -> Combined]

Good == [size |-> 12, wrong |-> {}, phoff |-> 2, entry |-> 5, ph |-> <<Code>>]

Wrong == {{"MAGIC"}, {"CLASS"}, {"ENDIAN"}, {"VERSION"}, {"TYPE"}, {"MACHINE"}, {"EHSIZE"},
          {"PHENTSIZE"}, {"PHENTSIZE", "TYPE"}, {"CLASS", "MACHINE"}}

Images == {[Good EXCEPT !.ph = <<h>>] : h \in Headers}
          \cup {[Good EXCEPT !.ph = t] : t \in Tables}
          \cup {[Good EXCEPT !.ph = <<[Code EXCEPT !.flags = f]>>] : f \in Flags}
          \cup {[Good EXCEPT !.wrong = w] : w \in Wrong}
          \cup {[Good EXCEPT !.size = s, !.phoff = o] : s \in {1, 2, 10, 12}, o \in {2, 10, 11, 13, 14, 15}}
          \cup {[Good EXCEPT !.entry = e] : e \in Word}

Calls == [image : Images, region : Regions]

Registered == {{}, Op \ {"write_serial"}}
=============================================================================
