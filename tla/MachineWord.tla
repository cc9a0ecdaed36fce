---------------------------- MODULE MachineWord ----------------------------
(***************************************************************************)
(* Unsigned machine words and ranges of user addresses, shared by the ELF  *)
(* loader and the system calls.  The code has 2^64 words; every check of   *)
(* it that guards against wrap-around is meant for any number of them.     *)
(***************************************************************************)
EXTENDS Naturals

CONSTANT WordCount   \* 2^64

ASSUME WordAssumption == WordCount \in Nat \ {0}

Word == 0..(WordCount - 1)

(* a + b on two words. *)
Plus(a, b) == IF a + b < WordCount THEN a + b ELSE a + b - WordCount

(* struct m11_user_region and mcsos_user_region_t, which are the same. *)
Region == [base : Word, limit : Word]

(* The addresses a region stands for. *)
Inside(r) == {a \in Word : r.base <= a /\ a < r.limit}
=============================================================================
