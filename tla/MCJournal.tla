----------------------------- MODULE MCJournal -----------------------------
(* The journal on a disk of two or three home blocks. *)
EXTENDS JournalInv
=============================================================================
