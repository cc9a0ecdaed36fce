-------------------------- MODULE MCJournalFaults --------------------------
(* The journal under damage, on a disk of two or three home blocks. *)
EXTENDS JournalFaults
=============================================================================
