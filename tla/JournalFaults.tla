--------------------------- MODULE JournalFaults ---------------------------
(***************************************************************************)
(* The journal on a disk whose journal blocks may also be damaged, as the  *)
(* last test of m16_mcsfs_journal.c damages a descriptor.  The ghost       *)
(* variables remember what the disk should hold: old, the home blocks when *)
(* the last transaction began, and intended, the same with every committed *)
(* transaction applied.  A target_lba that turns into another LBA of the   *)
(* device is not among the faults: no checksum covers it.                  *)
(***************************************************************************)
EXTENDS Journal

VARIABLES old, intended

ghosts == <<old, intended>>
allvars == <<home, head, desc, data, pc, idx, tx, rc, old, intended>>

FaultInit == /\ Init
             /\ old = home
             /\ intended = home

(* A header that fails the checks of m16_journal_recover. *)
DamageHeader == /\ head' = [head EXCEPT !.state = "bad"]
                /\ UNCHANGED <<home, desc, data>>

(* A descriptor that lost its magic number or points outside the device. *)
DamageMagic(i) == /\ desc' = [desc EXCEPT ![i] = NoDesc]
                  /\ UNCHANGED <<home, head, data>>

DamagePayload(i) == /\ \E v \in Value \ {data[i]} : data' = [data EXCEPT ![i] = v]
                    /\ UNCHANGED <<home, head, desc>>

DamageJournal == /\ \/ DamageHeader
                    \/ \E i \in Slot : DamageMagic(i) \/ DamagePayload(i)
                 /\ UNCHANGED <<pc, idx, tx, rc, old, intended>>

(* A step of the journal; the header write moves the intended contents. *)
JournalStep == /\ Next
               /\ old' = IF WriteHeader THEN intended ELSE old
               /\ intended' = IF WriteHeader THEN Overlay(intended, tx) ELSE intended

FaultNext == JournalStep \/ DamageJournal

FaultSpec == FaultInit /\ [][FaultNext]_allvars

(* Recovery fails closed: whatever it meets in a damaged journal, a home   *)
(* block holds its old or its intended contents, never a foreign payload   *)
(* ("recovery must fail closed instead of applying unknown target").       *)
FailsClosed == \A l \in Lba : home[l] \in {old[l], intended[l]}

(* A damaged journal may keep m16_mount from succeeding, but a mount that  *)
(* succeeds shows every committed transaction.                             *)
MountShowsCommitted == pc = "mounted" => home = intended
=============================================================================
