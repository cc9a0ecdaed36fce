--------------------------- MODULE Transactions ---------------------------
(***************************************************************************)
(* struct m16_tx and what applying one means.  A transaction is a sequence *)
(* of records, each a target LBA with the block to store there.            *)
(***************************************************************************)
EXTENDS Naturals, Sequences

CONSTANTS Lba,        \* addresses of the home blocks
          Value,      \* contents of a block
          MaxRecords  \* M16_JOURNAL_MAX_RECORDS

Record == [lba : Lba, val : Value]

(* The transactions the file system builds: 1..MaxRecords records, no two  *)
(* for one block (bitmaps and inode table first, root directory and data   *)
(* block second; m16_tx_add and m16_store_inode_table refuse more).        *)
Tx == {t \in UNION {[1..n -> Record] : n \in 1..MaxRecords} :
         \A i, j \in DOMAIN t : t[i].lba = t[j].lba => i = j}

(* A zeroed struct m16_tx: nothing is in progress. *)
NoTx == <<>>

(* The records of t written over the blocks of h. *)
Overlay(h, t) ==
  [l \in Lba |->
     IF \E i \in DOMAIN t : t[i].lba = l
       THEN t[CHOOSE i \in DOMAIN t : t[i].lba = l].val
       ELSE h[l]]
===========================================================================
