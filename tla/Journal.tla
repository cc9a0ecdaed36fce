------------------------------ MODULE Journal ------------------------------
(***************************************************************************)
(* The MCSFS1J write-ahead journal, kernel/fs/mcsfs1j/m16_mcsfs_journal.c, *)
(* at the granularity of single block writes.  m16_write_block copies one  *)
(* whole block or fails with M16_E_IO; between any two block writes the    *)
(* power may fail, which loses everything but the disk.                    *)
(*                                                                         *)
(* The 32-bit FNV checksum is idealised as collision-free: the checksum    *)
(* of a block is the block.                                                *)
(***************************************************************************)
EXTENDS Transactions

CONSTANTS Zero,    \* contents of a zeroed block
          NoDesc   \* a descriptor block without M16_JMAGIC or a valid target

ASSUME JournalAssumption ==
  /\ MaxRecords \in Nat \ {0}
  /\ Zero \in Value
  /\ NoDesc \notin [lba : Lba, sum : Value]

Slot == 1..MaxRecords  \* record i has its descriptor and data block

VARIABLES
  home,  \* the blocks outside the journal
  head,  \* the block at M16_JOURNAL_START
  desc,  \* descriptor block of each record
  data,  \* payload block of each record
  pc,    \* the next block write of the running call
  idx,   \* its loop counter
  tx,    \* its transaction
  rc     \* how the last m16_journal_commit ended

disk == <<home, head, desc, data>>
vars == <<home, head, desc, data, pc, idx, tx, rc>>

(* struct m16_journal_header as recovery classifies it: zeroed, passing    *)
(* every check, or failing one of them.                                    *)
Header == [state : {"empty", "committed", "bad"}, count : 0..MaxRecords]
EmptyHeader == [state |-> "empty", count |-> 0]
(* Mutant: the count is one too high. *)
CommittedHeaderMutant(n) == [state |-> "committed", count |-> n + 1]
CommittedHeader(n) == [state |-> "committed", count |-> n]

(* struct m16_journal_desc with the magic number in place. *)
Descriptor == [lba : Lba, sum : Value]

CommitPc == {"c_clear", "c_desc", "c_data", "c_head", "c_home", "c_done"}
RecoverPc == {"r_head", "r_record", "r_clear"}

TypeOK == /\ home \in [Lba -> Value]
          /\ head \in Header
          /\ desc \in [Slot -> Descriptor \cup {NoDesc}]
          /\ data \in [Slot -> Value]
          /\ pc \in {"idle", "mounted"} \cup CommitPc \cup RecoverPc
          /\ idx \in 1..(MaxRecords + 1)
          /\ tx \in Tx \cup {NoTx}
          /\ rc \in {"none", "ok", "io", "crash"}

(* A disk that m16_format has just written, with an empty journal, whatever *)
(* it put into the other blocks; nothing is mounted.                        *)
Init == /\ home \in [Lba -> Value]
        /\ head = EmptyHeader
        /\ desc = [i \in Slot |-> NoDesc]
        /\ data = [i \in Slot |-> Zero]
        /\ pc = "idle"
        /\ idx = 1
        /\ tx = NoTx
        /\ rc = "none"

-----------------------------------------------------------------------------
(* m16_journal_recover, the first thing every call of the file system does. *)

Mount == /\ pc \in {"idle", "mounted"}
         /\ pc' = "r_head"
         /\ idx' = 1
         /\ UNCHANGED <<home, head, desc, data, tx, rc>>

(* Mutants: a committed journal is not replayed; a damaged one passes for empty. *)
ReadHeaderSkips == /\ pc = "r_head"
                   /\ head.state \in {"empty", "committed"} /\ pc' = "mounted"
                   /\ UNCHANGED <<home, head, desc, data, idx, tx, rc>>
ReadHeaderLenient == /\ pc = "r_head"
                     /\ pc' = IF head.state = "committed" THEN "r_record" ELSE "mounted"
                     /\ UNCHANGED <<home, head, desc, data, idx, tx, rc>>

(* The header decides: nothing to do, replay, or M16_E_CORRUPT. *)
ReadHeader == /\ pc = "r_head"
              /\ \/ head.state = "empty" /\ pc' = "mounted"
                 \/ head.state = "bad" /\ pc' = "idle"
                 \/ /\ head.state = "committed"
                    /\ pc' = IF head.count = 0 THEN "r_clear" ELSE "r_record"
              /\ UNCHANGED <<home, head, desc, data, idx, tx, rc>>

(* Mutant: the payload checksum is not compared. *)
RecordOkMutant(i) == desc[i] # NoDesc

RecordOk(i) == desc[i] # NoDesc /\ desc[i].sum = data[i]

(* Mutant: the replay loop ends one record early. *)
LastReplayedMutant == idx + 1 >= head.count

LastReplayed == idx = head.count

(* Check one record, then write its payload home. *)
ReplayRecord == /\ pc = "r_record"
                /\ RecordOk(idx)
                /\ home' = [home EXCEPT ![desc[idx].lba] = data[idx]]
                /\ idx' = idx + 1
                /\ pc' = IF LastReplayed THEN "r_clear" ELSE "r_record"
                /\ UNCHANGED <<head, desc, data, tx, rc>>

RejectRecord == /\ pc = "r_record"
                /\ ~RecordOk(idx)
                /\ pc' = "idle"
                /\ UNCHANGED <<home, head, desc, data, idx, tx, rc>>

(* One turn of the loop over the records. *)
RecoverRecord == /\ pc = "r_record"
                 /\ IF RecordOk(idx) THEN ReplayRecord ELSE RejectRecord

(* Mutant: recovery returns without m16_journal_clear. *)
ClearAfterReplayMutant == /\ pc = "r_clear"
                          /\ pc' = "mounted"
                          /\ UNCHANGED <<home, head, desc, data, idx, tx, rc>>

ClearAfterReplay == /\ pc = "r_clear"
                    /\ head' = EmptyHeader
                    /\ pc' = "mounted"
                    /\ UNCHANGED <<home, desc, data, idx, tx, rc>>

-----------------------------------------------------------------------------
(* m16_journal_commit; its caller has mounted. *)

Begin(t) == /\ pc = "mounted"
            /\ tx' = t
            /\ pc' = "c_clear"
            /\ rc' = "none"
            /\ UNCHANGED <<home, head, desc, data, idx>>

ClearHeader == /\ pc = "c_clear"
               /\ head' = EmptyHeader
               /\ pc' = "c_desc"
               /\ idx' = 1
               /\ UNCHANGED <<home, desc, data, tx, rc>>

(* Mutant: the last payload is not logged. *)
WriteDescMutant == /\ pc = "c_desc"
                   /\ desc' = [desc EXCEPT ![idx] = [lba |-> tx[idx].lba, sum |-> tx[idx].val]]
                   /\ pc' = IF idx = Len(tx) THEN "c_head" ELSE "c_data"
                   /\ UNCHANGED <<home, head, data, idx, tx, rc>>

WriteDesc == /\ pc = "c_desc"
             /\ desc' = [desc EXCEPT ![idx] = [lba |-> tx[idx].lba, sum |-> tx[idx].val]]
             /\ pc' = "c_data"
             /\ UNCHANGED <<home, head, data, idx, tx, rc>>

(* Mutant: the home blocks are written without a commit record. *)
WriteDataMutant == /\ pc = "c_data"
                   /\ data' = [data EXCEPT ![idx] = tx[idx].val]
                   /\ pc' = IF idx = Len(tx) THEN "c_home" ELSE "c_desc"
                   /\ idx' = IF idx = Len(tx) THEN 1 ELSE idx + 1
                   /\ UNCHANGED <<home, head, desc, tx, rc>>

WriteData == /\ pc = "c_data"
             /\ data' = [data EXCEPT ![idx] = tx[idx].val]
             /\ pc' = IF idx = Len(tx) THEN "c_head" ELSE "c_desc"
             /\ idx' = IF idx = Len(tx) THEN 1 ELSE idx + 1
             /\ UNCHANGED <<home, head, desc, tx, rc>>

(* The commit point. *)
WriteHeader == /\ pc = "c_head"
               /\ head' = CommittedHeader(Len(tx))
               /\ pc' = "c_home"
               /\ idx' = 1
               /\ UNCHANGED <<home, desc, data, tx, rc>>

(* Ends the call with code r; the caller's buffers are gone. *)
Return(r, to) == /\ rc' = r
                 /\ tx' = NoTx
                 /\ idx' = 1
                 /\ pc' = to

(* stop_after_commit_record: M16_E_OK with the home blocks still old. *)
StopAfterCommitRecord == /\ pc = "c_home"
                         /\ idx = 1
                         /\ Return("ok", "idle")
                         /\ UNCHANGED disk

WriteHome == /\ pc = "c_home"
             /\ home' = [home EXCEPT ![tx[idx].lba] = tx[idx].val]
             /\ pc' = IF idx = Len(tx) THEN "c_done" ELSE "c_home"
             /\ idx' = idx + 1
             /\ UNCHANGED <<head, desc, data, tx, rc>>

ClearAfterCommit == /\ pc = "c_done"
                    /\ head' = EmptyHeader
                    /\ Return("ok", "mounted")
                    /\ UNCHANGED <<home, desc, data>>

-----------------------------------------------------------------------------
(* Faults. *)

WritesPending == pc \in (CommitPc \cup RecoverPc) \ {"r_head"}

(* The pending block write fails (fail_after = 0); the call returns. *)
WriteFails == /\ WritesPending
              /\ Return(IF pc \in CommitPc THEN "io" ELSE rc, "idle")
              /\ UNCHANGED disk

(* Power loss between two block writes. *)
Crash == /\ pc # "idle"
         /\ Return(IF pc \in CommitPc THEN "crash" ELSE rc, "idle")
         /\ UNCHANGED disk

Recover == ReadHeader \/ RecoverRecord \/ ClearAfterReplay

Commit == \/ ClearHeader \/ WriteDesc \/ WriteData \/ WriteHeader
          \/ StopAfterCommitRecord \/ WriteHome \/ ClearAfterCommit

Next == \/ Mount
        \/ Recover
        \/ \E t \in Tx : Begin(t)
        \/ Commit
        \/ WriteFails
        \/ Crash

Spec == Init /\ [][Next]_vars

(* A call that is running goes on running, and there is a next call. *)
FairSpec == Spec /\ WF_vars(Mount) /\ WF_vars(Recover) /\ WF_vars(Commit)

-----------------------------------------------------------------------------
(* Properties. *)

(* The transaction a committed journal holds. *)
JournalTx == [i \in 1..head.count |-> [lba |-> desc[i].lba, val |-> data[i]]]

(* The disk as the next mount will show it. *)
Effective == IF head.state = "committed" THEN Overlay(home, JournalTx) ELSE home

Applied == pc \in {"c_home", "c_done"}

(* The journal implements a disk with atomic, at-most-once transactions:   *)
(* the block writes of m16_journal_commit and of any number of interrupted *)
(* replays add up to one effect at the header write.                       *)
Disk == INSTANCE AtomicDisk WITH store <- Effective, cur <- tx, applied <- Applied
AtomicDiskSpec == Disk!Spec

(* A committed header only ever covers records that pass every check of    *)
(* m16_journal_recover and name distinct targets, whatever half-written    *)
(* records earlier calls left behind: recovery never meets M16_E_CORRUPT   *)
(* on a disk that only crashed.                                            *)
CommittedJournalReplayable ==
  /\ head.state # "bad"
  /\ head.state = "committed" => /\ head.count \in Slot
                                 /\ \A i \in 1..head.count : RecordOk(i)
                                 /\ JournalTx \in Tx

(* A caller that m16_mount has let in reads home blocks with every         *)
(* committed transaction applied.                                          *)
MountedDiskIsCurrent == pc = "mounted" => home = Effective /\ head = EmptyHeader

(* Home blocks change only under a committed header that covers them       *)
(* ("metadata is not updated before commit").                              *)
HomeWrittenOnlyAfterCommit ==
  [][home' # home => /\ head.state = "committed" /\ head' = head
                     /\ \A l \in Lba : home'[l] # home[l] =>
                          \E i \in 1..head.count : desc[i].lba = l]_vars

NoFault == ~WriteFails /\ ~Crash

(* Once faults cease a committed transaction is replayed to the end and    *)
(* the journal is free again.                                              *)
CommittedIsReplayed ==
  <>[][NoFault]_vars => (head.state = "committed" ~> head.state = "empty")
=============================================================================
