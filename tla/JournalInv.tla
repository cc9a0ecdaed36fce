----------------------------- MODULE JournalInv -----------------------------
(* The inductive invariant behind the theorems of JournalProofs. *)
EXTENDS Journal

(* A transaction is in memory exactly while m16_journal_commit runs, and   *)
(* the loop counters stay inside the records they walk over.               *)
ControlInv == /\ pc \in CommitPc => tx \in Tx
              /\ pc \notin CommitPc => tx = NoTx
              /\ pc \in {"c_desc", "c_data", "c_home"} => idx \in 1..Len(tx)
              /\ pc = "r_head" => idx = 1
              /\ pc = "r_record" => idx \in 1..head.count

(* Which header the disk holds at each point of a call. *)
HeaderInv == /\ head.state = "empty" => head = EmptyHeader
             /\ pc \in {"mounted", "c_clear", "c_desc", "c_data", "c_head"} =>
                  head = EmptyHeader
             /\ pc \in {"c_home", "c_done"} => head = CommittedHeader(Len(tx))
             /\ pc \in {"r_record", "r_clear"} => head.state = "committed"

Logged(i) == /\ desc[i] = [lba |-> tx[i].lba, sum |-> tx[i].val]
             /\ data[i] = tx[i].val

(* How much of the transaction has reached the journal. *)
LoggedInv == /\ pc \in {"c_desc", "c_data"} => \A i \in 1..(idx - 1) : Logged(i)
             /\ pc = "c_data" => desc[idx] = [lba |-> tx[idx].lba, sum |-> tx[idx].val]
             /\ pc \in {"c_head", "c_home", "c_done"} => \A i \in 1..Len(tx) : Logged(i)

InPlace(i) == home[desc[i].lba] = data[i]

(* How much of the journal has reached the home blocks. *)
HomeInv == /\ pc \in {"c_home", "r_record"} => \A i \in 1..(idx - 1) : InPlace(i)
           /\ pc \in {"c_done", "r_clear"} => \A i \in 1..head.count : InPlace(i)

JInv == /\ TypeOK
        /\ ControlInv
        /\ HeaderInv
        /\ LoggedInv
        /\ HomeInv
        /\ CommittedJournalReplayable
=============================================================================
