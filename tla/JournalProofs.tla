--------------------------- MODULE JournalProofs ---------------------------
(***************************************************************************)
(* Proofs about Journal and JournalFaults, for every set of blocks, every  *)
(* set of contents and every journal size.                                 *)
(***************************************************************************)
EXTENDS JournalInv, JournalFaults, TLAPS

-----------------------------------------------------------------------------
(* Transactions and what applying them does. *)

(* A transaction is a non-empty sequence of records with distinct targets. *)
LEMMA TxFacts ==
  ASSUME NEW t \in Tx
  PROVE  /\ t \in Seq(Record)
         /\ Len(t) \in 1..MaxRecords
         /\ DOMAIN t = 1..Len(t)
         /\ \A i \in 1..Len(t) : /\ t[i] \in Record
                                 /\ t[i].lba \in Lba
                                 /\ t[i].val \in Value
         /\ \A i, j \in 1..Len(t) : t[i].lba = t[j].lba => i = j
         /\ t # NoTx
<1>1. PICK n \in 1..MaxRecords : t \in [1..n -> Record]
  BY DEF Tx
<1>2. n \in Nat /\ n >= 1
  BY JournalAssumption
<1>3. t \in Seq(Record) /\ Len(t) = n /\ DOMAIN t = 1..n
  BY <1>1, <1>2
<1>4. \A i \in 1..n : t[i] \in Record
  BY <1>1
<1>5. \A i, j \in 1..n : t[i].lba = t[j].lba => i = j
  BY <1>3 DEF Tx
<1>6. t # NoTx
  BY <1>2, <1>3 DEF NoTx
<1> QED
  BY <1>1, <1>3, <1>4, <1>5, <1>6 DEF Record

(* Conversely, records with distinct targets in 1..n make a transaction. *)
LEMMA TxIntro ==
  ASSUME NEW n \in 1..MaxRecords, NEW t \in [1..n -> Record],
         \A i, j \in 1..n : t[i].lba = t[j].lba => i = j
  PROVE  t \in Tx
<1>1. t \in UNION {[1..m -> Record] : m \in 1..MaxRecords}
  OBVIOUS
<1> QED
  BY <1>1 DEF Tx

(* Contents stay contents. *)
LEMMA OverlayType ==
  ASSUME NEW t \in Tx, NEW h \in [Lba -> Value]
  PROVE  Overlay(h, t) \in [Lba -> Value]
<1>1. \A i \in DOMAIN t : t[i].val \in Value
  BY TxFacts
<1> QED
  BY <1>1 DEF Overlay

(* Writing any target block of t is invisible under t. *)
LEMMA OverlayAbsorbs ==
  ASSUME NEW t \in Tx, NEW h \in [Lba -> Value],
         NEW i \in 1..Len(t), NEW v
  PROVE  Overlay([h EXCEPT ![t[i].lba] = v], t) = Overlay(h, t)
<1>1. i \in DOMAIN t
  BY TxFacts
<1>2. \A l \in Lba : (~ \E k \in DOMAIN t : t[k].lba = l)
                       => [h EXCEPT ![t[i].lba] = v][l] = h[l]
  BY <1>1
<1> QED
  BY <1>2 DEF Overlay

(* A disk on which every record of t is in place is left alone by t. *)
LEMMA OverlayDone ==
  ASSUME NEW t \in Tx, NEW h \in [Lba -> Value],
         \A i \in 1..Len(t) : h[t[i].lba] = t[i].val
  PROVE  Overlay(h, t) = h
<1>1. \A i \in DOMAIN t : h[t[i].lba] = t[i].val
  BY TxFacts
<1>2. ASSUME NEW l \in Lba
      PROVE  Overlay(h, t)[l] = h[l]
  <2>1. CASE \E i \in DOMAIN t : t[i].lba = l
    <3> DEFINE k == CHOOSE i \in DOMAIN t : t[i].lba = l
    <3>1. k \in DOMAIN t /\ t[k].lba = l
      BY <2>1
    <3>2. Overlay(h, t)[l] = t[k].val
      BY <2>1 DEF Overlay
    <3> QED
      BY <1>1, <3>1, <3>2
  <2>2. CASE ~ \E i \in DOMAIN t : t[i].lba = l
    BY <2>2 DEF Overlay
  <2> QED
    BY <2>1, <2>2
<1>3. Overlay(h, t) = [l \in Lba |-> Overlay(h, t)[l]]
  BY DEF Overlay
<1> QED
  BY <1>2, <1>3

-----------------------------------------------------------------------------
(* The inductive invariant. *)

(* A committed journal holds a transaction of Tx, and its records are the  *)
(* descriptor and data blocks of its slots.                                *)
LEMMA JournalTxFacts ==
  ASSUME JInv, head.state = "committed"
  PROVE  /\ JournalTx \in Tx
         /\ head.count \in 1..MaxRecords
         /\ Len(JournalTx) = head.count
         /\ \A i \in 1..head.count : /\ JournalTx[i].lba = desc[i].lba
                                     /\ JournalTx[i].val = data[i]
                                     /\ desc[i] \in Descriptor
                                     /\ desc[i].lba \in Lba
                                     /\ desc[i].sum = data[i]
         /\ \A i, j \in 1..head.count : desc[i].lba = desc[j].lba => i = j
<1>1. JournalTx \in Tx /\ head.count \in 1..MaxRecords
  BY DEF JInv, CommittedJournalReplayable, Slot
<1>2. DOMAIN JournalTx = 1..head.count
  BY DEF JournalTx
<1>3. Len(JournalTx) = head.count
  <2>1. DOMAIN JournalTx = 1..Len(JournalTx) /\ Len(JournalTx) \in 1..MaxRecords
    BY <1>1, TxFacts
  <2> QED
    BY <1>1, <1>2, <2>1, JournalAssumption
<1>4. \A i \in 1..head.count : JournalTx[i].lba = desc[i].lba /\ JournalTx[i].val = data[i]
  BY DEF JournalTx
<1>5. \A i \in 1..head.count : desc[i] \in Descriptor /\ desc[i].sum = data[i]
  BY <1>1, JournalAssumption DEF JInv, TypeOK, CommittedJournalReplayable, RecordOk, Slot
<1>6. \A i, j \in 1..head.count : desc[i].lba = desc[j].lba => i = j
  BY <1>1, <1>3, <1>4, TxFacts
<1> QED
  BY <1>1, <1>3, <1>4, <1>5, <1>6 DEF Descriptor

(* A freshly formatted disk. *)
LEMMA InitInv == Init => JInv
<1> SUFFICES ASSUME Init PROVE JInv
  OBVIOUS
<1>1. TypeOK
  BY JournalAssumption DEF Init, TypeOK, Header, EmptyHeader, Slot
<1>2. ControlInv /\ HeaderInv /\ LoggedInv /\ HomeInv
  BY DEF Init, ControlInv, HeaderInv, LoggedInv, HomeInv, CommitPc
<1>3. CommittedJournalReplayable
  BY DEF Init, CommittedJournalReplayable, EmptyHeader
<1> QED
  BY <1>1, <1>2, <1>3 DEF JInv

(* Steps that leave the disk alone and end up outside a commit. *)
LEMMA ReturnInv ==
  ASSUME JInv, UNCHANGED disk, NEW r \in {"none", "ok", "io", "crash"}, Return(r, "idle")
  PROVE  JInv'
<1> USE DEF Return, disk
<1>1. TypeOK'
  BY JournalAssumption DEF JInv, TypeOK, NoTx
<1>2. ControlInv' /\ HeaderInv' /\ LoggedInv' /\ HomeInv'
  BY DEF JInv, ControlInv, HeaderInv, LoggedInv, HomeInv, CommitPc
<1>3. CommittedJournalReplayable'
  BY DEF JInv, CommittedJournalReplayable, RecordOk, JournalTx
<1> QED
  BY <1>1, <1>2, <1>3 DEF JInv

(* The steps of m16_journal_recover. *)
LEMMA RecoverInv ==
  ASSUME JInv, Mount \/ Recover
  PROVE  JInv'
<1> USE DEF JInv
<1>1. CASE Mount
  <2> USE <1>1 DEF Mount
  <2>1. TypeOK'
    BY JournalAssumption DEF TypeOK, RecoverPc
  <2>2. ControlInv' /\ HeaderInv' /\ LoggedInv' /\ HomeInv'
    BY DEF ControlInv, HeaderInv, LoggedInv, HomeInv, CommitPc
  <2>3. CommittedJournalReplayable'
    BY DEF CommittedJournalReplayable, RecordOk, JournalTx
  <2> QED
    BY <2>1, <2>2, <2>3
<1>2. CASE ReadHeader
  <2> USE <1>2 DEF ReadHeader
  <2>1. \/ head.state = "empty" /\ pc' = "mounted"
        \/ head.state = "committed" /\ head.count \in 1..MaxRecords /\ pc' = "r_record"
    BY JournalAssumption DEF CommittedJournalReplayable, TypeOK, Header, Slot
  <2>2. TypeOK'
    BY <2>1 DEF TypeOK, RecoverPc
  <2>3. CommittedJournalReplayable'
    BY DEF CommittedJournalReplayable, RecordOk, JournalTx
  <2>4. ControlInv'
    BY <2>1, JournalAssumption DEF ControlInv, CommitPc
  <2>5. HeaderInv'
    BY <2>1 DEF HeaderInv
  <2>6. LoggedInv' /\ HomeInv'
    BY <2>1 DEF LoggedInv, HomeInv, ControlInv
  <2> QED
    BY <2>2, <2>3, <2>4, <2>5, <2>6
<1>3. CASE ReplayRecord
  <2> USE <1>3 DEF ReplayRecord, LastReplayed
  <2>1. head.state = "committed" /\ idx \in 1..head.count /\ tx = NoTx
    BY DEF HeaderInv, ControlInv, CommitPc
  <2>2. /\ head.count \in 1..MaxRecords
        /\ \A i \in 1..head.count : desc[i].lba \in Lba /\ data[i] \in Value
        /\ \A i, j \in 1..head.count : desc[i].lba = desc[j].lba => i = j
    <3>1. head.count \in 1..MaxRecords
      BY <2>1, JournalTxFacts
    <3>2. \A i \in 1..head.count : data[i] \in Value
      BY <3>1, JournalAssumption DEF TypeOK, Slot
    <3> QED
      BY <2>1, <3>1, <3>2, JournalTxFacts
  <2>3. pc' = IF idx = head.count THEN "r_clear" ELSE "r_record"
    OBVIOUS
  <2>4. TypeOK'
    <3>1. home' \in [Lba -> Value]
      BY <2>1, <2>2 DEF TypeOK
    <3>2. idx' \in 1..(MaxRecords + 1)
      BY <2>1, <2>2, JournalAssumption
    <3> QED
      BY <3>1, <3>2 DEF TypeOK, RecoverPc
  <2>5. ControlInv' /\ HeaderInv' /\ LoggedInv'
    BY <2>1, <2>2, JournalAssumption DEF ControlInv, HeaderInv, LoggedInv, CommitPc
  <2>6. CommittedJournalReplayable'
    BY DEF CommittedJournalReplayable, RecordOk, JournalTx
  <2>7. \A i \in 1..idx : InPlace(i)'
    <3> TAKE i \in 1..idx
    <3>1. i \in 1..head.count /\ idx \in 1..head.count
      BY <2>1, <2>2, JournalAssumption
    <3>2. CASE i = idx
      BY <2>2, <3>1, <3>2 DEF InPlace, TypeOK
    <3>3. CASE i # idx
      <4>1. InPlace(i)
        BY <2>1, <2>2, <3>3, JournalAssumption DEF HomeInv
      <4>2. desc[i].lba # desc[idx].lba
        BY <2>2, <3>1, <3>3
      <4> QED
        BY <2>2, <3>1, <4>1, <4>2 DEF InPlace, TypeOK
    <3> QED
      BY <3>2, <3>3
  <2>8. HomeInv'
    BY <2>1, <2>2, <2>7, JournalAssumption DEF HomeInv
  <2> QED
    BY <2>4, <2>5, <2>6, <2>8
<1>4. CASE RejectRecord
  <2> USE <1>4 DEF RejectRecord
  <2>1. FALSE
    BY DEF HeaderInv, ControlInv, CommittedJournalReplayable
  <2> QED
    BY <2>1
<1>5. CASE ClearAfterReplay
  <2> USE <1>5 DEF ClearAfterReplay
  <2>1. TypeOK'
    BY JournalAssumption DEF TypeOK, Header, EmptyHeader
  <2>2. ControlInv' /\ HeaderInv' /\ LoggedInv' /\ HomeInv'
    BY DEF ControlInv, HeaderInv, LoggedInv, HomeInv, CommitPc, EmptyHeader
  <2>3. CommittedJournalReplayable'
    BY DEF CommittedJournalReplayable, EmptyHeader
  <2> QED
    BY <2>1, <2>2, <2>3
<1> QED
  BY <1>1, <1>2, <1>3, <1>4, <1>5 DEF Recover, RecoverRecord

(* The steps of m16_journal_commit up to the header write: the journal     *)
(* fills under an empty header.                                            *)
LEMMA LoggingInv ==
  ASSUME JInv, (\E t \in Tx : Begin(t)) \/ ClearHeader \/ WriteDesc \/ WriteData
  PROVE  JInv'
<1> USE DEF JInv
<1>1. CASE \E t \in Tx : Begin(t)
  <2> USE DEF Begin
  <2>1. PICK t \in Tx : Begin(t)
    BY <1>1
  <2>2. TypeOK'
    BY <2>1 DEF TypeOK, CommitPc
  <2>3. ControlInv' /\ HeaderInv' /\ LoggedInv' /\ HomeInv'
    BY <2>1 DEF ControlInv, HeaderInv, LoggedInv, HomeInv, CommitPc
  <2>4. CommittedJournalReplayable'
    BY <2>1 DEF CommittedJournalReplayable, RecordOk, JournalTx
  <2> QED
    BY <2>2, <2>3, <2>4
<1>2. CASE ClearHeader
  <2> USE <1>2 DEF ClearHeader
  <2>1. tx \in Tx /\ Len(tx) \in 1..MaxRecords
    BY TxFacts DEF ControlInv, CommitPc
  <2>2. TypeOK'
    BY JournalAssumption DEF TypeOK, CommitPc, Header, EmptyHeader
  <2>3. ControlInv'
    BY <2>1, JournalAssumption DEF ControlInv, CommitPc
  <2>4. HeaderInv' /\ LoggedInv' /\ HomeInv'
    BY DEF HeaderInv, LoggedInv, HomeInv, EmptyHeader
  <2>5. CommittedJournalReplayable'
    BY DEF CommittedJournalReplayable, EmptyHeader
  <2> QED
    BY <2>2, <2>3, <2>4, <2>5
<1>3. CASE WriteDesc
  <2> USE <1>3 DEF WriteDesc
  <2>1. /\ tx \in Tx /\ idx \in 1..Len(tx) /\ Len(tx) \in 1..MaxRecords
        /\ tx[idx].lba \in Lba /\ tx[idx].val \in Value
    BY TxFacts DEF ControlInv, CommitPc
  <2>2. idx \in Slot /\ head = EmptyHeader
    BY <2>1, JournalAssumption DEF Slot, HeaderInv
  <2>3. TypeOK'
    <3>1. desc' \in [Slot -> Descriptor \cup {NoDesc}]
      BY <2>1, <2>2 DEF TypeOK, Descriptor
    <3> QED
      BY <3>1 DEF TypeOK, CommitPc
  <2>4. ControlInv' /\ HeaderInv' /\ HomeInv'
    BY DEF ControlInv, HeaderInv, HomeInv, CommitPc
  <2>5. LoggedInv'
    BY <2>1, <2>2, JournalAssumption DEF LoggedInv, Logged, TypeOK, Slot
  <2>6. CommittedJournalReplayable'
    BY <2>2 DEF CommittedJournalReplayable, EmptyHeader
  <2> QED
    BY <2>3, <2>4, <2>5, <2>6
<1>4. CASE WriteData
  <2> USE <1>4 DEF WriteData
  <2>1. /\ tx \in Tx /\ idx \in 1..Len(tx) /\ Len(tx) \in 1..MaxRecords
        /\ tx[idx].val \in Value
    BY TxFacts DEF ControlInv, CommitPc
  <2>2. idx \in Slot /\ head = EmptyHeader
    BY <2>1, JournalAssumption DEF Slot, HeaderInv
  <2>3. TypeOK'
    <3>1. data' \in [Slot -> Value]
      BY <2>1, <2>2 DEF TypeOK
    <3>2. idx' \in 1..(MaxRecords + 1)
      BY <2>1, JournalAssumption
    <3> QED
      BY <3>1, <3>2 DEF TypeOK, CommitPc
  <2>4. ControlInv' /\ HeaderInv' /\ HomeInv'
    BY <2>1, <2>2, JournalAssumption DEF ControlInv, HeaderInv, HomeInv, CommitPc
  <2>5. \A i \in 1..idx : Logged(i)'
    <3> TAKE i \in 1..idx
    <3>1. i \in Slot
      BY <2>1, JournalAssumption DEF Slot
    <3>2. CASE i = idx
      BY <3>1, <3>2 DEF LoggedInv, Logged, TypeOK
    <3>3. CASE i # idx
      <4>1. Logged(i)
        BY <2>1, <3>3, JournalAssumption DEF LoggedInv
      <4> QED
        BY <3>1, <3>3, <4>1 DEF Logged, TypeOK
    <3> QED
      BY <3>2, <3>3
  <2>6. LoggedInv'
    <3>1. CASE idx = Len(tx)
      BY <2>5, <3>1 DEF LoggedInv, Logged
    <3>2. CASE idx # Len(tx)
      BY <2>1, <2>5, <3>2, JournalAssumption DEF LoggedInv, Logged
    <3> QED
      BY <3>1, <3>2
  <2>7. CommittedJournalReplayable'
    BY <2>2 DEF CommittedJournalReplayable, EmptyHeader
  <2> QED
    BY <2>3, <2>4, <2>6, <2>7
<1> QED
  BY <1>1, <1>2, <1>3, <1>4

(* At the commit point the journal holds exactly the transaction. *)
LEMMA CommitPoint ==
  ASSUME JInv, WriteHeader
  PROVE  JournalTx' = tx
<1>1. tx \in Tx /\ DOMAIN tx = 1..Len(tx) /\ \A i \in 1..Len(tx) : tx[i] \in Record
  BY TxFacts DEF JInv, ControlInv, CommitPc, WriteHeader
<1>2. \A i \in 1..Len(tx) : Logged(i)
  BY DEF JInv, LoggedInv, WriteHeader
<1>3. JournalTx' = [i \in 1..Len(tx) |-> [lba |-> desc[i].lba, val |-> data[i]]]
  BY DEF JournalTx, WriteHeader, CommittedHeader
<1>4. \A i \in 1..Len(tx) : [lba |-> desc[i].lba, val |-> data[i]] = tx[i]
  <2> TAKE i \in 1..Len(tx)
  <2>1. tx[i] = [lba |-> tx[i].lba, val |-> tx[i].val]
    BY <1>1 DEF Record
  <2>2. desc[i].lba = tx[i].lba /\ data[i] = tx[i].val
    <3>1. Logged(i)
      BY <1>2
    <3> QED
      BY <3>1 DEF Logged
  <2> QED
    BY <2>1, <2>2
<1>5. tx = [i \in 1..Len(tx) |-> tx[i]]
  <2>1. tx \in [1..Len(tx) -> Record]
    BY <1>1, TxFacts
  <2> QED
    BY <2>1
<1> QED
  BY <1>3, <1>4, <1>5

(* The commit point and the steps after it: the home blocks fill under a   *)
(* committed header.                                                       *)
LEMMA HomingInv ==
  ASSUME JInv, WriteHeader \/ StopAfterCommitRecord \/ WriteHome \/ ClearAfterCommit
  PROVE  JInv'
<1> USE DEF JInv
<1>1. CASE WriteHeader
  <2> USE <1>1 DEF WriteHeader
  <2>1. tx \in Tx /\ Len(tx) \in 1..MaxRecords
    BY TxFacts DEF ControlInv, CommitPc
  <2>2. TypeOK'
    BY <2>1, JournalAssumption DEF TypeOK, CommitPc, Header, CommittedHeader
  <2>3. ControlInv'
    BY <2>1, JournalAssumption DEF ControlInv, CommitPc
  <2>4. HeaderInv' /\ LoggedInv' /\ HomeInv'
    BY DEF HeaderInv, LoggedInv, HomeInv, Logged, CommittedHeader
  <2>5. CommittedJournalReplayable'
    <3>1. JournalTx' \in Tx
      BY <2>1, CommitPoint
    <3>2. \A i \in 1..Len(tx) : RecordOk(i)'
      <4> TAKE i \in 1..Len(tx)
      <4>1. Logged(i)
        BY DEF LoggedInv
      <4>2. tx[i].lba \in Lba /\ tx[i].val \in Value
        BY <2>1, TxFacts
      <4> QED
        BY <4>1, <4>2, JournalAssumption DEF Logged, RecordOk
    <3> QED
      BY <2>1, <3>1, <3>2 DEF CommittedJournalReplayable, CommittedHeader, Slot
  <2> QED
    BY <2>2, <2>3, <2>4, <2>5
<1>2. CASE StopAfterCommitRecord
  BY <1>2, ReturnInv DEF StopAfterCommitRecord
<1>3. CASE WriteHome
  <2> USE <1>3 DEF WriteHome
  <2>1. /\ tx \in Tx /\ idx \in 1..Len(tx) /\ Len(tx) \in 1..MaxRecords
        /\ \A i \in 1..Len(tx) : tx[i].lba \in Lba /\ tx[i].val \in Value
        /\ \A i, j \in 1..Len(tx) : tx[i].lba = tx[j].lba => i = j
    BY TxFacts DEF ControlInv, CommitPc
  <2>2. head = CommittedHeader(Len(tx)) /\ head.count = Len(tx)
    BY DEF HeaderInv, CommittedHeader
  <2>3. \A i \in 1..Len(tx) : desc[i].lba = tx[i].lba /\ data[i] = tx[i].val
    <3> TAKE i \in 1..Len(tx)
    <3>1. Logged(i)
      BY DEF LoggedInv
    <3> QED
      BY <3>1 DEF Logged
  <2>4. TypeOK'
    <3>1. home' \in [Lba -> Value]
      BY <2>1 DEF TypeOK
    <3>2. idx' \in 1..(MaxRecords + 1)
      BY <2>1, JournalAssumption
    <3> QED
      BY <3>1, <3>2 DEF TypeOK, CommitPc
  <2>5. ControlInv' /\ HeaderInv'
    BY <2>1, JournalAssumption DEF ControlInv, HeaderInv, CommitPc
  <2>6. LoggedInv'
    BY DEF LoggedInv, Logged
  <2>7. CommittedJournalReplayable'
    BY DEF CommittedJournalReplayable, RecordOk, JournalTx
  <2>8. \A i \in 1..idx : InPlace(i)'
    <3> TAKE i \in 1..idx
    <3>1. i \in 1..Len(tx)
      BY <2>1, JournalAssumption
    <3>2. CASE i = idx
      BY <2>1, <2>3, <3>1, <3>2 DEF InPlace, TypeOK
    <3>3. CASE i # idx
      <4>1. InPlace(i)
        BY <2>1, <3>3, JournalAssumption DEF HomeInv
      <4>2. desc[i].lba # tx[idx].lba
        BY <2>1, <2>3, <3>1, <3>3
      <4> QED
        BY <2>1, <2>3, <3>1, <4>1, <4>2 DEF InPlace, TypeOK
    <3> QED
      BY <3>2, <3>3
  <2>9. HomeInv'
    BY <2>1, <2>2, <2>8, JournalAssumption DEF HomeInv
  <2> QED
    BY <2>4, <2>5, <2>6, <2>7, <2>9
<1>4. CASE ClearAfterCommit
  <2> USE <1>4 DEF ClearAfterCommit, Return
  <2>1. TypeOK'
    BY JournalAssumption DEF TypeOK, Header, EmptyHeader
  <2>2. ControlInv' /\ HeaderInv' /\ LoggedInv' /\ HomeInv'
    BY DEF ControlInv, HeaderInv, LoggedInv, HomeInv, CommitPc, EmptyHeader
  <2>3. CommittedJournalReplayable'
    BY DEF CommittedJournalReplayable, EmptyHeader
  <2> QED
    BY <2>1, <2>2, <2>3
<1> QED
  BY <1>1, <1>2, <1>3, <1>4

(* Every step keeps the invariant. *)
LEMMA NextInv == JInv /\ [Next]_vars => JInv'
<1> SUFFICES ASSUME JInv, [Next]_vars PROVE JInv'
  OBVIOUS
<1>1. CASE Mount \/ Recover
  BY <1>1, RecoverInv
<1>2. CASE (\E t \in Tx : Begin(t)) \/ ClearHeader \/ WriteDesc \/ WriteData
  BY <1>2, LoggingInv
<1>3. CASE WriteHeader \/ StopAfterCommitRecord \/ WriteHome \/ ClearAfterCommit
  BY <1>3, HomingInv
<1>4. CASE WriteFails \/ Crash
  <2>1. PICK r \in {"none", "ok", "io", "crash"} : Return(r, "idle") /\ UNCHANGED disk
    BY <1>4 DEF WriteFails, Crash, JInv, TypeOK
  <2> QED
    BY <2>1, ReturnInv
<1>5. CASE UNCHANGED vars
  BY <1>5 DEF vars, JInv, TypeOK, ControlInv, HeaderInv, LoggedInv, Logged, HomeInv,
              InPlace, CommittedJournalReplayable, RecordOk, JournalTx
<1> QED
  BY <1>1, <1>2, <1>3, <1>4, <1>5 DEF Next, Commit

(* Every reachable state of the journal satisfies JInv. *)
THEOREM Invariance == Spec => []JInv
  BY InitInv, NextInv, PTL DEF Spec

(* Type correctness of the journal's disk and of its call state. *)
THEOREM TypeCorrect == Spec => []TypeOK
<1>1. JInv => TypeOK
  BY DEF JInv
<1> QED
  BY <1>1, Invariance, PTL

(* Whatever crashes and write errors leave behind, a committed header      *)
(* covers only complete records: m16_journal_recover replays it and never  *)
(* returns M16_E_CORRUPT.                                                  *)
THEOREM Replayable == Spec => []CommittedJournalReplayable
<1>1. JInv => CommittedJournalReplayable
  BY DEF JInv
<1> QED
  BY <1>1, Invariance, PTL

(* A successful m16_mount shows every committed transaction in the home    *)
(* blocks.                                                                 *)
THEOREM MountedCurrent == Spec => []MountedDiskIsCurrent
<1>1. JInv => MountedDiskIsCurrent
  BY DEF JInv, HeaderInv, MountedDiskIsCurrent, Effective, EmptyHeader
<1> QED
  BY <1>1, Invariance, PTL

-----------------------------------------------------------------------------
(* Home blocks and the atomic disk. *)

(* A home block is written only under a committed header that names it, so *)
(* a crash before the commit point leaves every home block as it was.      *)
THEOREM HomeAfterCommit == Spec => HomeWrittenOnlyAfterCommit
<1>1. ASSUME JInv, [Next]_vars, home' # home
      PROVE  /\ head.state = "committed" /\ head' = head
             /\ \A l \in Lba : home'[l] # home[l] => \E i \in 1..head.count : desc[i].lba = l
  <2>1. WriteHome \/ ReplayRecord
    BY <1>1 DEF Next, vars, Mount, Recover, RecoverRecord, ReadHeader, RejectRecord, ClearAfterReplay, Begin,
                Commit, ClearHeader, WriteDesc, WriteData, WriteHeader, StopAfterCommitRecord,
                ClearAfterCommit, WriteFails, Crash, disk
  <2>2. CASE ReplayRecord
    <3>1. head.state = "committed" /\ idx \in 1..head.count
      BY <1>1, <2>2 DEF JInv, HeaderInv, ControlInv, ReplayRecord
    <3>2. home' = [home EXCEPT ![desc[idx].lba] = data[idx]] /\ head' = head
      BY <2>2 DEF ReplayRecord
    <3> QED
      BY <1>1, <3>1, <3>2 DEF JInv, TypeOK
  <2>3. CASE WriteHome
    <3>1. head.state = "committed" /\ head.count = Len(tx) /\ idx \in 1..Len(tx)
      BY <1>1, <2>3 DEF JInv, HeaderInv, CommittedHeader, ControlInv, WriteHome
    <3>2. Logged(idx)
      BY <1>1, <2>3, <3>1 DEF JInv, LoggedInv, WriteHome
    <3>3. desc[idx].lba = tx[idx].lba
      BY <3>2 DEF Logged
    <3>4. home' = [home EXCEPT ![tx[idx].lba] = tx[idx].val] /\ head' = head
      BY <2>3 DEF WriteHome
    <3> QED
      BY <1>1, <3>1, <3>3, <3>4 DEF JInv, TypeOK
  <2> QED
    BY <2>1, <2>2, <2>3
<1>2. JInv /\ [Next]_vars =>
        [home' # home => /\ head.state = "committed" /\ head' = head
                         /\ \A l \in Lba : home'[l] # home[l] =>
                              \E i \in 1..head.count : desc[i].lba = l]_vars
  BY <1>1
<1> QED
  BY <1>2, Invariance, PTL DEF Spec, HomeWrittenOnlyAfterCommit

(* AtomicDisk reads transactions the way Journal does. *)
LEMMA SameTransactions ==
  /\ Disk!Tx = Tx
  /\ Disk!NoTx = NoTx
  /\ \A h, t : Disk!Overlay(h, t) = Overlay(h, t)
<1>1. Disk!Tx = Tx
  BY DEF Disk!Tx, Tx, Disk!Record, Record
<1>2. Disk!NoTx = NoTx
  BY DEF Disk!NoTx, NoTx
<1>3. \A h, t : Disk!Overlay(h, t) = Overlay(h, t)
  BY DEF Disk!Overlay, Overlay
<1> QED
  BY <1>1, <1>2, <1>3

(* A replay or home write of a committed record does not show. *)
LEMMA HomingInvisible ==
  ASSUME JInv, ReplayRecord \/ WriteHome
  PROVE  Effective' = Effective
<1>1. PICK i \in 1..head.count :
        /\ head.state = "committed"
        /\ \E v : home' = [home EXCEPT ![desc[i].lba] = v]
        /\ UNCHANGED <<head, desc, data>>
  <2>1. CASE ReplayRecord
    BY <2>1 DEF JInv, HeaderInv, ControlInv, ReplayRecord
  <2>2. CASE WriteHome
    <3>1. head.state = "committed" /\ head.count = Len(tx) /\ idx \in 1..Len(tx)
      BY <2>2 DEF JInv, HeaderInv, CommittedHeader, ControlInv, WriteHome
    <3>2. Logged(idx)
      BY <2>2, <3>1 DEF JInv, LoggedInv, WriteHome
    <3>3. desc[idx].lba = tx[idx].lba
      BY <3>2 DEF Logged
    <3> QED
      BY <2>2, <3>1, <3>3 DEF WriteHome
  <2> QED
    BY <2>1, <2>2
<1>2. /\ JournalTx \in Tx /\ i \in 1..Len(JournalTx)
      /\ JournalTx[i].lba = desc[i].lba
  BY <1>1, JournalTxFacts
<1>3. Overlay(home', JournalTx) = Overlay(home, JournalTx)
  <2>1. PICK v : home' = [home EXCEPT ![JournalTx[i].lba] = v]
    BY <1>1, <1>2
  <2> QED
    BY <1>2, <2>1, OverlayAbsorbs DEF JInv, TypeOK
<1>4. JournalTx' = JournalTx
  BY <1>1 DEF JournalTx
<1> QED
  BY <1>1, <1>3, <1>4 DEF Effective

(* Clearing the header of a journal whose records are all in place does    *)
(* not show.                                                               *)
LEMMA ClearInvisible ==
  ASSUME JInv, ClearAfterReplay \/ ClearAfterCommit
  PROVE  Effective' = Effective
<1>1. head.state = "committed" /\ \A i \in 1..head.count : InPlace(i)
  BY DEF JInv, HeaderInv, CommittedHeader, HomeInv, ClearAfterReplay, ClearAfterCommit
<1>2. /\ JournalTx \in Tx
      /\ \A i \in 1..Len(JournalTx) : home[JournalTx[i].lba] = JournalTx[i].val
  BY <1>1, JournalTxFacts DEF InPlace
<1>3. Effective = home
  BY <1>1, <1>2, OverlayDone DEF JInv, TypeOK, Effective
<1>4. Effective' = home
  BY DEF ClearAfterReplay, ClearAfterCommit, Effective, EmptyHeader
<1> QED
  BY <1>3, <1>4

(* Where a commit stands, for the refinement. *)
LEMMA CurIffCommit ==
  ASSUME JInv
  PROVE  /\ pc \in CommitPc <=> tx # NoTx
         /\ Applied => tx # NoTx
  BY TxFacts DEF JInv, ControlInv, CommitPc, Applied

(* Every step of the journal is a step of the atomic disk or invisible. *)
LEMMA StepRefines == JInv /\ [Next]_vars => [Disk!Next]_Disk!vars
<1> SUFFICES ASSUME JInv, [Next]_vars PROVE Disk!Next \/ UNCHANGED Disk!vars
  OBVIOUS
<1> USE SameTransactions, CurIffCommit DEF Disk!vars
<1>1. CASE Mount \/ ReadHeader \/ RejectRecord \/ UNCHANGED vars
  <2>1. UNCHANGED <<home, head, desc, data, tx, rc>>
    BY <1>1 DEF Mount, ReadHeader, RejectRecord, vars
  <2>2. Applied' = Applied
    BY <1>1 DEF Mount, ReadHeader, RejectRecord, Applied, vars
  <2>3. Effective' = Effective
    BY <2>1 DEF Effective, JournalTx
  <2> QED
    BY <2>1, <2>2, <2>3
<1>2. CASE ReplayRecord
  BY <1>2, HomingInvisible DEF ReplayRecord, Applied
<1>3. CASE ClearAfterReplay
  BY <1>3, ClearInvisible DEF ClearAfterReplay, Applied
<1>4. CASE \E t \in Tx : Begin(t)
  <2>1. PICK t \in Tx : Begin(t)
    BY <1>4
  <2>2. Effective' = Effective
    BY <2>1 DEF Begin, Effective, JournalTx
  <2>3. tx = NoTx /\ tx' = t /\ rc' = "none"
    BY <2>1 DEF Begin, CommitPc
  <2>4. Applied' = Applied
    BY <2>1 DEF Begin, Applied
  <2>5. Disk!Submit(t)
    BY <2>2, <2>3, <2>4 DEF Disk!Submit
  <2> QED
    BY <2>5 DEF Disk!Next
<1>5. CASE ClearHeader \/ WriteDesc \/ WriteData
  <2>1. head = EmptyHeader /\ head' = EmptyHeader /\ home' = home
    BY <1>5 DEF JInv, HeaderInv, ClearHeader, WriteDesc, WriteData
  <2>2. Effective' = Effective
    BY <2>1 DEF Effective, EmptyHeader
  <2> QED
    BY <1>5, <2>2 DEF ClearHeader, WriteDesc, WriteData, Applied
<1>6. CASE WriteHeader
  <2>1. head = EmptyHeader /\ pc \in CommitPc
    BY <1>6 DEF JInv, HeaderInv, WriteHeader, CommitPc
  <2>2. Effective = home /\ Effective' = Overlay(home, tx)
    BY <1>6, <2>1, CommitPoint DEF Effective, EmptyHeader, WriteHeader, CommittedHeader
  <2>3. ~Applied /\ Applied'
    BY <1>6 DEF Applied, WriteHeader
  <2>4. Disk!TakeEffect
    BY <1>6, <2>1, <2>2, <2>3 DEF Disk!TakeEffect, WriteHeader
  <2> QED
    BY <2>4 DEF Disk!Next
<1>7. CASE StopAfterCommitRecord
  <2>1. Effective' = Effective /\ Applied /\ ~Applied' /\ rc' = "ok" /\ tx' = NoTx
    BY <1>7 DEF StopAfterCommitRecord, Return, disk, Effective, JournalTx, Applied
  <2>2. Disk!ReturnOk
    BY <2>1 DEF Disk!ReturnOk
  <2> QED
    BY <2>2 DEF Disk!Next
<1>8. CASE WriteHome
  BY <1>8, HomingInvisible DEF WriteHome, Applied
<1>9. CASE ClearAfterCommit
  <2>1. Effective' = Effective /\ Applied /\ ~Applied' /\ rc' = "ok" /\ tx' = NoTx
    BY <1>9, ClearInvisible DEF ClearAfterCommit, Return, Applied
  <2>2. Disk!ReturnOk
    BY <2>1 DEF Disk!ReturnOk
  <2> QED
    BY <2>2 DEF Disk!Next
<1>10. CASE WriteFails \/ Crash
  <2>1. Effective' = Effective /\ ~Applied' /\ tx' = NoTx
    BY <1>10 DEF WriteFails, Crash, Return, disk, Effective, JournalTx, Applied
  <2>2. CASE pc \in CommitPc
    <3>1. rc' \in {"io", "crash"}
      BY <1>10, <2>2 DEF WriteFails, Crash, Return
    <3>2. Disk!CutShort
      BY <2>1, <2>2, <3>1 DEF Disk!CutShort
    <3> QED
      BY <3>2 DEF Disk!Next
  <2>3. CASE pc \notin CommitPc
    BY <1>10, <2>1, <2>3 DEF WriteFails, Crash, Return, Applied, CommitPc
  <2> QED
    BY <2>2, <2>3
<1> QED
  BY <1>1, <1>2, <1>3, <1>4, <1>5, <1>6, <1>7, <1>8, <1>9, <1>10 DEF Next, Recover, RecoverRecord, Commit

(* The journal implements the atomic disk: a transaction takes effect      *)
(* entirely at its header write or never, at most once, and has taken      *)
(* effect when m16_journal_commit returns M16_E_OK, through any sequence   *)
(* of crashes, write errors and interrupted recoveries.                    *)
THEOREM Refinement == Spec => AtomicDiskSpec
<1>1. Init => Disk!Init
  <2> SUFFICES ASSUME Init PROVE Disk!Init
    OBVIOUS
  <2>1. Effective \in [Lba -> Value] /\ ~Applied
    BY DEF Init, Effective, EmptyHeader, Applied
  <2> QED
    BY <2>1, SameTransactions, JournalAssumption DEF Init, Disk!Init
<1> QED
  BY <1>1, StepRefines, Invariance, PTL DEF Spec, AtomicDiskSpec, Disk!Spec

-----------------------------------------------------------------------------
(* The journal under damage.  What a damaged journal still guarantees:     *)
(* a descriptor that kept its magic number names the block and contents of *)
(* the transaction it was written for, and a block that still has to be    *)
(* written home is named by a record ahead, or one that recovery refuses.  *)

Described(i) == desc[i] \in {NoDesc, [lba |-> tx[i].lba, sum |-> tx[i].val]}

FaultLogged ==
  /\ pc \in {"c_desc", "c_data"} => \A i \in 1..(idx - 1) : Described(i)
  /\ pc = "c_data" => Described(idx)
  /\ pc = "c_head" => \A i \in 1..Len(tx) : Described(i)
  /\ pc \in {"c_desc", "c_data", "c_head"} => head.state # "committed"

(* Where the home blocks are up to date. *)
Settled == \/ head.state = "empty"
           \/ pc \in {"mounted", "c_clear", "c_desc", "c_data", "c_head", "c_done", "r_clear"}

Trusted(i) == desc[i] # NoDesc => desc[i].sum = intended[desc[i].lba]
Covered(from) ==
  \A l \in Lba : home[l] # intended[l] =>
    \E i \in from..head.count : desc[i] = NoDesc \/ desc[i].lba = l

FaultReplay ==
  /\ head.state = "committed" \/ pc = "r_record" => \A i \in 1..head.count : Trusted(i)
  /\ head.state = "committed" => Covered(1)
  /\ pc = "r_record" => Covered(idx)

FaultHoming ==
  pc = "c_home" =>
    /\ \A i \in 1..Len(tx) : intended[tx[i].lba] = tx[i].val
    /\ \A l \in Lba : home[l] # intended[l] => \E i \in idx..Len(tx) : tx[i].lba = l

FaultInv == /\ TypeOK /\ ControlInv
            /\ old \in [Lba -> Value] /\ intended \in [Lba -> Value]
            /\ FaultLogged
            /\ Settled => home = intended
            /\ FaultReplay
            /\ FaultHoming
            /\ FailsClosed


(* It holds at the start. *)
LEMMA InitFault == FaultInit => FaultInv
<1> SUFFICES ASSUME FaultInit PROVE FaultInv
  OBVIOUS
<1> USE DEF FaultInit, Init
<1>1. TypeOK
  BY JournalAssumption DEF TypeOK, Header, EmptyHeader
<1>2. ControlInv /\ FaultLogged /\ FaultHoming
  BY DEF ControlInv, FaultLogged, FaultHoming, CommitPc
<1>3. FaultReplay
  BY DEF FaultReplay, EmptyHeader
<1> QED
  BY <1>1, <1>2, <1>3 DEF FaultInv, FailsClosed

(* Damage to a journal block. *)
LEMMA DamageKeeps == ASSUME FaultInv, DamageJournal PROVE FaultInv'
<1>1. UNCHANGED <<pc, idx, tx, rc, old, intended, home>>
  BY DEF DamageJournal, DamageHeader, DamageMagic, DamagePayload
<1>2. CASE DamageHeader
  <2>1. head' \in Header /\ head'.state = "bad" /\ head'.count = head.count /\ UNCHANGED <<desc, data>>
    BY <1>2 DEF DamageHeader, FaultInv, TypeOK, Header
  <2>2. TypeOK' /\ ControlInv' /\ FailsClosed'
    BY <1>1, <2>1 DEF FaultInv, TypeOK, ControlInv, FailsClosed
  <2>3. FaultLogged' /\ FaultHoming' /\ (Settled => home = intended)'
    BY <1>1, <2>1 DEF FaultInv, FaultLogged, Described, FaultHoming, Settled
  <2>4. FaultReplay'
    BY <1>1, <2>1 DEF FaultInv, FaultReplay, Trusted, Covered
  <2> QED
    BY <1>1, <2>2, <2>3, <2>4 DEF FaultInv
<1>3. ASSUME NEW i \in Slot, DamageMagic(i) PROVE FaultInv'
  <2>1. desc' = [desc EXCEPT ![i] = NoDesc] /\ UNCHANGED <<head, data>>
    BY <1>3 DEF DamageMagic
  <2>2. desc \in [Slot -> Descriptor \cup {NoDesc}] /\ head.count \in 0..MaxRecords
    BY DEF FaultInv, TypeOK, Header
  <2>3. \A j \in Slot : desc'[j] = NoDesc \/ desc'[j] = desc[j]
    BY <2>1, <2>2
  <2>4. \A j \in 1..head.count : j \in Slot
    BY <2>2, JournalAssumption DEF Slot
  <2>5. TypeOK' /\ ControlInv' /\ FailsClosed'
    BY <1>1, <2>1, <2>2 DEF FaultInv, TypeOK, ControlInv, FailsClosed
  <2>6. FaultHoming' /\ (Settled => home = intended)'
    BY <1>1, <2>1 DEF FaultInv, FaultHoming, Settled
  <2>7. FaultLogged'
    <3>1. ASSUME NEW j \in Slot, Described(j) PROVE Described(j)'
      BY <1>1, <2>3, <3>1 DEF Described
    <3>2. pc \in CommitPc => Len(tx) \in 1..MaxRecords
      BY TxFacts DEF FaultInv, ControlInv
    <3>3. pc \in {"c_desc", "c_data"} => idx \in 1..Len(tx)
      BY DEF FaultInv, ControlInv
    <3>4. /\ pc \in {"c_desc", "c_data"} => idx \in Slot /\ \A j \in 1..(idx - 1) : j \in Slot
          /\ pc = "c_head" => \A j \in 1..Len(tx) : j \in Slot
      BY <3>2, <3>3, JournalAssumption DEF Slot, CommitPc
    <3> QED
      BY <1>1, <2>1, <3>1, <3>4 DEF FaultInv, FaultLogged
  <2>8. FaultReplay'
    <3>1. ASSUME NEW j \in 1..head.count, Trusted(j) PROVE Trusted(j)'
      BY <1>1, <2>3, <2>4, <3>1 DEF Trusted
    <3>2. ASSUME NEW from \in 1..(MaxRecords + 1), Covered(from)
          PROVE  \A l \in Lba : home'[l] # intended'[l] =>
                   \E j \in from..head'.count : desc'[j] = NoDesc \/ desc'[j].lba = l
      <4>1. \A j \in from..head.count : j \in 1..head.count
        BY <2>2, JournalAssumption
      <4> QED
        BY <1>1, <2>1, <2>3, <2>4, <3>2, <4>1 DEF Covered
    <3>3. 1 \in 1..(MaxRecords + 1) /\ idx \in 1..(MaxRecords + 1)
      BY JournalAssumption DEF FaultInv, TypeOK
    <3> QED
      BY <1>1, <2>1, <3>1, <3>2, <3>3 DEF FaultInv, FaultReplay, Covered
  <2> QED
    BY <1>1, <2>5, <2>6, <2>7, <2>8 DEF FaultInv
<1>4. ASSUME NEW i \in Slot, DamagePayload(i) PROVE FaultInv'
  <2>1. UNCHANGED <<head, desc>> /\ \E v \in Value : data' = [data EXCEPT ![i] = v]
    BY <1>4 DEF DamagePayload
  <2>2. TypeOK' /\ ControlInv' /\ FailsClosed'
    BY <1>1, <2>1 DEF FaultInv, TypeOK, ControlInv, FailsClosed
  <2>3. FaultLogged' /\ FaultHoming' /\ (Settled => home = intended)'
    BY <1>1, <2>1 DEF FaultInv, FaultLogged, Described, FaultHoming, Settled
  <2>4. FaultReplay'
    BY <1>1, <2>1 DEF FaultInv, FaultReplay, Trusted, Covered
  <2> QED
    BY <1>1, <2>2, <2>3, <2>4 DEF FaultInv
<1> QED
  BY <1>2, <1>3, <1>4 DEF DamageJournal

(* A call ends, by itself or not, outside a transaction. *)
LEMMA FaultReturns ==
  ASSUME FaultInv, UNCHANGED disk, UNCHANGED ghosts, NEW r, rc' \in {"none", "ok", "io", "crash"},
         Return(r, "idle")
  PROVE  FaultInv'
<1> USE DEF Return, disk, ghosts
<1>1. TypeOK' /\ ControlInv' /\ FailsClosed'
  BY JournalAssumption DEF FaultInv, TypeOK, ControlInv, CommitPc, FailsClosed
<1>2. FaultLogged' /\ FaultHoming'
  BY DEF FaultLogged, FaultHoming
<1>3. (Settled => home = intended)'
  BY DEF FaultInv, Settled
<1>4. FaultReplay'
  BY DEF FaultInv, FaultReplay, Trusted, Covered
<1> QED
  BY <1>1, <1>2, <1>3, <1>4 DEF FaultInv

(* The steps of m16_journal_recover. *)
LEMMA FaultRecovers ==
  ASSUME FaultInv, UNCHANGED ghosts, Mount \/ Recover
  PROVE  FaultInv'
<1> USE DEF ghosts
<1>0. /\ TypeOK /\ ControlInv /\ FaultReplay /\ FailsClosed
      /\ Settled => home = intended
      /\ head.count \in 0..MaxRecords /\ MaxRecords \in Nat
  BY JournalAssumption DEF FaultInv, TypeOK, Header
<1>1. CASE Mount
  <2> USE <1>1 DEF Mount
  <2>1. TypeOK' /\ ControlInv' /\ FailsClosed'
    BY <1>0 DEF TypeOK, ControlInv, CommitPc, RecoverPc, FailsClosed
  <2>2. FaultLogged' /\ FaultHoming' /\ (Settled => home = intended)'
    BY <1>0 DEF FaultLogged, FaultHoming, Settled
  <2>3. FaultReplay'
    BY <1>0 DEF FaultReplay, Trusted, Covered
  <2> QED
    BY <2>1, <2>2, <2>3 DEF FaultInv
<1>2. CASE ReadHeader
  <2> USE <1>2 DEF ReadHeader
  <2>1. \/ head.state = "empty" /\ pc' = "mounted"
        \/ head.state = "bad" /\ pc' = "idle"
        \/ head.state = "committed" /\ head.count = 0 /\ pc' = "r_clear"
        \/ head.state = "committed" /\ head.count \in 1..MaxRecords /\ pc' = "r_record"
    BY <1>0
  <2>2. idx = 1 /\ tx = NoTx
    BY <1>0 DEF ControlInv, CommitPc
  <2>3. TypeOK' /\ FailsClosed'
    BY <1>0, <2>1 DEF TypeOK, RecoverPc, FailsClosed
  <2>4. ControlInv'
    BY <1>0, <2>1, <2>2 DEF ControlInv, CommitPc
  <2>5. FaultLogged' /\ FaultHoming'
    BY <2>1 DEF FaultLogged, FaultHoming
  <2>6. head.state = "committed" /\ head.count = 0 => home = intended
    <3>1. ASSUME head.state = "committed", head.count = 0 PROVE \A l \in Lba : home[l] = intended[l]
      BY <1>0, <3>1 DEF FaultReplay, Covered
    <3> QED
      BY <3>1 DEF FaultInv, TypeOK
  <2>7. (Settled => home = intended)'
    BY <1>0, <2>1, <2>6 DEF Settled
  <2>8. FaultReplay'
    BY <1>0, <2>1, <2>2 DEF FaultReplay, Trusted, Covered
  <2> QED
    BY <2>3, <2>4, <2>5, <2>7, <2>8 DEF FaultInv
<1>3. CASE ReplayRecord
  <2> USE <1>3 DEF ReplayRecord, LastReplayed, RecordOk
  <2>1. idx \in 1..head.count /\ tx = NoTx /\ idx \in Slot /\ idx \in Nat
    BY <1>0 DEF ControlInv, CommitPc, Slot
  <2> DEFINE b == desc[idx].lba
  <2>2. desc[idx] # NoDesc /\ b \in Lba
    BY <1>0, <2>1 DEF TypeOK, Descriptor
  <2>3. data[idx] = intended[b] /\ data[idx] \in Value
    BY <1>0, <2>1, <2>2 DEF FaultReplay, Trusted, TypeOK
  <2>4. home' \in [Lba -> Value] /\ \A l \in Lba : home'[l] = IF l = b THEN intended[b] ELSE home[l]
    BY <1>0, <2>2, <2>3 DEF TypeOK
  <2> HIDE DEF b
  <2>5. pc' = IF idx = head.count THEN "r_clear" ELSE "r_record"
    OBVIOUS
  <2>6. TypeOK'
    BY <1>0, <2>1, <2>4 DEF TypeOK, RecoverPc
  <2>7. ControlInv'
    BY <1>0, <2>1 DEF ControlInv, CommitPc
  <2>8. FailsClosed'
    BY <1>0, <2>2, <2>4 DEF FailsClosed
  <2>9. FaultLogged' /\ FaultHoming'
    BY <2>5 DEF FaultLogged, FaultHoming
  <2>10. ASSUME NEW from \in 1..(head.count + 1), Covered(from) PROVE Covered(from)'
    BY <2>4, <2>10 DEF Covered
  <2>11. ASSUME NEW l \in Lba, home'[l] # intended[l]
         PROVE  \E i \in (idx + 1)..head.count : desc[i] = NoDesc \/ desc[i].lba = l
    <3>1. l # b /\ home[l] # intended[l]
      BY <2>4, <2>11
    <3>2. PICK i \in idx..head.count : desc[i] = NoDesc \/ desc[i].lba = l
      BY <1>0, <3>1 DEF FaultReplay, Covered
    <3>3. i # idx
      BY <2>2, <3>1, <3>2 DEF b
    <3>4. i \in (idx + 1)..head.count
      BY <1>0, <2>1, <3>3
    <3> QED
      BY <3>2, <3>4
  <2>12. (Settled => home = intended)'
    <3>1. CASE head.state = "empty"
      BY <1>0, <2>4, <3>1 DEF Settled, TypeOK
    <3>2. CASE idx = head.count
      <4>1. \A l \in Lba : home'[l] = intended[l]
        BY <1>0, <2>1, <2>11, <3>2 DEF Covered
      <4> QED
        BY <2>4, <4>1 DEF FaultInv
    <3>3. CASE head.state # "empty" /\ idx # head.count
      BY <2>5, <3>3 DEF Settled
    <3> QED
      BY <3>1, <3>2, <3>3
  <2>13. FaultReplay'
    <3>1. \A i \in 1..head.count : Trusted(i)'
      BY <1>0 DEF FaultReplay, Trusted
    <3>2. head.state = "committed" => Covered(1)'
      BY <1>0, <2>1, <2>10 DEF FaultReplay
    <3>3. head' = head /\ idx' = idx + 1
      OBVIOUS
    <3>4. pc' = "r_record" => Covered(idx)'
      BY <2>11, <3>3 DEF Covered
    <3> QED
      BY <3>1, <3>2, <3>3, <3>4 DEF FaultReplay
  <2>14. intended' \in [Lba -> Value] /\ old' \in [Lba -> Value]
    BY DEF FaultInv
  <2> QED
    BY <2>6, <2>7, <2>8, <2>9, <2>12, <2>13, <2>14 DEF FaultInv
<1>4. CASE RejectRecord
  <2> USE <1>4 DEF RejectRecord
  <2>1. TypeOK' /\ ControlInv' /\ FailsClosed'
    BY <1>0 DEF TypeOK, ControlInv, CommitPc, FailsClosed
  <2>2. FaultLogged' /\ FaultHoming' /\ (Settled => home = intended)'
    BY <1>0 DEF FaultLogged, FaultHoming, Settled
  <2>3. FaultReplay'
    BY <1>0 DEF FaultReplay, Trusted, Covered
  <2> QED
    BY <2>1, <2>2, <2>3 DEF FaultInv
<1>5. CASE ClearAfterReplay
  <2> USE <1>5 DEF ClearAfterReplay
  <2>1. TypeOK' /\ ControlInv' /\ FailsClosed'
    BY <1>0 DEF TypeOK, Header, EmptyHeader, ControlInv, CommitPc, FailsClosed
  <2>2. FaultLogged' /\ FaultHoming' /\ (Settled => home = intended)'
    BY <1>0 DEF FaultLogged, FaultHoming, Settled
  <2>3. FaultReplay'
    BY DEF FaultReplay, EmptyHeader
  <2> QED
    BY <2>1, <2>2, <2>3 DEF FaultInv
<1> QED
  BY <1>1, <1>2, <1>3, <1>4, <1>5 DEF Recover, RecoverRecord


(* The steps of m16_journal_commit up to the header write: the home blocks *)
(* are up to date and records are written under a header that does not     *)
(* commit them.                                                            *)
LEMMA FaultLogs ==
  ASSUME FaultInv, UNCHANGED ghosts, (\E t \in Tx : Begin(t)) \/ ClearHeader \/ WriteDesc \/ WriteData
  PROVE  FaultInv'
<1> USE DEF ghosts
<1>0. /\ TypeOK /\ ControlInv /\ FaultReplay /\ FailsClosed /\ FaultLogged
      /\ Settled => home = intended
      /\ MaxRecords \in Nat
  BY JournalAssumption DEF FaultInv
<1>1. CASE \E t \in Tx : Begin(t)
  <2>1. PICK t \in Tx : Begin(t)
    BY <1>1
  <2> USE <2>1 DEF Begin
  <2>2. TypeOK' /\ ControlInv' /\ FailsClosed'
    BY <1>0 DEF TypeOK, ControlInv, CommitPc, FailsClosed
  <2>3. FaultLogged' /\ FaultHoming' /\ (Settled => home = intended)'
    BY <1>0 DEF FaultLogged, FaultHoming, Settled
  <2>4. FaultReplay'
    BY <1>0 DEF FaultReplay, Trusted, Covered
  <2> QED
    BY <2>2, <2>3, <2>4 DEF FaultInv
<1>2. CASE ClearHeader
  <2> USE <1>2 DEF ClearHeader
  <2>1. tx \in Tx /\ Len(tx) \in 1..MaxRecords
    BY <1>0, TxFacts DEF ControlInv, CommitPc
  <2>2. TypeOK' /\ FailsClosed'
    BY <1>0 DEF TypeOK, Header, EmptyHeader, CommitPc, FailsClosed
  <2>3. ControlInv'
    BY <1>0, <2>1 DEF ControlInv, CommitPc
  <2>4. FaultLogged'
    BY DEF FaultLogged, EmptyHeader
  <2>5. FaultHoming' /\ (Settled => home = intended)'
    BY <1>0 DEF FaultHoming, Settled
  <2>6. FaultReplay'
    BY DEF FaultReplay, EmptyHeader
  <2> QED
    BY <2>2, <2>3, <2>4, <2>5, <2>6 DEF FaultInv
<1>3. CASE WriteDesc
  <2> USE <1>3 DEF WriteDesc
  <2>1. tx \in Tx /\ Len(tx) \in 1..MaxRecords /\ idx \in 1..Len(tx)
    BY <1>0, TxFacts DEF ControlInv, CommitPc
  <2>2. idx \in Slot /\ idx \in Nat /\ tx[idx].lba \in Lba /\ tx[idx].val \in Value
    BY <1>0, <2>1, TxFacts DEF Slot
  <2>3. /\ desc' \in [Slot -> Descriptor \cup {NoDesc}]
        /\ desc'[idx] = [lba |-> tx[idx].lba, sum |-> tx[idx].val]
        /\ \A i \in Slot : i # idx => desc'[i] = desc[i]
    BY <1>0, <2>2 DEF TypeOK, Descriptor
  <2>4. TypeOK' /\ ControlInv' /\ FailsClosed'
    BY <1>0, <2>1, <2>3 DEF TypeOK, ControlInv, CommitPc, FailsClosed
  <2>5. FaultLogged'
    <3>1. \A i \in 1..(idx - 1) : Described(i)'
      <4>1. \A i \in 1..(idx - 1) : i \in Slot /\ i # idx
        BY <1>0, <2>1, <2>2 DEF Slot
      <4> QED
        BY <1>0, <2>3, <4>1 DEF FaultLogged, Described
    <3>2. Described(idx)'
      BY <2>3 DEF Described
    <3> QED
      BY <1>0, <3>1, <3>2 DEF FaultLogged
  <2>6. FaultHoming' /\ (Settled => home = intended)'
    BY <1>0 DEF FaultHoming, Settled
  <2>7. FaultReplay'
    BY <1>0 DEF FaultReplay, FaultLogged
  <2> QED
    BY <2>4, <2>5, <2>6, <2>7 DEF FaultInv
<1>4. CASE WriteData
  <2> USE <1>4 DEF WriteData
  <2>1. tx \in Tx /\ Len(tx) \in 1..MaxRecords /\ idx \in 1..Len(tx) /\ tx[idx].val \in Value
    BY <1>0, TxFacts DEF ControlInv, CommitPc
  <2>2. TypeOK' /\ FailsClosed'
    <3>1. data' \in [Slot -> Value]
      BY <1>0, <2>1 DEF TypeOK
    <3>2. idx' \in 1..(MaxRecords + 1)
      BY <1>0, <2>1
    <3> QED
      BY <1>0, <3>1, <3>2 DEF TypeOK, CommitPc, FailsClosed
  <2>3. ControlInv'
    BY <1>0, <2>1 DEF ControlInv, CommitPc
  <2>4. FaultLogged'
    <3>1. \A i \in 1..idx : Described(i)
      <4>1. \A i \in 1..idx : i = idx \/ i \in 1..(idx - 1)
        BY <1>0, <2>1
      <4> QED
        BY <1>0, <4>1 DEF FaultLogged
    <3>2. \A i \in 1..idx : Described(i)'
      BY <3>1 DEF Described
    <3>3. CASE idx = Len(tx)
      BY <1>0, <3>2, <3>3 DEF FaultLogged
    <3>4. CASE idx # Len(tx)
      <4>1. idx' = idx + 1 /\ (idx + 1) - 1 = idx /\ pc' = "c_desc" /\ head' = head
        BY <1>0, <2>1, <3>4
      <4> QED
        BY <1>0, <3>2, <4>1 DEF FaultLogged
    <3> QED
      BY <3>3, <3>4
  <2>5. FaultHoming' /\ (Settled => home = intended)'
    BY <1>0 DEF FaultHoming, Settled
  <2>6. FaultReplay'
    BY <1>0 DEF FaultReplay, FaultLogged
  <2> QED
    BY <2>2, <2>3, <2>4, <2>5, <2>6 DEF FaultInv
<1> QED
  BY <1>1, <1>2, <1>3, <1>4

(* What the records of a transaction put into the blocks. *)
LEMMA OverlayAt ==
  ASSUME NEW t \in Tx, NEW h \in [Lba -> Value]
  PROVE  /\ \A i \in 1..Len(t) : Overlay(h, t)[t[i].lba] = t[i].val
         /\ \A l \in Lba : Overlay(h, t)[l] # h[l] => \E i \in 1..Len(t) : t[i].lba = l
<1>1. DOMAIN t = 1..Len(t) /\ \A i, j \in 1..Len(t) : t[i].lba = t[j].lba => i = j
  BY TxFacts
<1>2. ASSUME NEW i \in 1..Len(t) PROVE Overlay(h, t)[t[i].lba] = t[i].val
  <2>1. t[i].lba \in Lba
    BY TxFacts
  <2> DEFINE k == CHOOSE j \in DOMAIN t : t[j].lba = t[i].lba
  <2>2. k \in DOMAIN t /\ t[k].lba = t[i].lba
    BY <1>1
  <2>3. Overlay(h, t)[t[i].lba] = t[k].val
    BY <1>1, <2>1 DEF Overlay
  <2>4. k = i
    BY <1>1, <2>2
  <2> QED
    BY <2>3, <2>4
<1>3. \A l \in Lba : Overlay(h, t)[l] # h[l] => \E i \in 1..Len(t) : t[i].lba = l
  BY <1>1 DEF Overlay
<1> QED
  BY <1>2, <1>3

(* The header write commits: what is intended moves ahead of the home      *)
(* blocks.                                                                 *)
LEMMA FaultCommits ==
  ASSUME FaultInv, WriteHeader, old' = intended, intended' = Overlay(intended, tx)
  PROVE  FaultInv'
<1> USE DEF WriteHeader
<1>0. /\ TypeOK /\ ControlInv /\ FaultLogged /\ MaxRecords \in Nat
      /\ intended \in [Lba -> Value] /\ home = intended
  BY JournalAssumption DEF FaultInv, Settled
<1>1. tx \in Tx /\ Len(tx) \in 1..MaxRecords
  BY <1>0, TxFacts DEF ControlInv, CommitPc
<1>2. /\ head'.state = "committed" /\ head'.count = Len(tx)
      /\ head' \in Header
  BY <1>0, <1>1 DEF CommittedHeader, Header
<1>3. intended' \in [Lba -> Value] /\ old' \in [Lba -> Value]
  BY <1>0, <1>1, OverlayType
<1>4. /\ \A i \in 1..Len(tx) : intended'[tx[i].lba] = tx[i].val
      /\ \A l \in Lba : intended'[l] # home[l] => \E i \in 1..Len(tx) : tx[i].lba = l
  BY <1>0, <1>1, OverlayAt
<1>5. ASSUME NEW i \in 1..Len(tx), desc[i] # NoDesc
      PROVE  desc[i].lba = tx[i].lba /\ desc[i].sum = tx[i].val
  <2>1. desc[i] = [lba |-> tx[i].lba, sum |-> tx[i].val]
    BY <1>0, <1>5 DEF FaultLogged, Described
  <2>2. ASSUME NEW d, NEW a, NEW b, d = [lba |-> a, sum |-> b] PROVE d.lba = a /\ d.sum = b
    BY <2>2
  <2> QED
    BY <2>1, <2>2
<1>6. TypeOK'
  BY <1>0, <1>2 DEF TypeOK, CommitPc
<1>7. ControlInv'
  BY <1>0, <1>1 DEF ControlInv, CommitPc
<1>8. FailsClosed'
  BY <1>0 DEF FailsClosed
<1>9. FaultLogged' /\ (Settled => home = intended)'
  BY <1>2 DEF FaultLogged, Settled
<1>10. FaultHoming'
  BY <1>4 DEF FaultHoming
<1>11. FaultReplay'
  <2>1. desc' = desc /\ home' = home /\ pc' = "c_home"
    OBVIOUS
  <2> HIDE DEF WriteHeader
  <2>2. ASSUME NEW i \in 1..Len(tx) PROVE Trusted(i)'
    <3>1. desc[i] # NoDesc => desc[i].lba = tx[i].lba /\ desc[i].sum = tx[i].val
      BY <1>5
    <3> QED
      BY <1>4, <2>1, <3>1 DEF Trusted
  <2>3. Covered(1)'
    <3> SUFFICES ASSUME NEW l \in Lba, home[l] # intended'[l]
                 PROVE  \E i \in 1..Len(tx) : desc[i] = NoDesc \/ desc[i].lba = l
      BY <1>2, <2>1 DEF Covered
    <3>1. PICK i \in 1..Len(tx) : tx[i].lba = l
      BY <1>4
    <3>2. desc[i] = NoDesc \/ desc[i].lba = l
      BY <1>5, <3>1
    <3> QED
      BY <3>2
  <2> QED
    BY <1>2, <2>1, <2>2, <2>3 DEF FaultReplay
<1> QED
  BY <1>3, <1>6, <1>7, <1>8, <1>9, <1>10, <1>11 DEF FaultInv

(* The steps after the header write: only memory is read. *)
LEMMA FaultHomes ==
  ASSUME FaultInv, UNCHANGED ghosts, WriteHome \/ ClearAfterCommit
  PROVE  FaultInv'
<1> USE DEF ghosts
<1>0. /\ TypeOK /\ ControlInv /\ FaultReplay /\ FailsClosed /\ FaultHoming
      /\ Settled => home = intended
      /\ intended \in [Lba -> Value] /\ MaxRecords \in Nat
  BY JournalAssumption DEF FaultInv
<1>1. CASE WriteHome
  <2> USE <1>1 DEF WriteHome
  <2>1. /\ tx \in Tx /\ Len(tx) \in 1..MaxRecords /\ idx \in 1..Len(tx)
        /\ tx[idx].lba \in Lba /\ tx[idx].val \in Value
    BY <1>0, TxFacts DEF ControlInv, CommitPc
  <2> DEFINE b == tx[idx].lba
  <2>2. tx[idx].val = intended[b] /\ b \in Lba
    BY <1>0, <2>1 DEF FaultHoming
  <2>3. home' \in [Lba -> Value] /\ \A l \in Lba : home'[l] = IF l = b THEN intended[b] ELSE home[l]
    BY <1>0, <2>1, <2>2 DEF TypeOK
  <2>4. ASSUME NEW l \in Lba, home'[l] # intended[l]
        PROVE  \E i \in (idx + 1)..Len(tx) : tx[i].lba = l
    <3>1. l # b /\ home[l] # intended[l]
      BY <2>3, <2>4
    <3>2. PICK i \in idx..Len(tx) : tx[i].lba = l
      BY <1>0, <3>1 DEF FaultHoming
    <3>3. i \in (idx + 1)..Len(tx)
      BY <1>0, <2>1, <3>1, <3>2
    <3> QED
      BY <3>2, <3>3
  <2> HIDE DEF b
  <2>5. TypeOK'
    BY <1>0, <2>1, <2>3 DEF TypeOK, CommitPc
  <2>6. ControlInv'
    BY <1>0, <2>1 DEF ControlInv, CommitPc
  <2>7. FailsClosed'
    BY <1>0, <2>3 DEF FailsClosed
  <2>8. FaultLogged'
    BY DEF FaultLogged
  <2>9. (Settled => home = intended)'
    <3>1. CASE head.state = "empty"
      BY <1>0, <2>3, <3>1 DEF Settled, TypeOK
    <3>2. CASE idx = Len(tx)
      <4>1. \A l \in Lba : home'[l] = intended[l]
        BY <1>0, <2>1, <2>4, <3>2
      <4> QED
        BY <1>0, <2>3, <4>1
    <3>3. CASE head.state # "empty" /\ idx # Len(tx)
      BY <3>3 DEF Settled
    <3> QED
      BY <3>1, <3>2, <3>3
  <2>10. FaultHoming'
    BY <1>0, <2>4 DEF FaultHoming
  <2>11. FaultReplay'
    BY <1>0, <2>3 DEF FaultReplay, Trusted, Covered
  <2> QED
    BY <1>0, <2>5, <2>6, <2>7, <2>8, <2>9, <2>10, <2>11 DEF FaultInv
<1>2. CASE ClearAfterCommit
  <2> USE <1>2 DEF ClearAfterCommit, Return
  <2>1. TypeOK' /\ ControlInv' /\ FailsClosed'
    BY <1>0 DEF TypeOK, Header, EmptyHeader, ControlInv, CommitPc, FailsClosed
  <2>2. FaultLogged' /\ FaultHoming' /\ (Settled => home = intended)'
    BY <1>0 DEF FaultLogged, FaultHoming, Settled
  <2>3. FaultReplay'
    BY DEF FaultReplay, EmptyHeader
  <2> QED
    BY <2>1, <2>2, <2>3 DEF FaultInv
<1> QED
  BY <1>1, <1>2

(* Every step keeps it. *)
LEMMA NextFault == FaultInv /\ [FaultNext]_allvars => FaultInv'
<1> SUFFICES ASSUME FaultInv, [FaultNext]_allvars PROVE FaultInv'
  OBVIOUS
<1>1. CASE UNCHANGED allvars
  <2> USE <1>1 DEF allvars, FaultInv
  <2>1. TypeOK' /\ ControlInv' /\ FailsClosed'
    BY DEF TypeOK, ControlInv, FailsClosed
  <2>2. FaultLogged' /\ FaultHoming' /\ (Settled => home = intended)'
    BY DEF FaultLogged, Described, FaultHoming, Settled
  <2>3. FaultReplay'
    BY DEF FaultReplay, Trusted, Covered
  <2> QED
    BY <2>1, <2>2, <2>3
<1>2. CASE DamageJournal
  BY <1>2, DamageKeeps
<1>3. CASE JournalStep
  <2>1. Next /\ (~WriteHeader => UNCHANGED ghosts)
    BY <1>3 DEF JournalStep, ghosts
  <2>2. CASE WriteHeader
    BY <1>3, <2>2, FaultCommits DEF JournalStep
  <2>3. CASE Mount \/ Recover
    <3>1. ~WriteHeader
      BY <2>3 DEF Mount, Recover, ReadHeader, RecoverRecord, ReplayRecord, RejectRecord,
                  ClearAfterReplay, WriteHeader
    <3> QED
      BY <2>1, <2>3, <3>1, FaultRecovers
  <2>4. CASE (\E t \in Tx : Begin(t)) \/ ClearHeader \/ WriteDesc \/ WriteData
    <3>1. ~WriteHeader
      BY <2>4 DEF Begin, ClearHeader, WriteDesc, WriteData, WriteHeader
    <3> QED
      BY <2>1, <2>4, <3>1, FaultLogs
  <2>5. CASE WriteHome \/ ClearAfterCommit
    <3>1. ~WriteHeader
      BY <2>5 DEF WriteHome, ClearAfterCommit, WriteHeader
    <3> QED
      BY <2>1, <2>5, <3>1, FaultHomes
  <2>6. CASE StopAfterCommitRecord \/ WriteFails \/ Crash
    <3>1. PICK r \in {"none", "ok", "io", "crash"} : Return(r, "idle") /\ UNCHANGED disk
      BY <2>6 DEF StopAfterCommitRecord, WriteFails, Crash, FaultInv, TypeOK
    <3>2. ~WriteHeader /\ rc' \in {"none", "ok", "io", "crash"}
      BY <3>1 DEF Return, WriteHeader
    <3> QED
      BY <2>1, <3>1, <3>2, FaultReturns
  <2> QED
    BY <2>1, <2>2, <2>3, <2>4, <2>5, <2>6 DEF Next, Commit
<1> QED
  BY <1>1, <1>2, <1>3 DEF FaultNext

(* The invariant of the journal under damage. *)
THEOREM FaultInvariance == FaultSpec => []FaultInv
<1> QED
  BY InitFault, NextFault, PTL DEF FaultSpec

(* Whatever journal blocks are damaged, whenever, and however often the    *)
(* power fails, m16_journal_recover and m16_journal_commit put nothing     *)
(* into a home block but its old or its intended contents.                 *)
THEOREM RecoveryFailsClosed == FaultSpec => []FailsClosed
<1>1. FaultInv => FailsClosed
  BY DEF FaultInv
<1> QED
  BY <1>1, FaultInvariance, PTL

(* A mount that succeeds on a damaged journal shows every committed        *)
(* transaction.                                                            *)
THEOREM MountComplete == FaultSpec => []MountShowsCommitted
<1>1. FaultInv => MountShowsCommitted
  BY DEF FaultInv, Settled, MountShowsCommitted
<1> QED
  BY <1>1, FaultInvariance, PTL
=============================================================================
