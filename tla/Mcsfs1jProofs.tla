---------------------------- MODULE Mcsfs1jProofs ----------------------------
(***************************************************************************)
(* The crash consistency of the MCSFS1J file system, for any number of     *)
(* inodes, data blocks and directory slots, any names and any contents.    *)
(* The block writes of its calls are steps of Journal: what they do to the *)
(* journal is taken from the lemmas of JournalProofs, instantiated for     *)
(* this device, and what a transaction does to the files is proved here.   *)
(***************************************************************************)
EXTENDS Mcsfs1j, SequenceTheorems, WellFoundedInduction, TLAPS

P == INSTANCE JournalProofs WITH old <- home, intended <- home

-----------------------------------------------------------------------------
(* The inductive invariant.  It speaks of the device as the next mount     *)
(* will show it, which only the header write of a commit changes.          *)

Marked(d) == d[InodeBitmap].bits
MarkedBlk(d) == d[BlockBitmap].bits
Dir(d) == d[RootDir].dir
Bytes(d, b) == d[DataBlock(b)].bytes

InodesOf(k) == {i \in Ino : TableBlock(i) = k}
DirentValue == [name : Names \cup {NoName}, ino : Ino]

(* Every block holds the kind of thing that belongs there. *)
Shape(d) ==
  /\ d \in [Lba -> Value]
  /\ d[InodeBitmap] \in [bits : SUBSET Nat]
  /\ d[BlockBitmap] \in [bits : SUBSET Nat]
  /\ d[RootDir] \in [dir : [Dirent -> DirentValue]]
  /\ \A k \in TableBlocks : d[InodeTable(k)] \in [inodes : [InodesOf(k) -> InodeValue]]

(* An entry leads to a marked inode of a file, and on to a marked block    *)
(* with what was written under that name.                                  *)
Sound(d, s, att) ==
  LET i == Dir(d)[s].ino
      b == Inode(d, i).blk
  IN  /\ i \in Ino \ {0} /\ i \in Marked(d)
      /\ Inode(d, i).kind = 1
      /\ b \in Blk /\ b \in MarkedBlk(d)
      /\ Bytes(d, b) = att[Dir(d)[s].name]

Apart(d, s, t) == /\ Dir(d)[s].name # Dir(d)[t].name
                  /\ Dir(d)[s].ino # Dir(d)[t].ino
                  /\ BlockOf(d, s) # BlockOf(d, t)

Rooted(d) == /\ 0 \in Marked(d) /\ 0 \in MarkedBlk(d)
             /\ Inode(d, 0) = RootInode

(* What holds of the device at every moment, also while it is formatted:   *)
(* form, att and pro are the ghosts formatted, attempted and promised.     *)
FsInv(d, form, att, pro) ==
  /\ Shape(d)
  /\ \A s \in Files(d) : Sound(d, s, att)
  /\ \A s, t \in Files(d) : s # t => Apart(d, s, t)
  /\ form => Rooted(d)
  /\ \A n \in Names : pro[n] # Zero => pro[n] = att[n] /\ Entries(d, n) # {}

GhostTypes == /\ formatted \in BOOLEAN
              /\ attempted \in [Names -> Contents \cup {Zero}]
              /\ promised \in [Names -> Contents \cup {Zero}]

Uncommitted == {"c_clear", "c_desc", "c_data", "c_head"}
Committed == {"c_home", "c_done", "mounted"}
Recovery == {"r_head", "r_record", "r_clear"}

(* Where the journal can be in each part of a call. *)
ControlInv ==
  /\ step \in {"idle", "mount", "tx1", "tx2", "format"}
  /\ step = "idle" => pc \in {"idle", "mounted"}
  /\ step = "mount" => pc \in Recovery \cup {"idle", "mounted"}
  /\ step \in {"tx1", "tx2"} => pc \in Uncommitted \cup Committed \cup {"idle"}
  /\ step = "mount" /\ call.op = "write" => call.name \in Names /\ call.val \in Contents
  /\ step = "mount" => call.op \in {"read", "fsck", "write"}
  /\ step \in {"tx1", "tx2"} => /\ call.name \in Names
                                /\ call.val \in Contents
                                /\ attempted[call.name] = call.val

(* The transactions of m16_write_file_ex, as functions of the device. *)
NewTable(d, i, b) == [j \in Ino |-> IF j = i THEN FileInode(b) ELSE Inode(d, j)]
Allocation(d, i, b) ==
  <<[lba |-> InodeBitmap, val |-> [bits |-> Marked(d) \cup {i}]],
    [lba |-> BlockBitmap, val |-> [bits |-> MarkedBlk(d) \cup {b}]]>>
    \o [k \in 1..Len(TableOrder) |->
          [lba |-> TableOrder[k], val |-> Table(TableOrder[k][2], NewTable(d, i, b))]]
Entering(d, i, b, s, n, v) ==
  <<[lba |-> RootDir, val |-> [d[RootDir] EXCEPT !.dir[s] = [name |-> n, ino |-> i]]],
    [lba |-> DataBlock(b), val |-> [bytes |-> v]]>>

(* The inode, the block and the slot that a write has picked are free; or  *)
(* the first transaction has taken the inode and the block for it, which   *)
(* no file has.                                                            *)
Picked(d, i, b, s, n) == /\ i \in FreeInodes(d) /\ b \in FreeBlocks(d)
                         /\ s \in FreeDirents(d)
                         /\ Entries(d, n) = {}
Taken(d, i, b, s, n) == /\ i \in Ino \ {0} /\ i \in Marked(d)
                        /\ b \in Blk /\ b \in MarkedBlk(d)
                        /\ Inode(d, i) = FileInode(b)
                        /\ s \in FreeDirents(d)
                        /\ Entries(d, n) = {}
                        /\ \A t \in Files(d) : Dir(d)[t].ino # i /\ BlockOf(d, t) # b

FirstInv ==
  /\ pc \in Uncommitted => \E i \in Ino, b \in Blk, s \in Dirent :
       /\ Picked(Effective, i, b, s, call.name)
       /\ tx = Allocation(Effective, i, b)
       /\ call.tx2 = Entering(Effective, i, b, s, call.name, call.val)
  /\ pc \in Committed => \E i \in Ino, b \in Blk, s \in Dirent :
       /\ Taken(Effective, i, b, s, call.name)
       /\ call.tx2 = Entering(Effective, i, b, s, call.name, call.val)
  /\ pc = "idle" => rc # "ok"

SecondInv ==
  /\ pc \in Uncommitted => /\ rc = "none"
                           /\ \E i \in Ino, b \in Blk, s \in Dirent :
                                /\ Taken(Effective, i, b, s, call.name)
                                /\ tx = Entering(Effective, i, b, s, call.name, call.val)
  /\ pc \in Committed \/ (pc = "idle" /\ rc = "ok") => Entries(Effective, call.name) # {}

(* How far m16_format has come. *)
FormatInv ==
  /\ head = J!EmptyHeader
  /\ desc = [i \in 1..MaxRecords |-> NoDesc]
  /\ data = [i \in 1..MaxRecords |-> Zero]
  /\ pc = "idle" /\ tx = <<>> /\ rc = "none"
  /\ idx \in 1..(Len(FormatOrder) + 1)
  /\ ~formatted /\ promised = [n \in Names |-> Zero]
  /\ Shape(home) /\ Files(home) = {}
  /\ \A k \in 1..(idx - 1) : home[FormatOrder[k]] = FormattedDevice[FormatOrder[k]]

Inv == /\ GhostTypes
       /\ ControlInv
       /\ step # "format" => P!JInv
       /\ FsInv(Effective, formatted, attempted, promised)
       /\ step = "tx1" => FirstInv
       /\ step = "tx2" => SecondInv
       /\ step = "format" => FormatInv

-----------------------------------------------------------------------------
(* The journal, as the file system sees it. *)

(* The device of MCSFS1J is one that Journal is about. *)
LEMMA JournalFits ==
  /\ MaxRecords \in Nat \ {0}
  /\ Zero \in Value
  /\ NoDesc \notin [lba : Lba, sum : Value]
<1>1. LastIno \div InoPerBlock \in Nat /\ MaxRecords \in Nat
  BY FsAssumption
<1>2. MaxRecords # 0
  BY <1>1, FsAssumption
<1>3. Zero \in Value
  BY DEF Value
<1> QED
  BY <1>1, <1>2, <1>3, DescriptorAssumption

(* What the next mount shows is what Journal's proofs are about. *)
LEMMA SameDevice == Effective = P!Effective /\ J!EmptyHeader = P!EmptyHeader
BY DEF Effective, J!Effective, P!Effective, J!JournalTx, P!JournalTx, J!Overlay, P!Overlay,
       J!EmptyHeader, P!EmptyHeader

(* After a mount the home blocks are what it promised to show. *)
LEMMA MountedShows ==
  ASSUME P!JInv, pc = "mounted"
  PROVE  Effective = home
<1>1. head = P!EmptyHeader
  BY DEF P!JInv, P!HeaderInv
<1> QED
  BY <1>1 DEF Effective, J!Effective, P!EmptyHeader

(* The blocks that are shown are blocks. *)
LEMMA ShownType == ASSUME P!JInv PROVE Effective \in [Lba -> Value]
<1>1. home \in [Lba -> Value]
  BY DEF P!JInv, P!TypeOK
<1>2. CASE head.state = "committed"
  <2>1. P!JournalTx \in P!Tx
    BY <1>2, P!JournalTxFacts, JournalFits
  <2> QED
    BY <1>1, <1>2, <2>1, P!OverlayType, JournalFits, SameDevice DEF P!Effective
<1>3. CASE head.state # "committed"
  BY <1>1, <1>3 DEF Effective, J!Effective
<1> QED
  BY <1>2, <1>3

(* Mounting and recovering do not show. *)
LEMMA Recovers ==
  ASSUME P!JInv, J!Mount \/ J!Recover
  PROVE  /\ P!JInv' /\ Effective' = Effective
         /\ pc' \in Recovery \cup {"idle", "mounted"}
<1>1. P!Mount \/ P!Recover
  BY DEF J!Mount, P!Mount, J!Recover, P!Recover, J!ReadHeader, P!ReadHeader,
         J!RecoverRecord, P!RecoverRecord, J!RecordOk, P!RecordOk, J!ReplayRecord,
         P!ReplayRecord, J!RejectRecord, P!RejectRecord, J!ClearAfterReplay,
         P!ClearAfterReplay, J!LastReplayed, P!LastReplayed, J!EmptyHeader, P!EmptyHeader
<1>2. P!JInv'
  BY <1>1, P!RecoverInv, JournalFits
<1>3. Effective' = P!Effective'
  BY DEF Effective, J!Effective, P!Effective, J!JournalTx, P!JournalTx, J!Overlay, P!Overlay
<1>4. CASE P!Mount \/ P!ReadHeader \/ P!RejectRecord
  <2>1. UNCHANGED <<home, head, desc, data>>
    BY <1>4 DEF P!Mount, P!ReadHeader, P!RejectRecord
  <2>2. Effective' = Effective
    BY <2>1 DEF Effective, J!Effective, J!JournalTx
  <2>3. pc' \in Recovery \cup {"idle", "mounted"}
    BY <1>4 DEF P!Mount, P!ReadHeader, P!RejectRecord, Recovery
  <2> QED
    BY <1>2, <2>2, <2>3
<1>5. CASE P!ReplayRecord
  <2>1. P!Effective' = P!Effective
    BY <1>5, P!HomingInvisible, JournalFits
  <2>2. pc' \in Recovery
    BY <1>5 DEF P!ReplayRecord, Recovery
  <2> QED
    BY <1>2, <1>3, <2>1, <2>2, SameDevice
<1>6. CASE P!ClearAfterReplay
  <2>1. P!Effective' = P!Effective
    BY <1>6, P!ClearInvisible, JournalFits
  <2>2. pc' = "mounted"
    BY <1>6 DEF P!ClearAfterReplay
  <2> QED
    BY <1>2, <1>3, <2>1, <2>2, SameDevice
<1> QED
  BY <1>1, <1>4, <1>5, <1>6 DEF P!Recover, P!RecoverRecord

(* A commit begins. *)
LEMMA Begins ==
  ASSUME P!JInv, NEW t \in P!Tx, J!Begin(t)
  PROVE  /\ P!JInv' /\ Effective' = Effective /\ Effective = home
         /\ pc' = "c_clear" /\ tx' = t /\ rc' = "none" /\ home' = home
<1>1. P!Begin(t)
  BY DEF J!Begin, P!Begin
<1>2. P!JInv'
  BY <1>1, P!LoggingInv, JournalFits
<1>3. Effective = home
  BY MountedShows DEF J!Begin
<1>4. Effective' = Effective
  BY DEF J!Begin, Effective, J!Effective, J!JournalTx
<1> QED
  BY <1>2, <1>3, <1>4 DEF J!Begin

(* The journal fills. *)
LEMMA Logs ==
  ASSUME P!JInv, J!ClearHeader \/ J!WriteDesc \/ J!WriteData
  PROVE  /\ P!JInv' /\ Effective' = Effective
         /\ pc \in Uncommitted /\ pc' \in Uncommitted /\ tx' = tx /\ rc' = rc
<1>1. P!ClearHeader \/ P!WriteDesc \/ P!WriteData
  BY DEF J!ClearHeader, P!ClearHeader, J!WriteDesc, P!WriteDesc, J!WriteData, P!WriteData,
         J!EmptyHeader, P!EmptyHeader
<1>2. P!JInv'
  BY <1>1, P!LoggingInv, JournalFits
<1>3. pc \in Uncommitted /\ pc' \in Uncommitted /\ tx' = tx /\ rc' = rc /\ home' = home
  BY DEF J!ClearHeader, J!WriteDesc, J!WriteData, Uncommitted
<1>4. head = P!EmptyHeader /\ head' = P!EmptyHeader
  BY <1>1 DEF P!JInv, P!HeaderInv, P!ClearHeader, P!WriteDesc, P!WriteData
<1>5. Effective = home /\ Effective' = home'
  BY <1>4 DEF Effective, J!Effective, P!EmptyHeader
<1> QED
  BY <1>2, <1>3, <1>5

(* The header write is where the transaction shows. *)
LEMMA Commits ==
  ASSUME P!JInv, J!WriteHeader
  PROVE  /\ P!JInv' /\ tx \in P!Tx
         /\ Effective' = P!Overlay(Effective, tx)
         /\ pc = "c_head" /\ pc' = "c_home" /\ rc' = rc
<1>1. P!WriteHeader
  BY DEF J!WriteHeader, P!WriteHeader, J!CommittedHeader, P!CommittedHeader
<1>2. P!JInv'
  BY <1>1, P!HomingInv, JournalFits
<1>3. head = P!EmptyHeader /\ tx \in P!Tx
  BY <1>1 DEF P!JInv, P!HeaderInv, P!ControlInv, P!CommitPc, P!WriteHeader
<1>4. Effective = home
  BY <1>3 DEF Effective, J!Effective, P!EmptyHeader
<1>5. P!JournalTx' = tx
  BY <1>1, P!CommitPoint, JournalFits
<1>6. P!Effective' = P!Overlay(home, tx)
  BY <1>1, <1>5 DEF P!Effective, P!WriteHeader, P!CommittedHeader
<1>7. Effective' = P!Effective'
  BY DEF Effective, J!Effective, P!Effective, J!JournalTx, P!JournalTx, J!Overlay, P!Overlay
<1> QED
  BY <1>2, <1>3, <1>4, <1>6, <1>7 DEF J!WriteHeader

(* The home blocks fill, and the journal is cleared or left as it is. *)
LEMMA Homes ==
  ASSUME P!JInv, J!WriteHome \/ J!StopAfterCommitRecord \/ J!ClearAfterCommit
  PROVE  /\ P!JInv' /\ Effective' = Effective /\ pc \in Committed
         /\ \/ pc' \in {"c_home", "c_done"} /\ rc' = rc
            \/ pc' = "idle" /\ rc' = "ok" /\ J!StopAfterCommitRecord
            \/ pc' = "mounted" /\ rc' = "ok"
<1>1. P!WriteHome \/ P!StopAfterCommitRecord \/ P!ClearAfterCommit
  BY DEF J!WriteHome, P!WriteHome, J!StopAfterCommitRecord, P!StopAfterCommitRecord,
         J!ClearAfterCommit, P!ClearAfterCommit, J!EmptyHeader, P!EmptyHeader,
         J!Return, P!Return, J!NoTx, P!NoTx, J!disk, P!disk
<1>2. P!JInv'
  BY <1>1, P!HomingInv, JournalFits
<1>3. Effective' = P!Effective'
  BY DEF Effective, J!Effective, P!Effective, J!JournalTx, P!JournalTx, J!Overlay, P!Overlay
<1>4. P!Effective' = P!Effective
  <2>1. CASE P!WriteHome
    BY <2>1, P!HomingInvisible, JournalFits
  <2>2. CASE P!ClearAfterCommit
    BY <2>2, P!ClearInvisible, JournalFits
  <2>3. CASE P!StopAfterCommitRecord
    BY <2>3 DEF P!StopAfterCommitRecord, P!disk, P!Effective, P!JournalTx
  <2> QED
    BY <1>1, <2>1, <2>2, <2>3
<1>5. /\ pc \in Committed
      /\ \/ pc' \in {"c_home", "c_done"} /\ rc' = rc
         \/ pc' = "idle" /\ rc' = "ok" /\ J!StopAfterCommitRecord
         \/ pc' = "mounted" /\ rc' = "ok"
  BY DEF J!WriteHome, J!StopAfterCommitRecord, J!ClearAfterCommit, J!Return, Committed
<1> QED
  BY <1>2, <1>3, <1>4, <1>5, SameDevice

(* A call that ends where it is leaves what is shown alone. *)
LEMMA Ends ==
  ASSUME P!JInv, UNCHANGED <<home, head, desc, data>>, pc' = "idle", idx' = 1, tx' = <<>>,
         rc' \in {"none", "ok", "io", "crash"}
  PROVE  P!JInv' /\ Effective' = Effective
<1>1. UNCHANGED P!disk
  BY DEF P!disk
<1>2. P!Return(rc', "idle")
  BY DEF P!Return, P!NoTx
<1>3. P!JInv'
  BY <1>1, <1>2, P!ReturnInv, JournalFits
<1> QED
  BY <1>3 DEF Effective, J!Effective, J!JournalTx

(* A write error ends the call with M16_E_IO. *)
LEMMA Fails ==
  ASSUME P!JInv, J!WriteFails
  PROVE  /\ P!JInv' /\ Effective' = Effective /\ pc' = "idle"
         /\ pc \in Uncommitted \cup {"c_home", "c_done"} => rc' = "io"
<1>1. /\ UNCHANGED <<home, head, desc, data>> /\ pc' = "idle" /\ idx' = 1 /\ tx' = <<>>
      /\ pc \in Uncommitted \cup {"c_home", "c_done"} => rc' = "io"
      /\ rc' \in {"io", rc}
  BY DEF J!WriteFails, J!Return, J!disk, J!NoTx, J!CommitPc, Uncommitted
<1>2. rc \in {"none", "ok", "io", "crash"}
  BY DEF P!JInv, P!TypeOK
<1> QED
  BY <1>1, <1>2, Ends

(* Nothing happens to the journal. *)
LEMMA Rests ==
  ASSUME P!JInv, UNCHANGED journal
  PROVE  P!JInv' /\ Effective' = Effective
<1>1. UNCHANGED P!vars
  BY DEF journal, P!vars
<1>2. P!JInv'
  BY <1>1, P!NextInv, JournalFits
<1> QED
  BY <1>2 DEF journal, Effective, J!Effective, J!JournalTx

(* An empty journal on any device. *)
LEMMA Fresh ==
  ASSUME NEW h \in [Lba -> Value], home' = h, head' = J!EmptyHeader,
         desc' = [i \in 1..MaxRecords |-> NoDesc], data' = [i \in 1..MaxRecords |-> Zero],
         pc' = "idle", idx' = 1, tx' = <<>>, rc' = "none"
  PROVE  P!JInv' /\ Effective' = h
<1> USE SameDevice, JournalFits
<1>1. P!TypeOK'
  BY DEF P!TypeOK, P!Header, P!EmptyHeader, P!Slot, P!NoTx
<1>2. P!ControlInv' /\ P!HeaderInv' /\ P!LoggedInv' /\ P!HomeInv'
  BY DEF P!ControlInv, P!HeaderInv, P!LoggedInv, P!HomeInv, P!CommitPc, P!NoTx, P!EmptyHeader
<1>3. P!CommittedJournalReplayable'
  BY DEF P!CommittedJournalReplayable, P!EmptyHeader
<1>4. Effective' = h
  BY DEF Effective, J!Effective, J!EmptyHeader
<1> QED
  BY <1>1, <1>2, <1>3, <1>4 DEF P!JInv

-----------------------------------------------------------------------------
(* The layout of the device. *)

(* A nonempty set of numbers has a least one, which m16_find_free returns. *)
LEMMA LeastIs ==
  ASSUME NEW S, S \subseteq Nat, S # {}
  PROVE  Least(S) \in S
<1>1. \E x \in S : \A y \in S : x <= y
  <2>1. PICK k \in S : \A j \in S : <<j, k>> \notin OpToRel(<, Nat)
    BY WFMin, NatLessThanWellFounded
  <2>2. ASSUME NEW j \in S PROVE k <= j
    <3>1. j \in Nat /\ k \in Nat
      OBVIOUS
    <3>2. j < k => <<j, k>> \in OpToRel(<, Nat)
      BY <3>1 DEF OpToRel
    <3>3. ~(j < k)
      BY <2>1, <3>2, Zenon
    <3> QED
      BY <3>1, <3>3
  <2> QED
    BY <2>2
<1> QED
  BY <1>1 DEF Least

(* The blocks of the inode table are numbered from 0 without a gap. *)
LEMMA TableNumbers ==
  /\ TableBlock(LastIno) \in Nat
  /\ \A i \in Ino : TableBlock(i) \in 0..TableBlock(LastIno) /\ TableBlock(i) \in TableBlocks
  /\ \A k \in 0..TableBlock(LastIno) : k \in TableBlocks
  /\ TableBlocks \subseteq 0..TableBlock(LastIno)
  /\ TableBlock(0) = 0
<1>1. LastIno \in Nat /\ InoPerBlock \in Nat /\ InoPerBlock > 0
  BY FsAssumption
<1>2. ASSUME NEW v \in Nat
      PROVE  /\ v \div InoPerBlock \in Nat
             /\ InoPerBlock * (v \div InoPerBlock) <= v
             /\ v < InoPerBlock * (v \div InoPerBlock) + InoPerBlock
  BY <1>1
<1>3. ASSUME NEW a \in Nat, NEW b \in Nat, InoPerBlock * a < InoPerBlock * b + InoPerBlock
      PROVE  a <= b
  <2>1. CASE a >= b + 1
    <3>1. PICK c \in Nat : a = b + 1 + c
      BY <2>1
    <3>2. InoPerBlock * a = InoPerBlock * b + InoPerBlock + InoPerBlock * c
      BY <1>1, <3>1
    <3>3. InoPerBlock * c \in Nat /\ InoPerBlock * b \in Nat
      BY <1>1
    <3> QED
      BY <1>1, <1>3, <3>2, <3>3
  <2> QED
    BY <2>1
<1>4. \A i \in Ino : TableBlock(i) \in 0..TableBlock(LastIno)
  <2> TAKE i \in Ino
  <2>1. i \in Nat /\ i <= LastIno
    BY <1>1 DEF Ino
  <2> DEFINE a == i \div InoPerBlock
             b == LastIno \div InoPerBlock
  <2>2. /\ a \in Nat /\ InoPerBlock * a <= i
        /\ b \in Nat /\ LastIno < InoPerBlock * b + InoPerBlock
    BY <1>1, <1>2, <2>1
  <2>3. a <= b
    <3> HIDE DEF a, b
    <3>1. InoPerBlock * a \in Nat /\ InoPerBlock * b \in Nat
      BY <1>1, <2>2
    <3>2. InoPerBlock * a < InoPerBlock * b + InoPerBlock
      BY <1>1, <2>1, <2>2, <3>1
    <3> QED
      BY <1>3, <2>2, <3>2
  <2> QED
    BY <2>2, <2>3 DEF TableBlock
<1>5. \A k \in 0..TableBlock(LastIno) : k \in TableBlocks
  <2> TAKE k \in 0..TableBlock(LastIno)
  <2>0. k \in Nat /\ k <= LastIno \div InoPerBlock
    BY <1>1, <1>2 DEF TableBlock
  <2> DEFINE i == InoPerBlock * k
             q == LastIno \div InoPerBlock
  <2>1. i \in Nat
    BY <1>1, <2>0
  <2>2. i <= LastIno
    <3>1. q \in Nat /\ InoPerBlock * q <= LastIno
      BY <1>1, <1>2
    <3>2. InoPerBlock * k <= InoPerBlock * q
      <4>1. PICK c \in Nat : q = k + c
        BY <2>0, <3>1
      <4>2. InoPerBlock * q = InoPerBlock * k + InoPerBlock * c /\ InoPerBlock * c \in Nat
        BY <1>1, <2>0, <4>1
      <4> QED
        BY <2>1, <4>2
    <3>3. InoPerBlock * q \in Nat
      BY <1>1, <3>1
    <3> QED
      BY <1>1, <2>1, <3>1, <3>2, <3>3
  <2>3. i \div InoPerBlock = k
    <3> DEFINE d == i \div InoPerBlock
    <3>1. d \in Nat /\ InoPerBlock * d <= i /\ i < InoPerBlock * d + InoPerBlock
      BY <1>2, <2>1
    <3>2. k <= d
      <4> HIDE DEF d
      <4> QED
        BY <1>3, <2>0, <3>1
    <3>3. d <= k
      <4> HIDE DEF d
      <4>1. InoPerBlock * d \in Nat
        BY <1>1, <3>1
      <4>2. InoPerBlock * d < InoPerBlock * k + InoPerBlock
        BY <1>1, <2>1, <3>1, <4>1
      <4> QED
        BY <1>3, <2>0, <3>1, <4>2
    <3> HIDE DEF d
    <3>4. d = k
      BY <2>0, <3>1, <3>2, <3>3
    <3> QED
      BY <3>4 DEF d
  <2>4. i \in Ino
    BY <1>1, <2>1, <2>2 DEF Ino
  <2> QED
    BY <2>3, <2>4 DEF TableBlocks, TableBlock
<1>6. TableBlock(LastIno) \in Nat
  BY <1>1, <1>2 DEF TableBlock
<1>7. \A i \in Ino : TableBlock(i) \in TableBlocks
  BY DEF TableBlocks
<1>8. TableBlock(0) = 0
  BY <1>1 DEF TableBlock
<1>9. TableBlocks \subseteq 0..TableBlock(LastIno)
  BY <1>4 DEF TableBlocks
<1> QED
  BY <1>4, <1>5, <1>6, <1>7, <1>8, <1>9

(* The addresses of the blocks. *)
LEMMA Addresses ==
  /\ Super \in Lba /\ InodeBitmap \in Lba /\ BlockBitmap \in Lba /\ RootDir \in Lba
  /\ \A k \in TableBlocks : InodeTable(k) \in Lba
  /\ \A b \in Blk : DataBlock(b) \in Lba
  /\ \A k \in TableBlocks : InodeTable(k) \notin {Super, InodeBitmap, BlockBitmap, RootDir}
  /\ \A b \in Blk : DataBlock(b) \notin {Super, InodeBitmap, BlockBitmap, RootDir}
  /\ \A k \in TableBlocks, b \in Blk : InodeTable(k) # DataBlock(b)
  /\ \A k, m \in TableBlocks : InodeTable(k) = InodeTable(m) => k = m
  /\ \A b, c \in Blk : DataBlock(b) = DataBlock(c) => b = c
  /\ Super # InodeBitmap /\ Super # BlockBitmap /\ Super # RootDir
  /\ InodeBitmap # BlockBitmap /\ InodeBitmap # RootDir /\ BlockBitmap # RootDir
<1>1. /\ \A k \in TableBlocks : InodeTable(k) \in Lba
      /\ \A b \in Blk : DataBlock(b) \in Lba
      /\ Super \in Lba /\ InodeBitmap \in Lba /\ BlockBitmap \in Lba /\ RootDir \in Lba
  BY DEF Lba
<1>2. /\ \A k \in TableBlocks : InodeTable(k) \notin {Super, InodeBitmap, BlockBitmap, RootDir}
      /\ \A b \in Blk : DataBlock(b) \notin {Super, InodeBitmap, BlockBitmap, RootDir}
      /\ \A k \in TableBlocks, b \in Blk : InodeTable(k) # DataBlock(b)
  BY DEF InodeTable, DataBlock, Super, InodeBitmap, BlockBitmap, RootDir
<1>3. /\ \A k, m \in TableBlocks : InodeTable(k) = InodeTable(m) => k = m
      /\ \A b, c \in Blk : DataBlock(b) = DataBlock(c) => b = c
  BY DEF InodeTable, DataBlock
<1>4. /\ Super # InodeBitmap /\ Super # BlockBitmap /\ Super # RootDir
      /\ InodeBitmap # BlockBitmap /\ InodeBitmap # RootDir /\ BlockBitmap # RootDir
  BY DEF Super, InodeBitmap, BlockBitmap, RootDir
<1> QED
  BY <1>1, <1>2, <1>3, <1>4

(* What a formatted or a zeroed device holds. *)
Holds(d, ib, bb, inodes, dir, blocks) ==
  /\ d = [l \in Lba |-> d[l]]
  /\ d[Super] \in [magic : BOOLEAN]
  /\ d[InodeBitmap] = [bits |-> ib] /\ d[BlockBitmap] = [bits |-> bb]
  /\ d[RootDir] = [dir |-> dir]
  /\ \A k \in TableBlocks : d[InodeTable(k)] = Table(k, inodes)
  /\ \A b \in Blk : d[DataBlock(b)] = [bytes |-> blocks[b]]

(* Device puts them there. *)
LEMMA DeviceHolds ==
  ASSUME NEW super, [magic |-> super] \in [magic : BOOLEAN],
         NEW ib, NEW bb, NEW inodes, NEW dir, NEW blocks
  PROVE  Holds(Device(super, ib, bb, inodes, dir, blocks), ib, bb, inodes, dir, blocks)
<1> DEFINE d == Device(super, ib, bb, inodes, dir, blocks)
<1>1. d = [l \in Lba |-> d[l]]
  <2> DEFINE v(l) == CASE l = Super -> [magic |-> super]
                       [] l = InodeBitmap -> [bits |-> ib]
                       [] l = BlockBitmap -> [bits |-> bb]
                       [] l = RootDir -> [dir |-> dir]
                       [] l[1] = "it" -> Table(l[2], inodes)
                       [] l[1] = "blk" -> [bytes |-> blocks[l[2]]]
  <2>1. d = [l \in Lba |-> v(l)]
    BY DEF Device
  <2> HIDE DEF v, d
  <2> QED
    BY <2>1
<1>2. /\ Super[1] = "super" /\ InodeBitmap[1] = "ib" /\ BlockBitmap[1] = "bb"
      /\ RootDir[1] = "dir"
  BY DEF Super, InodeBitmap, BlockBitmap, RootDir
<1>3. d[Super] = [magic |-> super] /\ d[InodeBitmap] = [bits |-> ib]
  BY <1>2, Addresses DEF Device
<1>4. d[BlockBitmap] = [bits |-> bb]
  BY <1>2, Addresses DEF Device
<1>5. d[RootDir] = [dir |-> dir]
  BY <1>2, Addresses DEF Device
<1>6. \A k \in TableBlocks : d[InodeTable(k)] = Table(k, inodes)
  <2> TAKE k \in TableBlocks
  <2>1. InodeTable(k) \in Lba /\ InodeTable(k)[1] = "it" /\ InodeTable(k)[2] = k
    BY Addresses DEF InodeTable
  <2> QED
    BY <2>1, Addresses DEF Device
<1>7. \A b \in Blk : d[DataBlock(b)] = [bytes |-> blocks[b]]
  <2> TAKE b \in Blk
  <2>1. DataBlock(b) \in Lba /\ DataBlock(b)[1] = "blk" /\ DataBlock(b)[2] = b
    BY Addresses DEF DataBlock
  <2> QED
    BY <2>1, Addresses DEF Device
<1> HIDE DEF d
<1>9. d[Super] \in [magic : BOOLEAN]
  BY <1>3
<1>8. Holds(d, ib, bb, inodes, dir, blocks)
  BY <1>1, <1>3, <1>4, <1>5, <1>6, <1>7, <1>9 DEF Holds
<1> QED
  BY <1>8 DEF d

(* What may be stored in a block. *)
LEMMA Storable ==
  /\ [bits : SUBSET Nat] \subseteq Value
  /\ [dir : [Dirent -> DirentValue]] \subseteq Value
  /\ \A k \in TableBlocks : [inodes : [InodesOf(k) -> InodeValue]] \subseteq Value
  /\ [bytes : Contents \cup {Zero}] \subseteq Value
  /\ [magic : BOOLEAN] \subseteq Value
<1>1. \A k \in TableBlocks : [inodes : [InodesOf(k) -> InodeValue]] \subseteq Value
  <2> TAKE k \in TableBlocks
  <2>1. [inodes : [InodesOf(k) -> InodeValue]] \subseteq
          UNION {[inodes : [{i \in Ino : TableBlock(i) = j} -> InodeValue]] : j \in TableBlocks}
    BY Zenon DEF InodesOf
  <2> QED
    BY <2>1, Zenon DEF Value
<1>2. [bits : SUBSET Nat] \subseteq Value /\ [magic : BOOLEAN] \subseteq Value
  BY Zenon DEF Value
<1>3. [dir : [Dirent -> DirentValue]] \subseteq Value
  BY Zenon DEF Value, DirentValue
<1>4. [bytes : Contents \cup {Zero}] \subseteq Value
  BY Zenon DEF Value
<1> QED
  BY <1>1, <1>2, <1>3, <1>4

(* A block of the inode table. *)
LEMMA TableType ==
  ASSUME NEW k \in TableBlocks, NEW inodes \in [Ino -> InodeValue]
  PROVE  /\ Table(k, inodes) \in [inodes : [InodesOf(k) -> InodeValue]]
         /\ \A i \in InodesOf(k) : Table(k, inodes).inodes[i] = inodes[i]
<1>1. [i \in InodesOf(k) |-> inodes[i]] \in [InodesOf(k) -> InodeValue]
  BY DEF InodesOf
<1>2. Table(k, inodes) = [inodes |-> [i \in InodesOf(k) |-> inodes[i]]]
  BY DEF Table, InodesOf
<1> QED
  BY <1>1, <1>2

(* m16_format's blocks have their shape. *)
LEMMA DeviceShape ==
  ASSUME NEW d, NEW ib \in SUBSET Nat, NEW bb \in SUBSET Nat,
         NEW inodes \in [Ino -> InodeValue], NEW dir \in [Dirent -> DirentValue],
         NEW blocks \in [Blk -> Contents \cup {Zero}],
         Holds(d, ib, bb, inodes, dir, blocks)
  PROVE  Shape(d) /\ Dir(d) = dir /\ \A i \in Ino : Inode(d, i) = inodes[i]
<1>a. /\ d = [l \in Lba |-> d[l]]
      /\ d[Super] \in [magic : BOOLEAN]
      /\ d[InodeBitmap] = [bits |-> ib] /\ d[BlockBitmap] = [bits |-> bb]
      /\ d[RootDir] = [dir |-> dir]
      /\ \A k \in TableBlocks : d[InodeTable(k)] = Table(k, inodes)
      /\ \A b \in Blk : d[DataBlock(b)] = [bytes |-> blocks[b]]
  BY DEF Holds
<1>b. /\ [bits |-> ib] \in [bits : SUBSET Nat] /\ [bits |-> bb] \in [bits : SUBSET Nat]
      /\ [dir |-> dir] \in [dir : [Dirent -> DirentValue]]
      /\ \A b \in Blk : [bytes |-> blocks[b]] \in [bytes : Contents \cup {Zero}]
  OBVIOUS
<1>1. /\ d[InodeBitmap] \in [bits : SUBSET Nat] /\ d[BlockBitmap] \in [bits : SUBSET Nat]
      /\ d[Super] \in [magic : BOOLEAN]
      /\ d[RootDir] \in [dir : [Dirent -> DirentValue]]
      /\ \A b \in Blk : d[DataBlock(b)] \in [bytes : Contents \cup {Zero}]
  BY <1>a, <1>b, Zenon
<1>2. \A k \in TableBlocks : d[InodeTable(k)] \in [inodes : [InodesOf(k) -> InodeValue]]
  BY <1>a, TableType
<1>3. \A l \in Lba : d[l] \in Value
  <2> TAKE l \in Lba
  <2>1. CASE l \in {Super, InodeBitmap, BlockBitmap, RootDir}
    BY <2>1, <1>1, Storable, Zenon
  <2>2. CASE \E k \in TableBlocks : l = InodeTable(k)
    BY <2>2, <1>2, Storable, Zenon
  <2>3. CASE \E b \in Blk : l = DataBlock(b)
    BY <2>3, <1>1, Storable, Zenon
  <2> QED
    BY <2>1, <2>2, <2>3 DEF Lba
<1>4. d \in [Lba -> Value]
  BY <1>a, <1>3
<1>5. Shape(d)
  BY <1>1, <1>2, <1>4 DEF Shape
<1>6. \A i \in Ino : Inode(d, i) = inodes[i]
  <2> TAKE i \in Ino
  <2>1. TableBlock(i) \in TableBlocks /\ i \in InodesOf(TableBlock(i))
    BY TableNumbers DEF InodesOf
  <2>2. Table(TableBlock(i), inodes).inodes[i] = inodes[i]
    BY <2>1, TableType
  <2> QED
    BY <1>a, <2>1, <2>2 DEF Inode
<1>7. Dir(d) = dir
  BY <1>a DEF Dir
<1> QED
  BY <1>5, <1>6, <1>7

(* A zeroed and a formatted device have no files. *)
LEMMA FreshDevices ==
  /\ Shape(ZeroDevice) /\ Files(ZeroDevice) = {}
  /\ Shape(FormattedDevice) /\ Files(FormattedDevice) = {}
  /\ Rooted(FormattedDevice)
<1>1. NoFiles \in [Dirent -> DirentValue] /\ \A s \in Dirent : NoFiles[s].name = NoName
  <2>1. 0 \in Ino
    BY FsAssumption DEF Ino
  <2> QED
    BY <2>1 DEF NoFiles, FreeDirent, DirentValue
<1> DEFINE free == [i \in Ino |-> FreeInode]
           root == [i \in Ino |-> IF i = 0 THEN RootInode ELSE FreeInode]
           zeros == [b \in Blk |-> Zero]
<1>2. free \in [Ino -> InodeValue] /\ root \in [Ino -> InodeValue]
  BY DEF InodeValue
<1>3. zeros \in [Blk -> Contents \cup {Zero}]
  OBVIOUS
<1>4. 0 \in Ino /\ root[0] = RootInode
  BY FsAssumption DEF Ino
<1> HIDE DEF free, root, zeros
<1> DEFINE z == Device(FALSE, {}, {}, free, NoFiles, zeros)
           f == Device(TRUE, {0}, {0}, root, NoFiles, zeros)
<1>a. {0} \in SUBSET Nat /\ {} \in SUBSET Nat
  OBVIOUS
<1>d. [magic |-> FALSE] \in [magic : BOOLEAN] /\ [magic |-> TRUE] \in [magic : BOOLEAN]
  BY Zenon
<1>8. ZeroDevice = z /\ FormattedDevice = f
  BY DEF ZeroDevice, FormattedDevice, free, root, zeros
<1>c. Holds(f, {0}, {0}, root, NoFiles, zeros) /\ Holds(z, {}, {}, free, NoFiles, zeros)
  BY <1>d, DeviceHolds
<1> HIDE DEF z, f
<1>5. Shape(z) /\ Dir(z) = NoFiles
  BY <1>1, <1>2, <1>3, <1>a, <1>c, DeviceShape
<1>b. Shape(f) /\ Dir(f) = NoFiles /\ \A i \in Ino : Inode(f, i) = root[i]
  BY <1>1, <1>2, <1>3, <1>a, <1>c, DeviceShape
<1>6. Shape(f) /\ Dir(f) = NoFiles /\ Inode(f, 0) = RootInode
  BY <1>4, <1>b
<1>7. f[InodeBitmap] = [bits |-> {0}] /\ f[BlockBitmap] = [bits |-> {0}]
  BY <1>c DEF Holds
<1>9. ASSUME NEW d, Dir(d) = NoFiles PROVE Files(d) = {}
  BY <1>1, <1>9 DEF Files, Dir
<1>10. Rooted(FormattedDevice)
  BY <1>6, <1>7, <1>8 DEF Rooted, Marked, MarkedBlk
<1> QED
  BY <1>5, <1>6, <1>8, <1>9, <1>10

(* Taking one block from another device of that shape. *)
LEMMA ShapeMixes ==
  ASSUME NEW d, NEW e, Shape(d), Shape(e), NEW a \in Lba, Files(d) = {}, Files(e) = {}
  PROVE  /\ Shape([d EXCEPT ![a] = e[a]])
         /\ Files([d EXCEPT ![a] = e[a]]) = {}
<1> DEFINE f == [d EXCEPT ![a] = e[a]]
<1>1. d \in [Lba -> Value] /\ e \in [Lba -> Value]
  BY DEF Shape
<1>2. f \in [Lba -> Value] /\ \A l \in Lba : f[l] = d[l] \/ f[l] = e[l]
  BY <1>1
<1> HIDE DEF f
<1>3. f[InodeBitmap] \in [bits : SUBSET Nat] /\ f[BlockBitmap] \in [bits : SUBSET Nat]
  BY <1>2, Addresses DEF Shape
<1>4. f[RootDir] \in [dir : [Dirent -> DirentValue]]
  BY <1>2, Addresses DEF Shape
<1>5. \A k \in TableBlocks : f[InodeTable(k)] \in [inodes : [InodesOf(k) -> InodeValue]]
  <2> TAKE k \in TableBlocks
  <2>1. InodeTable(k) \in Lba
    BY Addresses
  <2>2. f[InodeTable(k)] = d[InodeTable(k)] \/ f[InodeTable(k)] = e[InodeTable(k)]
    BY <1>2, <2>1
  <2> QED
    BY <2>2 DEF Shape
<1>6. f[RootDir] = d[RootDir] \/ f[RootDir] = e[RootDir]
  BY <1>2, Addresses
<1>7. Files(f) = {}
  BY <1>6 DEF Files
<1>8. Shape(f)
  BY <1>2, <1>3, <1>4, <1>5 DEF Shape
<1> QED
  BY <1>7, <1>8 DEF f

(* The blocks m16_format writes, in its order. *)
LEMMA FormatBlocks ==
  /\ Len(FormatOrder) \in Nat
  /\ \A k \in 1..Len(FormatOrder) : FormatOrder[k] \in Lba
  /\ \A l \in {InodeBitmap, BlockBitmap, InodeTable(0)} :
       \E k \in 1..Len(FormatOrder) : FormatOrder[k] = l
<1> DEFINE n == TableBlock(LastIno) + 1
           meta == <<Super, InodeBitmap, BlockBitmap>>
<1>1. n \in Nat /\ n >= 1
  BY TableNumbers
<1>2. /\ TableOrder \in [1..n -> Lba]
      /\ \A k \in 1..n : TableOrder[k] = InodeTable(k - 1)
  <2>1. \A k \in 1..n : k - 1 \in 0..TableBlock(LastIno)
    BY TableNumbers
  <2>2. \A k \in 1..n : InodeTable(k - 1) \in Lba
    BY <2>1, TableNumbers, Addresses
  <2> QED
    BY <2>2 DEF TableOrder
<1>3. TableOrder \in Seq(Lba) /\ Len(TableOrder) = n
  BY <1>1, <1>2
<1>4. meta \in Seq(Lba) /\ Len(meta) = 3 /\ <<RootDir>> \in Seq(Lba)
      /\ meta[2] = InodeBitmap /\ meta[3] = BlockBitmap
  BY Addresses
<1> HIDE DEF meta, n
<1>5. meta \o TableOrder \in Seq(Lba)
  BY <1>3, <1>4
<1>6. /\ Len(meta \o TableOrder) = 3 + n
      /\ (meta \o TableOrder)[2] = InodeBitmap
      /\ (meta \o TableOrder)[3] = BlockBitmap
      /\ (meta \o TableOrder)[4] = TableOrder[1]
  <2>1. /\ Len(meta \o TableOrder) = Len(meta) + Len(TableOrder)
        /\ \A i \in 1..(Len(meta) + Len(TableOrder)) :
             (meta \o TableOrder)[i] = IF i <= Len(meta) THEN meta[i] ELSE TableOrder[i - Len(meta)]
    BY <1>3, <1>4, ConcatProperties
  <2>2. {2, 3, 4} \subseteq 1..(3 + n)
    BY <1>1
  <2> QED
    BY <1>3, <1>4, <2>1, <2>2
<1>7. FormatOrder = (meta \o TableOrder) \o <<RootDir>>
  BY DEF FormatOrder, meta
<1>8. FormatOrder \in Seq(Lba) /\ Len(FormatOrder) = 4 + n
  BY <1>1, <1>4, <1>5, <1>6, <1>7
<1>9. /\ FormatOrder[2] = InodeBitmap /\ FormatOrder[3] = BlockBitmap
      /\ FormatOrder[4] = TableOrder[1]
  BY <1>1, <1>4, <1>5, <1>6, <1>7
<1>10. TableOrder[1] = InodeTable(0)
  BY <1>1, <1>2
<1>11. \A k \in 1..Len(FormatOrder) : FormatOrder[k] \in Lba
  BY <1>8
<1>12. /\ Len(FormatOrder) \in Nat
       /\ {2, 3, 4} \subseteq 1..Len(FormatOrder)
  BY <1>1, <1>8
<1> QED
  BY <1>9, <1>10, <1>11, <1>12

-----------------------------------------------------------------------------
(* What the two transactions of m16_write_file_ex do to a device. *)

(* The first one marks the inode and the block and fills in the inode. *)
Allocates(d, e, i, b) ==
  /\ Shape(e)
  /\ Marked(e) = Marked(d) \cup {i}
  /\ MarkedBlk(e) = MarkedBlk(d) \cup {b}
  /\ e[RootDir] = d[RootDir]
  /\ \A x \in Blk : e[DataBlock(x)] = d[DataBlock(x)]
  /\ \A j \in Ino : Inode(e, j) = IF j = i THEN FileInode(b) ELSE Inode(d, j)

(* The second one writes the entry and the data block. *)
Enters(d, e, i, b, s, n, v) ==
  /\ Shape(e)
  /\ Marked(e) = Marked(d)
  /\ MarkedBlk(e) = MarkedBlk(d)
  /\ Dir(e) = [Dir(d) EXCEPT ![s] = [name |-> n, ino |-> i]]
  /\ \A j \in Ino : Inode(e, j) = Inode(d, j)
  /\ \A x \in Blk : Bytes(e, x) = IF x = b THEN v ELSE Bytes(d, x)

(* The inodes of a device of that shape. *)
LEMMA InodeType ==
  ASSUME NEW d, Shape(d), NEW j \in Ino
  PROVE  Inode(d, j) \in InodeValue
<1>1. TableBlock(j) \in TableBlocks /\ j \in InodesOf(TableBlock(j))
  BY TableNumbers DEF InodesOf
<1>2. d[InodeTable(TableBlock(j))] \in [inodes : [InodesOf(TableBlock(j)) -> InodeValue]]
  BY <1>1 DEF Shape
<1> QED
  BY <1>1, <1>2 DEF Inode

(* The records of the first transaction. *)
LEMMA AllocationRecords ==
  ASSUME NEW d, Shape(d), NEW i \in Ino, NEW b \in Blk
  PROVE  LET t == Allocation(d, i, b)
             n == TableBlock(LastIno) + 3
         IN  /\ n \in 1..MaxRecords
             /\ t \in [1..n -> P!Record]
             /\ t[1] = [lba |-> InodeBitmap, val |-> [bits |-> Marked(d) \cup {i}]]
             /\ t[2] = [lba |-> BlockBitmap, val |-> [bits |-> MarkedBlk(d) \cup {b}]]
             /\ \A k \in TableBlocks :
                  t[k + 3] = [lba |-> InodeTable(k), val |-> Table(k, NewTable(d, i, b))]
<1> DEFINE q == TableBlock(LastIno)
           n == q + 3
           t == Allocation(d, i, b)
           r1 == [lba |-> InodeBitmap, val |-> [bits |-> Marked(d) \cup {i}]]
           r2 == [lba |-> BlockBitmap, val |-> [bits |-> MarkedBlk(d) \cup {b}]]
           new == NewTable(d, i, b)
           rest == [k \in 1..Len(TableOrder) |->
                      [lba |-> TableOrder[k], val |-> Table(TableOrder[k][2], new)]]
<1>1. q \in Nat /\ n \in 1..MaxRecords
  BY TableNumbers, FsAssumption DEF TableBlock
<1>2. i \in Nat /\ b \in Nat
  BY DEF Ino, Blk
<1>3. new \in [Ino -> InodeValue]
  BY InodeType DEF NewTable, InodeValue
<1>4. r1 \in P!Record /\ r2 \in P!Record
  <2>1. Marked(d) \cup {i} \in SUBSET Nat /\ MarkedBlk(d) \cup {b} \in SUBSET Nat
    BY <1>2 DEF Shape, Marked, MarkedBlk
  <2>2. [bits |-> Marked(d) \cup {i}] \in [bits : SUBSET Nat]
        /\ [bits |-> MarkedBlk(d) \cup {b}] \in [bits : SUBSET Nat]
    BY <2>1
  <2>3. [bits |-> Marked(d) \cup {i}] \in Value /\ [bits |-> MarkedBlk(d) \cup {b}] \in Value
    BY <2>2, Storable, Zenon
  <2> QED
    BY <2>3, Addresses DEF P!Record
<1>5. /\ Len(TableOrder) = q + 1
      /\ \A k \in 1..(q + 1) : TableOrder[k] = InodeTable(k - 1)
  BY <1>1 DEF TableOrder
<1> HIDE DEF q, r1, r2, new
<1>6. \A k \in 1..(q + 1) :
        /\ k - 1 \in TableBlocks
        /\ rest[k] = [lba |-> InodeTable(k - 1), val |-> Table(k - 1, new)]
  <2> TAKE k \in 1..(q + 1)
  <2>1. k - 1 \in TableBlocks
    <3>1. k - 1 \in 0..q
      BY <1>1
    <3> QED
      BY <3>1, TableNumbers DEF q
  <2>2. TableOrder[k] = InodeTable(k - 1) /\ TableOrder[k][2] = k - 1
    BY <1>5 DEF InodeTable
  <2> QED
    BY <1>5, <2>1, <2>2
<1>7. rest \in [1..(q + 1) -> P!Record]
  <2>1. \A k \in 1..(q + 1) : rest[k] \in P!Record
    <3> TAKE k \in 1..(q + 1)
    <3>1. k - 1 \in TableBlocks
      BY <1>6
    <3>2. Table(k - 1, new) \in [inodes : [InodesOf(k - 1) -> InodeValue]]
      BY <1>3, <3>1, TableType
    <3>3. Table(k - 1, new) \in Value
      BY <3>1, <3>2, Storable, Zenon
    <3>4. InodeTable(k - 1) \in Lba
      BY <3>1, Addresses
    <3>5. [lba |-> InodeTable(k - 1), val |-> Table(k - 1, new)] \in P!Record
      BY <3>3, <3>4 DEF P!Record
    <3> HIDE DEF rest
    <3>6. rest[k] = [lba |-> InodeTable(k - 1), val |-> Table(k - 1, new)]
      BY <1>6
    <3> QED
      BY <3>5, <3>6
  <2>2. rest = [k \in 1..(q + 1) |-> rest[k]]
    BY <1>5
  <2> HIDE DEF rest
  <2> QED
    BY <2>1, <2>2
<1>8. t = <<r1, r2>> \o rest
  BY DEF Allocation, r1, r2, new
<1> HIDE DEF rest, t
<1>9. rest \in Seq(P!Record) /\ Len(rest) = q + 1
  BY <1>1, <1>7
<1>10. <<r1, r2>> \in Seq(P!Record) /\ Len(<<r1, r2>>) = 2
  BY <1>4
<1>11. /\ t \in Seq(P!Record) /\ Len(t) = 2 + (q + 1)
       /\ \A k \in 1..(2 + (q + 1)) :
            t[k] = IF k <= 2 THEN <<r1, r2>>[k] ELSE rest[k - 2]
  BY <1>8, <1>9, <1>10, ConcatProperties
<1>12. t[1] = r1 /\ t[2] = r2
  <2>1. 1 \in 1..(2 + (q + 1)) /\ 2 \in 1..(2 + (q + 1))
    BY <1>1
  <2> QED
    BY <1>11, <2>1
<1>13. \A k \in TableBlocks : t[k + 3] = [lba |-> InodeTable(k), val |-> Table(k, new)]
  <2> TAKE k \in TableBlocks
  <2>1. k \in 0..q
    BY TableNumbers DEF q
  <2>2. k + 3 \in 1..(2 + (q + 1)) /\ ~(k + 3 <= 2) /\ (k + 3) - 2 = k + 1 /\ k + 1 \in 1..(q + 1)
        /\ (k + 1) - 1 = k
    BY <1>1, <2>1
  <2>3. t[k + 3] = rest[k + 1]
    BY <1>11, <2>2
  <2> QED
    BY <1>6, <2>2, <2>3
<1>14. t \in [1..n -> P!Record]
  <2>1. n = Len(t)
    BY <1>1, <1>11
  <2> QED
    BY <1>11, <2>1
<1> QED
  BY <1>1, <1>12, <1>13, <1>14 DEF q, t, r1, r2, new

(* The first transaction is one, and does what it should. *)
LEMMA Allocated ==
  ASSUME NEW d, Shape(d), NEW i \in Ino, NEW b \in Blk
  PROVE  /\ Allocation(d, i, b) \in P!Tx
         /\ Allocates(d, P!Overlay(d, Allocation(d, i, b)), i, b)
<1> DEFINE q == TableBlock(LastIno)
           n == q + 3
           t == Allocation(d, i, b)
           e == P!Overlay(d, t)
           new == NewTable(d, i, b)
<1>1. /\ n \in 1..MaxRecords
      /\ t \in [1..n -> P!Record]
      /\ t[1] = [lba |-> InodeBitmap, val |-> [bits |-> Marked(d) \cup {i}]]
      /\ t[2] = [lba |-> BlockBitmap, val |-> [bits |-> MarkedBlk(d) \cup {b}]]
      /\ \A k \in TableBlocks : t[k + 3] = [lba |-> InodeTable(k), val |-> Table(k, new)]
  BY AllocationRecords
<1>2. q \in Nat
  BY TableNumbers
<1>3. new \in [Ino -> InodeValue] /\ \A j \in Ino : new[j] = IF j = i THEN FileInode(b) ELSE Inode(d, j)
  BY InodeType DEF NewTable, InodeValue
<1>4. d \in [Lba -> Value]
  BY DEF Shape
<1> HIDE DEF q, n, t, e, new
<1>5. n = q + 3
  BY DEF n
<1>6. ASSUME NEW k \in 1..n
      PROVE  k = 1 \/ k = 2 \/ \E m \in TableBlocks : k = m + 3
  <2>1. k = 1 \/ k = 2 \/ k - 3 \in 0..q
    BY <1>2, <1>5
  <2>2. CASE k - 3 \in 0..q
    <3>1. k - 3 \in TableBlocks
      BY <2>2, TableNumbers DEF q
    <3>2. k = (k - 3) + 3
      BY <1>2, <1>5
    <3> QED
      BY <3>1, <3>2
  <2> QED
    BY <2>1, <2>2
<1>7. /\ t[1].lba = InodeBitmap /\ t[2].lba = BlockBitmap
      /\ \A k \in TableBlocks : t[k + 3].lba = InodeTable(k)
      /\ t[1].val = [bits |-> Marked(d) \cup {i}] /\ t[2].val = [bits |-> MarkedBlk(d) \cup {b}]
  <2>1. t[1].lba = InodeBitmap /\ t[1].val = [bits |-> Marked(d) \cup {i}]
    <3>1. t[1] = [lba |-> InodeBitmap, val |-> [bits |-> Marked(d) \cup {i}]]
      BY <1>1
    <3> QED
      BY <3>1
  <2>2. t[2].lba = BlockBitmap /\ t[2].val = [bits |-> MarkedBlk(d) \cup {b}]
    <3>1. t[2] = [lba |-> BlockBitmap, val |-> [bits |-> MarkedBlk(d) \cup {b}]]
      BY <1>1
    <3> QED
      BY <3>1
  <2>3. ASSUME NEW k \in TableBlocks PROVE t[k + 3].lba = InodeTable(k)
    <3>1. t[k + 3] = [lba |-> InodeTable(k), val |-> Table(k, new)]
      BY <1>1
    <3> QED
      BY <3>1
  <2> QED
    BY <2>1, <2>2, <2>3
<1>8. ASSUME NEW x \in 1..n, NEW y \in 1..n, t[x].lba = t[y].lba
      PROVE  x = y
  <2>1. CASE x \in {1, 2} /\ y \in {1, 2}
    BY <1>7, <1>8, <2>1, Addresses
  <2>2. CASE x \in {1, 2} /\ \E m \in TableBlocks : y = m + 3
    BY <1>7, <1>8, <2>2, Addresses
  <2>3. CASE y \in {1, 2} /\ \E m \in TableBlocks : x = m + 3
    BY <1>7, <1>8, <2>3, Addresses
  <2>4. CASE (\E m \in TableBlocks : x = m + 3) /\ (\E m \in TableBlocks : y = m + 3)
    <3>1. PICK m \in TableBlocks : x = m + 3
      BY <2>4
    <3>2. PICK k \in TableBlocks : y = k + 3
      BY <2>4
    <3>3. InodeTable(m) = InodeTable(k)
      BY <1>7, <1>8, <3>1, <3>2
    <3>4. m = k
      BY <3>3, Addresses
    <3> QED
      BY <3>1, <3>2, <3>4
  <2> QED
    BY <1>6, <2>1, <2>2, <2>3, <2>4
<1>9. t \in P!Tx
  BY <1>1, <1>8, P!TxIntro, JournalFits
<1>10. Len(t) = n
  <2>1. n \in Nat
    BY <1>2, <1>5
  <2> QED
    BY <1>1, <2>1
<1>11. /\ \A k \in 1..n : e[t[k].lba] = t[k].val
       /\ \A l \in Lba : e[l] # d[l] => \E k \in 1..n : t[k].lba = l
  BY <1>4, <1>9, <1>10, P!OverlayAt, JournalFits DEF e
<1>12. e \in [Lba -> Value]
  BY <1>4, <1>9, P!OverlayType, JournalFits DEF e
<1>13. {1, 2} \subseteq 1..n /\ \A k \in TableBlocks : k + 3 \in 1..n
  <2>1. \A k \in TableBlocks : k \in 0..q
    BY TableNumbers DEF q
  <2> QED
    BY <1>2, <1>5, <2>1
<1>14. /\ e[InodeBitmap] = [bits |-> Marked(d) \cup {i}]
       /\ e[BlockBitmap] = [bits |-> MarkedBlk(d) \cup {b}]
  <2>1. e[t[1].lba] = t[1].val /\ e[t[2].lba] = t[2].val
    BY <1>11, <1>13
  <2> QED
    BY <1>7, <2>1
<1>15. \A k \in TableBlocks : e[InodeTable(k)] = Table(k, new)
  <2> TAKE k \in TableBlocks
  <2>1. k + 3 \in 1..n /\ t[k + 3] = [lba |-> InodeTable(k), val |-> Table(k, new)]
    BY <1>1, <1>13
  <2>2. t[k + 3].lba = InodeTable(k) /\ t[k + 3].val = Table(k, new)
    BY <2>1
  <2> QED
    BY <1>11, <2>1, <2>2
<1>16. \A k \in 1..n : t[k].lba # RootDir /\ \A x \in Blk : t[k].lba # DataBlock(x)
  <2> TAKE k \in 1..n
  <2>1. CASE k \in {1, 2}
    BY <1>7, <2>1, Addresses
  <2>2. CASE \E m \in TableBlocks : k = m + 3
    BY <1>7, <2>2, Addresses
  <2> QED
    BY <1>6, <2>1, <2>2
<1>17. e[RootDir] = d[RootDir] /\ \A x \in Blk : e[DataBlock(x)] = d[DataBlock(x)]
  BY <1>11, <1>16, Addresses
<1>18. \A k \in TableBlocks : e[InodeTable(k)] \in [inodes : [InodesOf(k) -> InodeValue]]
  BY <1>3, <1>15, TableType
<1>19. e[InodeBitmap] \in [bits : SUBSET Nat] /\ e[BlockBitmap] \in [bits : SUBSET Nat]
  <2>1. i \in Nat /\ b \in Nat
    BY DEF Ino, Blk
  <2>2. Marked(d) \cup {i} \in SUBSET Nat /\ MarkedBlk(d) \cup {b} \in SUBSET Nat
    BY <2>1 DEF Shape, Marked, MarkedBlk
  <2> QED
    BY <1>14, <2>2
<1>20. e[RootDir] \in [dir : [Dirent -> DirentValue]]
  BY <1>17 DEF Shape
<1>21. Shape(e)
  BY <1>12, <1>18, <1>19, <1>20 DEF Shape
<1>22. \A j \in Ino : Inode(e, j) = IF j = i THEN FileInode(b) ELSE Inode(d, j)
  <2> TAKE j \in Ino
  <2>1. TableBlock(j) \in TableBlocks /\ j \in InodesOf(TableBlock(j))
    BY TableNumbers DEF InodesOf
  <2>2. Table(TableBlock(j), new).inodes[j] = new[j]
    BY <1>3, <2>1, TableType
  <2>3. Inode(e, j) = new[j]
    BY <1>15, <2>1, <2>2 DEF Inode
  <2> QED
    BY <1>3, <2>3
<1>23. Marked(e) = Marked(d) \cup {i} /\ MarkedBlk(e) = MarkedBlk(d) \cup {b}
  BY <1>14 DEF Marked, MarkedBlk
<1>24. Allocates(d, e, i, b)
  BY <1>17, <1>21, <1>22, <1>23 DEF Allocates
<1> QED
  BY <1>9, <1>24 DEF t, e

(* So is the second one. *)
LEMMA Entered ==
  ASSUME NEW d, Shape(d), NEW i \in Ino, NEW b \in Blk, NEW s \in Dirent,
         NEW n \in Names, NEW v \in Contents
  PROVE  /\ Entering(d, i, b, s, n, v) \in P!Tx
         /\ Enters(d, P!Overlay(d, Entering(d, i, b, s, n, v)), i, b, s, n, v)
<1> DEFINE entry == [name |-> n, ino |-> i]
           dir == [Dir(d) EXCEPT ![s] = entry]
           t == Entering(d, i, b, s, n, v)
           e == P!Overlay(d, t)
           rb == [d[RootDir] EXCEPT !.dir[s] = entry]
<1>1. d \in [Lba -> Value] /\ d[RootDir] \in [dir : [Dirent -> DirentValue]]
  BY DEF Shape
<1>2. Dir(d) \in [Dirent -> DirentValue] /\ d[RootDir] = [dir |-> Dir(d)]
  BY <1>1 DEF Dir
<1>3. entry \in DirentValue
  BY DEF DirentValue
<1> HIDE DEF entry
<1>4. dir \in [Dirent -> DirentValue]
  BY <1>2, <1>3
<1>5. rb = [dir |-> dir]
  BY <1>2 DEF Dir
<1>6. t = <<[lba |-> RootDir, val |-> rb], [lba |-> DataBlock(b), val |-> [bytes |-> v]]>>
  BY DEF Entering, entry
<1> HIDE DEF dir, t, e, rb
<1>7. rb \in Value
  <2>1. rb \in [dir : [Dirent -> DirentValue]]
    BY <1>4, <1>5
  <2> QED
    BY <2>1, Storable, Zenon
<1>8. [bytes |-> v] \in Value
  <2>1. [bytes |-> v] \in [bytes : Contents \cup {Zero}]
    OBVIOUS
  <2> QED
    BY <2>1, Storable, Zenon
<1>9. t \in [1..2 -> P!Record] /\ t[1].lba = RootDir /\ t[1].val = rb
      /\ t[2].lba = DataBlock(b) /\ t[2].val = [bytes |-> v]
  BY <1>6, <1>7, <1>8, Addresses DEF P!Record
<1>10. 2 \in 1..MaxRecords
  BY TableNumbers, FsAssumption DEF TableBlock
<1>11. t \in P!Tx
  <2>1. \A x, y \in 1..2 : t[x].lba = t[y].lba => x = y
    BY <1>9, Addresses
  <2> QED
    BY <1>9, <1>10, <2>1, P!TxIntro, JournalFits
<1>12. Len(t) = 2
  BY <1>6
<1>13. /\ \A k \in 1..2 : e[t[k].lba] = t[k].val
       /\ \A l \in Lba : e[l] # d[l] => \E k \in 1..2 : t[k].lba = l
  <2>1. /\ \A k \in 1..Len(t) : e[t[k].lba] = t[k].val
        /\ \A l \in Lba : e[l] # d[l] => \E k \in 1..Len(t) : t[k].lba = l
    BY <1>1, <1>11, P!OverlayAt, JournalFits DEF e
  <2> QED
    BY <1>12, <2>1
<1>14. e \in [Lba -> Value]
  BY <1>1, <1>11, P!OverlayType, JournalFits DEF e
<1>15. e[RootDir] = [dir |-> dir] /\ e[DataBlock(b)] = [bytes |-> v]
  BY <1>5, <1>9, <1>13
<1>16. \A l \in Lba : l # RootDir /\ l # DataBlock(b) => e[l] = d[l]
  BY <1>9, <1>13
<1>17. /\ e[InodeBitmap] = d[InodeBitmap] /\ e[BlockBitmap] = d[BlockBitmap]
       /\ \A k \in TableBlocks : e[InodeTable(k)] = d[InodeTable(k)]
       /\ \A x \in Blk : x # b => e[DataBlock(x)] = d[DataBlock(x)]
  BY <1>16, Addresses
<1>18. Shape(e)
  <2>1. e[RootDir] \in [dir : [Dirent -> DirentValue]]
    BY <1>4, <1>15
  <2>2. \A k \in TableBlocks : e[InodeTable(k)] \in [inodes : [InodesOf(k) -> InodeValue]]
    BY <1>17 DEF Shape
  <2>3. e[InodeBitmap] \in [bits : SUBSET Nat] /\ e[BlockBitmap] \in [bits : SUBSET Nat]
    BY <1>17 DEF Shape
  <2> QED
    BY <1>14, <2>1, <2>2, <2>3 DEF Shape
<1>19. Marked(e) = Marked(d) /\ MarkedBlk(e) = MarkedBlk(d) /\ Dir(e) = dir
  BY <1>15, <1>17 DEF Marked, MarkedBlk, Dir
<1>20. \A j \in Ino : Inode(e, j) = Inode(d, j)
  BY <1>17, TableNumbers DEF Inode
<1>21. \A x \in Blk : Bytes(e, x) = IF x = b THEN v ELSE Bytes(d, x)
  BY <1>15, <1>17 DEF Bytes
<1>22. Enters(d, e, i, b, s, n, v)
  BY <1>18, <1>19, <1>20, <1>21 DEF Enters, dir, entry
<1> QED
  BY <1>11, <1>22 DEF t, e

-----------------------------------------------------------------------------
(* What the transactions do to the files. *)

(* Files and free slots. *)
LEMMA Slots ==
  ASSUME NEW d, Shape(d)
  PROVE  /\ Files(d) \subseteq Dirent /\ FreeDirents(d) = Dirent \ Files(d)
         /\ \A s \in Files(d) : Dir(d)[s].name \in Names
         /\ \A n \in Names : Entries(d, n) = {s \in Files(d) : Dir(d)[s].name = n}
<1>1. Dir(d) \in [Dirent -> DirentValue]
  BY DEF Shape, Dir
<1>2. \A s \in Dirent : Dir(d)[s].name \in Names \cup {NoName}
  BY <1>1 DEF DirentValue
<1>3. NoName \notin Names
  BY FsAssumption
<1> QED
  BY <1>2, <1>3 DEF Files, FreeDirents, Entries, Dir

(* Marking an inode and a block that were free hurts no file. *)
LEMMA AllocationKeeps ==
  ASSUME NEW d, NEW e, NEW form, NEW att, NEW pro, FsInv(d, form, att, pro),
         NEW i \in Ino, NEW b \in Blk, NEW s \in Dirent, NEW n \in Names,
         Picked(d, i, b, s, n), Allocates(d, e, i, b)
  PROVE  /\ FsInv(e, form, att, pro)
         /\ Taken(e, i, b, s, n)
<1>1. /\ Dir(e) = Dir(d) /\ Files(e) = Files(d) /\ FreeDirents(e) = FreeDirents(d)
      /\ \A m : Entries(e, m) = Entries(d, m)
  BY DEF Allocates, Dir, Files, FreeDirents, Entries
<1>3. /\ i \in Ino \ {0} /\ i \notin Marked(d) /\ b \notin MarkedBlk(d)
  BY DEF Picked, FreeInodes, FreeBlocks, Marked, MarkedBlk
<1>4. ASSUME NEW t \in Files(d)
      PROVE  /\ Dir(d)[t].ino \in Ino \ {0} /\ Dir(d)[t].ino # i
             /\ Inode(e, Dir(d)[t].ino) = Inode(d, Dir(d)[t].ino)
             /\ BlockOf(d, t) # b /\ BlockOf(e, t) = BlockOf(d, t)
             /\ Sound(e, t, att)
  <2>1. Sound(d, t, att)
    BY <1>4 DEF FsInv
  <2>2. Dir(d)[t].ino \in Ino \ {0} /\ Dir(d)[t].ino # i
    BY <1>3, <2>1 DEF Sound
  <2>3. Inode(e, Dir(d)[t].ino) = Inode(d, Dir(d)[t].ino)
    BY <2>2 DEF Allocates
  <2>4. BlockOf(d, t) = Inode(d, Dir(d)[t].ino).blk /\ BlockOf(e, t) = Inode(e, Dir(d)[t].ino).blk
    BY <1>1 DEF BlockOf, Dir
  <2>5. BlockOf(d, t) # b
    BY <1>3, <2>1, <2>4 DEF Sound
  <2>6. \A x \in Blk : Bytes(e, x) = Bytes(d, x)
    BY DEF Allocates, Bytes
  <2>7. Sound(e, t, att)
    BY <1>1, <2>1, <2>3, <2>6 DEF Sound, Allocates
  <2> QED
    BY <2>2, <2>3, <2>4, <2>5, <2>7
<1>5. \A x, y \in Files(e) : x # y => Apart(e, x, y)
  <2> SUFFICES ASSUME NEW x \in Files(d), NEW y \in Files(d), x # y PROVE Apart(e, x, y)
    BY <1>1
  <2>1. Apart(d, x, y)
    BY DEF FsInv
  <2>2. BlockOf(e, x) = BlockOf(d, x) /\ BlockOf(e, y) = BlockOf(d, y)
    BY <1>4
  <2> QED
    BY <1>1, <2>1, <2>2 DEF Apart
<1>6. form => Rooted(e)
  <2>1. 0 \in Ino /\ i # 0
    BY <1>3, FsAssumption DEF Ino
  <2> QED
    BY <2>1 DEF FsInv, Rooted, Allocates
<1>7. FsInv(e, form, att, pro)
  <2>1. \A x \in Files(e) : Sound(e, x, att)
    BY <1>1, <1>4
  <2>2. Shape(e)
    BY DEF Allocates
  <2>3. \A m \in Names : pro[m] # Zero => pro[m] = att[m] /\ Entries(e, m) # {}
    BY <1>1 DEF FsInv
  <2> QED
    BY <1>5, <1>6, <2>1, <2>2, <2>3 DEF FsInv
<1>8. Taken(e, i, b, s, n)
  <2>1. i \in Marked(e) /\ b \in MarkedBlk(e) /\ Inode(e, i) = FileInode(b)
    BY DEF Allocates
  <2>2. s \in FreeDirents(e) /\ Entries(e, n) = {}
    BY <1>1 DEF Picked
  <2>3. \A t \in Files(e) : Dir(e)[t].ino # i /\ BlockOf(e, t) # b
    BY <1>1, <1>4
  <2> QED
    BY <1>3, <2>1, <2>2, <2>3 DEF Taken
<1> QED
  BY <1>7, <1>8

(* The entry makes a file of the inode and the block that were taken. *)
LEMMA EntryKeeps ==
  ASSUME NEW d, NEW e, NEW form, NEW att, NEW pro, FsInv(d, form, att, pro),
         NEW i \in Ino, NEW b \in Blk, NEW s \in Dirent, NEW n \in Names, NEW v,
         Taken(d, i, b, s, n), Enters(d, e, i, b, s, n, v), att[n] = v
  PROVE  FsInv(e, form, att, pro) /\ Entries(e, n) # {}
<1>1. Dir(d) \in [Dirent -> DirentValue] /\ Shape(d) /\ Shape(e)
  BY DEF FsInv, Shape, Dir, Enters
<1>2. /\ Dir(e)[s].name = n /\ Dir(e)[s].ino = i
      /\ \A t \in Dirent : t # s => Dir(e)[t] = Dir(d)[t]
  BY <1>1 DEF Enters
<1>3. NoName # n /\ s \notin Files(d)
  BY <1>1, FsAssumption, Slots DEF Taken
<1>4. Files(e) = Files(d) \cup {s}
  BY <1>1, <1>2, <1>3 DEF Files, Dir
<1>5. /\ i \in Ino \ {0} /\ i \in Marked(d) /\ b \in Blk /\ b \in MarkedBlk(d)
      /\ Inode(d, i) = FileInode(b)
      /\ Entries(d, n) = {}
      /\ \A t \in Files(d) : Dir(d)[t].ino # i /\ BlockOf(d, t) # b
  BY DEF Taken
<1>6. ASSUME NEW t \in Files(d)
      PROVE  /\ t \in Dirent /\ t # s
             /\ BlockOf(e, t) = BlockOf(d, t)
             /\ Dir(d)[t].name # n
             /\ Sound(e, t, att)
  <2>1. Sound(d, t, att)
    BY <1>6 DEF FsInv
  <2>2. t \in Dirent /\ t # s /\ Dir(e)[t] = Dir(d)[t]
    BY <1>2, <1>3 DEF Files
  <2>3. Dir(d)[t].ino \in Ino
    BY <2>1 DEF Sound
  <2>4. Inode(e, Dir(d)[t].ino) = Inode(d, Dir(d)[t].ino)
    BY <2>3 DEF Enters
  <2>5. BlockOf(d, t) = Inode(d, Dir(d)[t].ino).blk /\ BlockOf(e, t) = Inode(e, Dir(d)[t].ino).blk
    BY <2>2 DEF BlockOf, Dir
  <2>6. Dir(d)[t].name # n
    BY <1>5, <2>2 DEF Entries, Dir
  <2>7. BlockOf(d, t) \in Blk /\ BlockOf(d, t) # b
    BY <1>5, <2>1, <2>5 DEF Sound
  <2>8. Bytes(e, BlockOf(d, t)) = Bytes(d, BlockOf(d, t))
    BY <2>7 DEF Enters
  <2>9. Sound(e, t, att)
    BY <2>1, <2>2, <2>4, <2>5, <2>8 DEF Sound, Enters
  <2> QED
    BY <2>2, <2>4, <2>5, <2>6, <2>9
<1>7. Inode(e, i) = FileInode(b) /\ BlockOf(e, s) = b
  <2>1. Inode(e, i) = FileInode(b)
    BY <1>5 DEF Enters
  <2> QED
    BY <1>2, <2>1 DEF BlockOf, Dir, FileInode
<1>8. Sound(e, s, att)
  <2>1. Bytes(e, b) = v
    BY DEF Enters
  <2> QED
    BY <1>2, <1>5, <1>7, <2>1 DEF Sound, Enters, FileInode
<1>9. \A x, y \in Files(e) : x # y => Apart(e, x, y)
  <2>1. ASSUME NEW x \in Files(d), NEW y \in Files(d), x # y PROVE Apart(e, x, y)
    <3>1. Apart(d, x, y)
      BY <2>1 DEF FsInv
    <3>2. BlockOf(e, x) = BlockOf(d, x) /\ BlockOf(e, y) = BlockOf(d, y)
          /\ x \in Dirent /\ y \in Dirent /\ x # s /\ y # s
      BY <1>6
    <3> QED
      BY <1>2, <3>1, <3>2 DEF Apart
  <2>2. ASSUME NEW x \in Files(d) PROVE Apart(e, x, s) /\ Apart(e, s, x)
    <3>1. BlockOf(e, x) = BlockOf(d, x) /\ x \in Dirent /\ x # s /\ Dir(d)[x].name # n
      BY <1>6
    <3>2. Dir(d)[x].ino # i /\ BlockOf(d, x) # b
      BY <1>5
    <3> QED
      BY <1>2, <1>7, <3>1, <3>2 DEF Apart
  <2> QED
    BY <1>4, <2>1, <2>2
<1>10. form => Rooted(e)
  <2>1. 0 \in Ino
    BY FsAssumption DEF Ino
  <2> QED
    BY <2>1 DEF FsInv, Rooted, Enters
<1>11. Entries(e, n) # {}
  BY <1>2 DEF Entries, Dir
<1>12. \A m \in Names : pro[m] # Zero => pro[m] = att[m] /\ Entries(e, m) # {}
  <2> SUFFICES ASSUME NEW m \in Names, pro[m] # Zero PROVE pro[m] = att[m] /\ Entries(e, m) # {}
    OBVIOUS
  <2>1. pro[m] = att[m] /\ Entries(d, m) # {}
    BY DEF FsInv
  <2>2. PICK t \in Dirent : Dir(d)[t].name = m
    BY <2>1 DEF Entries, Dir
  <2>3. t # s
    BY <1>1, <1>3, <2>2, FsAssumption DEF Files, Dir
  <2>4. Dir(e)[t].name = m
    BY <1>2, <2>2, <2>3
  <2> QED
    BY <2>1, <2>4 DEF Entries, Dir
<1>13. FsInv(e, form, att, pro)
  <2>1. \A x \in Files(e) : Sound(e, x, att)
    BY <1>4, <1>6, <1>8
  <2> QED
    BY <1>1, <1>9, <1>10, <1>12, <2>1 DEF FsInv
<1> QED
  BY <1>11, <1>13

(* A write that begins is recorded under a name no file has. *)
LEMMA AttemptKeeps ==
  ASSUME NEW d, NEW form, NEW att, NEW pro, FsInv(d, form, att, pro),
         NEW n \in Names, NEW v, Entries(d, n) = {}, DOMAIN att = Names
  PROVE  FsInv(d, form, [att EXCEPT ![n] = v], pro)
<1> DEFINE new == [att EXCEPT ![n] = v]
<1>1. \A m \in Names : m # n => new[m] = att[m]
  OBVIOUS
<1> HIDE DEF new
<1>2. Shape(d)
  BY DEF FsInv
<1>3. \A s \in Files(d) : Dir(d)[s].name \in Names /\ Dir(d)[s].name # n
  BY <1>2, Slots
<1>4. \A s \in Files(d) : Sound(d, s, new)
  BY <1>1, <1>3 DEF FsInv, Sound
<1>5. \A m \in Names : pro[m] # Zero => pro[m] = new[m] /\ Entries(d, m) # {}
  BY <1>1 DEF FsInv
<1>6. FsInv(d, form, new, pro)
  BY <1>2, <1>4, <1>5 DEF FsInv
<1> QED
  BY <1>6 DEF new

-----------------------------------------------------------------------------
(* Every step keeps the invariant. *)

(* A device just formatted. *)
LEMMA InitInv == Init => Inv
<1> SUFFICES ASSUME Init PROVE Inv
  OBVIOUS
<1>0. Shape(FormattedDevice) /\ Files(FormattedDevice) = {} /\ Rooted(FormattedDevice)
  BY FreshDevices
<1>1. P!JInv
  <2>1. home \in [Lba -> Value]
    BY <1>0 DEF Init, Shape
  <2>2. P!Init
    BY <2>1, SameDevice DEF Init, P!Init, P!Slot, P!NoTx
  <2> QED
    BY <2>2, P!InitInv, JournalFits
<1>2. Effective = FormattedDevice
  BY DEF Init, Effective, J!Effective, J!EmptyHeader
<1>3. GhostTypes /\ ControlInv /\ step = "idle"
  BY DEF Init, GhostTypes, ControlInv
<1>4. \A n \in Names : promised[n] = Zero
  BY DEF Init
<1>5. FsInv(Effective, formatted, attempted, promised)
  BY <1>0, <1>2, <1>4 DEF FsInv
<1> QED
  BY <1>1, <1>3, <1>5 DEF Inv

(* Steps that leave what is shown and the ghosts alone, outside a commit. *)
LEMMA Settles ==
  ASSUME Inv, P!JInv', Effective' = Effective, UNCHANGED ghosts,
         step' = "idle" /\ pc' \in {"idle", "mounted"}
  PROVE  Inv'
<1>1. GhostTypes' /\ ControlInv'
  BY DEF Inv, GhostTypes, ghosts, ControlInv
<1>2. FsInv(Effective, formatted, attempted, promised)'
  BY DEF Inv, ghosts
<1> QED
  BY <1>1, <1>2 DEF Inv

(* A call begins, and recovers. *)
LEMMA CallKeeps ==
  ASSUME Inv, NEW c, Call(c), c.op \in {"read", "fsck", "write"},
         c.op = "write" => c.name \in Names /\ c.val \in Contents
  PROVE  Inv'
<1>1. P!JInv' /\ Effective' = Effective /\ pc' \in Recovery \cup {"idle", "mounted"}
  BY Recovers DEF Inv, Call
<1>2. GhostTypes' /\ ControlInv' /\ step' = "mount"
  BY <1>1 DEF Inv, GhostTypes, ghosts, ControlInv, Call
<1>3. FsInv(Effective, formatted, attempted, promised)'
  BY <1>1 DEF Inv, ghosts, Call
<1> QED
  BY <1>1, <1>2, <1>3 DEF Inv

(* m16_journal_recover inside a call. *)
LEMMA RecoveringKeeps == ASSUME Inv, Recovering PROVE Inv'
<1>1. P!JInv' /\ Effective' = Effective /\ pc' \in Recovery \cup {"idle", "mounted"}
  BY Recovers DEF Inv, Recovering
<1>2. GhostTypes' /\ ControlInv' /\ step' = "mount"
  BY <1>1 DEF Inv, GhostTypes, ghosts, ControlInv, Recovering
<1>3. FsInv(Effective, formatted, attempted, promised)'
  BY <1>1 DEF Inv, ghosts, Recovering
<1> QED
  BY <1>1, <1>2, <1>3 DEF Inv

(* Calls that return without a transaction. *)
LEMMA ReturnKeeps ==
  ASSUME Inv, MountFails \/ RefuseWrite \/ ReadReturns \/ FsckReturns
  PROVE  Inv'
<1>1. /\ UNCHANGED journal /\ UNCHANGED ghosts
      /\ step = "mount" /\ step' = "idle" /\ pc \in {"idle", "mounted"}
  BY DEF MountFails, RefuseWrite, ReadReturns, FsckReturns, Finish, MountDone
<1>2. P!JInv' /\ Effective' = Effective
  BY <1>1, Rests DEF Inv
<1>3. pc' \in {"idle", "mounted"}
  BY <1>1 DEF journal
<1> QED
  BY <1>1, <1>2, <1>3, Settles

(* m16_write_file_ex picks its inode, block and slot and begins the first  *)
(* transaction.                                                            *)
LEMMA PrepareKeeps == ASSUME Inv, PrepareWrite PROVE Inv'
<1> DEFINE i == Least(FreeInodes(home))
           b == Least(FreeBlocks(home))
           s == Least(FreeDirents(home))
<1>1. P!JInv /\ pc = "mounted" /\ step = "mount" /\ call.name \in Names /\ call.val \in Contents
  BY DEF Inv, PrepareWrite, MountDone, ControlInv
<1>2. Effective = home
  BY <1>1, MountedShows
<1>3. FsInv(home, formatted, attempted, promised) /\ Shape(home)
  BY <1>2 DEF Inv, FsInv
<1>4. i \in FreeInodes(home) /\ b \in FreeBlocks(home) /\ s \in FreeDirents(home)
  <2>1. FreeInodes(home) \subseteq Nat /\ FreeBlocks(home) \subseteq Nat
        /\ FreeDirents(home) \subseteq Nat
    BY FsAssumption DEF FreeInodes, FreeBlocks, FreeDirents, Ino, Blk, Dirent, Entries
  <2> QED
    BY <2>1, LeastIs DEF PrepareWrite
<1>5. i \in Ino /\ b \in Blk /\ s \in Dirent
  BY <1>4 DEF FreeInodes, FreeBlocks, FreeDirents, Entries
<1>6. Picked(home, i, b, s, call.name)
  BY <1>4 DEF Picked, PrepareWrite
<1>7. MetadataTx(i, b) = Allocation(home, i, b)
  BY DEF MetadataTx, TableRecords, Allocation, NewTable, Marked, MarkedBlk
<1>8. FileTx(i, b, s) = Entering(home, i, b, s, call.name, call.val)
  BY DEF FileTx, Entering
<1>9. /\ J!Begin(MetadataTx(i, b))
      /\ call' = [name |-> call.name, val |-> call.val, stop |-> call.stop,
                  tx2 |-> FileTx(i, b, s)]
      /\ step' = "tx1" /\ attempted' = [attempted EXCEPT ![call.name] = call.val]
      /\ formatted' = formatted /\ promised' = promised
  BY DEF PrepareWrite
<1> HIDE DEF i, b, s
<1>10. Allocation(home, i, b) \in P!Tx
  BY <1>3, <1>5, Allocated
<1>11. /\ P!JInv' /\ Effective' = home /\ pc' = "c_clear"
       /\ tx' = Allocation(home, i, b)
  BY <1>1, <1>2, <1>7, <1>9, <1>10, Begins
<1>12. call'.name = call.name /\ call'.val = call.val
       /\ call'.tx2 = Entering(home, i, b, s, call.name, call.val)
  BY <1>8, <1>9
<1>13. GhostTypes' /\ ControlInv'
  <2>1. attempted \in [Names -> Contents \cup {Zero}]
    BY DEF Inv, GhostTypes
  <2>2. attempted' \in [Names -> Contents \cup {Zero}] /\ attempted'[call.name] = call.val
    BY <1>1, <1>9, <2>1
  <2>3. GhostTypes'
    BY <1>9, <2>2 DEF Inv, GhostTypes
  <2> QED
    BY <1>1, <1>9, <1>11, <1>12, <2>2, <2>3 DEF ControlInv, Uncommitted
<1>14. FsInv(Effective', formatted', attempted', promised')
  <2>1. Entries(home, call.name) = {} /\ DOMAIN attempted = Names
    BY DEF PrepareWrite, Inv, GhostTypes
  <2>2. FsInv(home, formatted, [attempted EXCEPT ![call.name] = call.val], promised)
    BY <1>1, <1>3, <2>1, AttemptKeeps
  <2> QED
    BY <1>9, <1>11, <2>2
<1>15. FirstInv'
  <2>1. /\ Picked(Effective', i, b, s, call'.name)
        /\ tx' = Allocation(Effective', i, b)
        /\ call'.tx2 = Entering(Effective', i, b, s, call'.name, call'.val)
    BY <1>6, <1>11, <1>12
  <2>2. pc' \notin Committed /\ pc' # "idle"
    BY <1>11 DEF Committed
  <2> QED
    BY <1>5, <2>1, <2>2 DEF FirstInv
<1> QED
  BY <1>9, <1>11, <1>13, <1>14, <1>15 DEF Inv

(* The block writes of the first transaction. *)
LEMMA FirstKeeps == ASSUME Inv, Committing, step = "tx1" PROVE Inv'
<1>1. P!JInv /\ FirstInv /\ step' = "tx1" /\ call' = call /\ UNCHANGED ghosts
  BY DEF Inv, Committing
<1>2. GhostTypes'
  BY <1>1 DEF Inv, GhostTypes, ghosts
<1>3. call.name \in Names /\ call.val \in Contents /\ attempted[call.name] = call.val
  BY DEF Inv, ControlInv
<1>4. UNCHANGED <<formatted, attempted, promised>>
  BY <1>1 DEF ghosts
<1>5. FsInv(Effective, formatted, attempted, promised)
  BY DEF Inv
<1>6. ASSUME pc' \in Uncommitted \cup Committed \cup {"idle"} PROVE ControlInv'
  BY <1>1, <1>3, <1>4, <1>6 DEF ControlInv
<1>7. CASE J!ClearHeader \/ J!WriteDesc \/ J!WriteData
  <2>1. /\ P!JInv' /\ Effective' = Effective
        /\ pc \in Uncommitted /\ pc' \in Uncommitted /\ tx' = tx /\ rc' = rc
    BY <1>1, <1>7, Logs
  <2>2. FirstInv'
    <3>1. pc' \notin Committed /\ pc' # "idle"
      BY <2>1 DEF Uncommitted, Committed
    <3>2. PICK i \in Ino, b \in Blk, s \in Dirent :
            /\ Picked(Effective, i, b, s, call.name)
            /\ tx = Allocation(Effective, i, b)
            /\ call.tx2 = Entering(Effective, i, b, s, call.name, call.val)
      BY <1>1, <2>1 DEF FirstInv
    <3>3. /\ Picked(Effective', i, b, s, call'.name)
          /\ tx' = Allocation(Effective', i, b)
          /\ call'.tx2 = Entering(Effective', i, b, s, call'.name, call'.val)
      BY <1>1, <2>1, <3>2
    <3> QED
      BY <3>1, <3>3 DEF FirstInv
  <2>3. FsInv(Effective', formatted', attempted', promised')
    BY <1>4, <1>5, <2>1
  <2> QED
    BY <1>1, <1>2, <1>6, <2>1, <2>2, <2>3 DEF Inv
<1>8. CASE J!WriteHeader
  <2>1. /\ P!JInv' /\ Effective' = P!Overlay(Effective, tx)
        /\ pc = "c_head" /\ pc' = "c_home" /\ rc' = rc
    BY <1>1, <1>8, Commits
  <2>2. PICK i \in Ino, b \in Blk, s \in Dirent :
          /\ Picked(Effective, i, b, s, call.name)
          /\ tx = Allocation(Effective, i, b)
          /\ call.tx2 = Entering(Effective, i, b, s, call.name, call.val)
    BY <1>1, <2>1 DEF FirstInv, Uncommitted
  <2>3. Allocates(Effective, Effective', i, b)
    BY <1>5, <2>1, <2>2, Allocated DEF FsInv
  <2>4. /\ FsInv(Effective', formatted, attempted, promised)
        /\ Taken(Effective', i, b, s, call.name)
        /\ Entering(Effective', i, b, s, call.name, call.val)
             = Entering(Effective, i, b, s, call.name, call.val)
    <3> DEFINE d == Effective
               e == Effective'
               n == call.name
               v == call.val
    <3>1. /\ FsInv(d, formatted, attempted, promised) /\ n \in Names
          /\ Picked(d, i, b, s, n) /\ Allocates(d, e, i, b)
      BY <1>3, <1>5, <2>2, <2>3
    <3> HIDE DEF d, e, n, v
    <3>2. FsInv(e, formatted, attempted, promised) /\ Taken(e, i, b, s, n)
      BY <3>1, AllocationKeeps
    <3>3. Entering(e, i, b, s, n, v) = Entering(d, i, b, s, n, v)
      BY <3>1 DEF Allocates, Entering
    <3> QED
      BY <3>2, <3>3 DEF d, e, n, v
  <2>5. FirstInv'
    <3>1. pc' \notin Uncommitted /\ pc' # "idle"
      BY <2>1 DEF Uncommitted
    <3>2. /\ Taken(Effective', i, b, s, call'.name)
          /\ call'.tx2 = Entering(Effective', i, b, s, call'.name, call'.val)
      BY <1>1, <2>2, <2>4
    <3> QED
      BY <3>1, <3>2 DEF FirstInv
  <2>6. FsInv(Effective', formatted', attempted', promised')
    BY <1>4, <2>4
  <2>7. ControlInv'
    BY <1>6, <2>1 DEF Committed
  <2> QED
    BY <1>1, <1>2, <2>1, <2>5, <2>6, <2>7 DEF Inv
<1>9. CASE J!WriteHome \/ J!ClearAfterCommit
  <2>1. /\ P!JInv' /\ Effective' = Effective /\ pc \in Committed /\ pc' \in Committed
    <3>1. pc' # "idle"
      BY <1>9 DEF J!WriteHome, J!ClearAfterCommit, J!Return
    <3> QED
      BY <1>1, <1>9, <3>1, Homes DEF Committed
  <2>2. FirstInv'
    <3>1. pc' \notin Uncommitted /\ pc' # "idle"
      BY <2>1 DEF Uncommitted, Committed
    <3>2. PICK i \in Ino, b \in Blk, s \in Dirent :
            /\ Taken(Effective, i, b, s, call.name)
            /\ call.tx2 = Entering(Effective, i, b, s, call.name, call.val)
      BY <1>1, <2>1 DEF FirstInv
    <3>3. /\ Taken(Effective', i, b, s, call'.name)
          /\ call'.tx2 = Entering(Effective', i, b, s, call'.name, call'.val)
      BY <1>1, <2>1, <3>2
    <3> QED
      BY <3>1, <3>3 DEF FirstInv
  <2>3. FsInv(Effective', formatted', attempted', promised')
    BY <1>4, <1>5, <2>1
  <2> QED
    BY <1>1, <1>2, <1>6, <2>1, <2>2, <2>3 DEF Inv
<1> QED
  BY <1>7, <1>8, <1>9 DEF Committing, Stops

(* The block writes of the second transaction. *)
LEMMA SecondKeeps == ASSUME Inv, Committing, step = "tx2" PROVE Inv'
<1>1. P!JInv /\ SecondInv /\ step' = "tx2" /\ call' = call /\ UNCHANGED ghosts
  BY DEF Inv, Committing
<1>2. GhostTypes'
  BY <1>1 DEF Inv, GhostTypes, ghosts
<1>3. call.name \in Names /\ call.val \in Contents /\ attempted[call.name] = call.val
  BY DEF Inv, ControlInv
<1>4. UNCHANGED <<formatted, attempted, promised>>
  BY <1>1 DEF ghosts
<1>5. FsInv(Effective, formatted, attempted, promised)
  BY DEF Inv
<1>6. ASSUME pc' \in Uncommitted \cup Committed \cup {"idle"} PROVE ControlInv'
  BY <1>1, <1>3, <1>4, <1>6 DEF ControlInv
<1>7. CASE J!ClearHeader \/ J!WriteDesc \/ J!WriteData
  <2>1. /\ P!JInv' /\ Effective' = Effective
        /\ pc \in Uncommitted /\ pc' \in Uncommitted /\ tx' = tx /\ rc' = rc
    BY <1>1, <1>7, Logs
  <2>2. SecondInv'
    <3>1. pc' \notin Committed /\ pc' # "idle"
      BY <2>1 DEF Uncommitted, Committed
    <3>2. rc = "none"
      BY <1>1, <2>1 DEF SecondInv
    <3>3. PICK i \in Ino, b \in Blk, s \in Dirent :
            /\ Taken(Effective, i, b, s, call.name)
            /\ tx = Entering(Effective, i, b, s, call.name, call.val)
      BY <1>1, <2>1 DEF SecondInv
    <3>4. /\ Taken(Effective', i, b, s, call'.name)
          /\ tx' = Entering(Effective', i, b, s, call'.name, call'.val)
      BY <1>1, <2>1, <3>3
    <3> QED
      BY <2>1, <3>1, <3>2, <3>4 DEF SecondInv
  <2>3. FsInv(Effective', formatted', attempted', promised')
    BY <1>4, <1>5, <2>1
  <2> QED
    BY <1>1, <1>2, <1>6, <2>1, <2>2, <2>3 DEF Inv
<1>8. CASE J!WriteHeader
  <2>1. /\ P!JInv' /\ Effective' = P!Overlay(Effective, tx)
        /\ pc = "c_head" /\ pc' = "c_home" /\ rc' = rc
    BY <1>1, <1>8, Commits
  <2>2. PICK i \in Ino, b \in Blk, s \in Dirent :
          /\ Taken(Effective, i, b, s, call.name)
          /\ tx = Entering(Effective, i, b, s, call.name, call.val)
    BY <1>1, <2>1 DEF SecondInv, Uncommitted
  <2>3. Enters(Effective, Effective', i, b, s, call.name, call.val)
    BY <1>3, <1>5, <2>1, <2>2, Entered DEF FsInv
  <2>4. FsInv(Effective', formatted, attempted, promised) /\ Entries(Effective', call.name) # {}
    BY <1>3, <1>5, <2>2, <2>3, EntryKeeps
  <2>5. SecondInv'
    <3>1. pc' \notin Uncommitted
      BY <2>1 DEF Uncommitted
    <3> QED
      BY <1>1, <2>4, <3>1 DEF SecondInv
  <2>6. FsInv(Effective', formatted', attempted', promised')
    BY <1>4, <2>4
  <2>7. ControlInv'
    BY <1>6, <2>1 DEF Committed
  <2> QED
    BY <1>1, <1>2, <2>1, <2>5, <2>6, <2>7 DEF Inv
<1>9. CASE J!WriteHome \/ J!StopAfterCommitRecord \/ J!ClearAfterCommit
  <2>1. /\ P!JInv' /\ Effective' = Effective /\ pc \in Committed
        /\ pc' \in Committed \cup {"idle"}
    BY <1>1, <1>9, Homes DEF Committed
  <2>2. SecondInv'
    <3>1. pc' \notin Uncommitted
      BY <2>1 DEF Uncommitted, Committed
    <3>2. Entries(Effective, call.name) # {}
      BY <1>1, <2>1 DEF SecondInv
    <3>3. Entries(Effective', call'.name) # {}
      BY <1>1, <2>1, <3>2
    <3> QED
      BY <3>1, <3>3 DEF SecondInv
  <2>3. FsInv(Effective', formatted', attempted', promised')
    BY <1>4, <1>5, <2>1
  <2> QED
    BY <1>1, <1>2, <1>6, <2>1, <2>2, <2>3 DEF Inv
<1> QED
  BY <1>7, <1>8, <1>9 DEF Committing, Stops

(* The second transaction was built before the first one was applied and   *)
(* still fits the device it left.                                          *)
LEMMA SecondBegins == ASSUME Inv, SecondTransaction PROVE Inv'
<1>1. P!JInv /\ FirstInv /\ pc = "mounted" /\ step' = "tx2" /\ call' = call /\ UNCHANGED ghosts
      /\ J!Begin(call.tx2)
  BY DEF Inv, SecondTransaction
<1>2. UNCHANGED <<formatted, attempted, promised>>
  BY <1>1 DEF ghosts
<1>3. call.name \in Names /\ call.val \in Contents /\ attempted[call.name] = call.val
  BY DEF Inv, ControlInv, SecondTransaction
<1>4. FsInv(Effective, formatted, attempted, promised) /\ Shape(Effective)
  BY DEF Inv, FsInv
<1>5. PICK i \in Ino, b \in Blk, s \in Dirent :
        /\ Taken(Effective, i, b, s, call.name)
        /\ call.tx2 = Entering(Effective, i, b, s, call.name, call.val)
  BY <1>1 DEF FirstInv, Committed
<1>6. call.tx2 \in P!Tx
  BY <1>3, <1>4, <1>5, Entered
<1>7. P!JInv' /\ Effective' = Effective /\ pc' = "c_clear" /\ tx' = call.tx2 /\ rc' = "none"
  BY <1>1, <1>6, Begins
<1>8. SecondInv'
  <2>1. /\ Taken(Effective', i, b, s, call'.name)
        /\ tx' = Entering(Effective', i, b, s, call'.name, call'.val)
    BY <1>1, <1>5, <1>7
  <2>2. pc' \notin Committed /\ pc' # "idle" /\ rc' = "none"
    BY <1>7 DEF Committed
  <2> QED
    BY <2>1, <2>2 DEF SecondInv
<1>9. GhostTypes'
  BY <1>2 DEF Inv, GhostTypes
<1>10. ControlInv'
  BY <1>1, <1>2, <1>3, <1>7 DEF ControlInv, Uncommitted
<1>11. FsInv(Effective', formatted', attempted', promised')
  BY <1>2, <1>4, <1>7
<1> QED
  BY <1>1, <1>7, <1>8, <1>9, <1>10, <1>11 DEF Inv

(* m16_write_file_ex promises only what the next mount shows. *)
LEMMA WriteReturnKeeps == ASSUME Inv, WriteReturns PROVE Inv'
<1>1. /\ UNCHANGED journal /\ UNCHANGED <<formatted, attempted>>
      /\ step \in {"tx1", "tx2"} /\ step' = "idle" /\ pc \in {"idle", "mounted"}
      /\ promised' = IF rc = "ok" THEN [promised EXCEPT ![call.name] = call.val] ELSE promised
  BY DEF WriteReturns, Finish
<1>2. P!JInv' /\ Effective' = Effective
  BY <1>1, Rests DEF Inv
<1>3. pc' \in {"idle", "mounted"}
  BY <1>1 DEF journal
<1>4. call.name \in Names /\ call.val \in Contents /\ attempted[call.name] = call.val
  BY <1>1 DEF Inv, ControlInv
<1>5. FsInv(Effective, formatted, attempted, promised)
      /\ promised \in [Names -> Contents \cup {Zero}]
  BY DEF Inv, GhostTypes
<1>6. promised' \in [Names -> Contents \cup {Zero}]
  BY <1>1, <1>4, <1>5
<1>7. GhostTypes' /\ ControlInv'
  BY <1>1, <1>3, <1>6 DEF Inv, GhostTypes, ControlInv
<1>8. rc = "ok" => Entries(Effective, call.name) # {}
  <2>1. CASE step = "tx1"
    BY <2>1 DEF Inv, FirstInv, WriteReturns
  <2>2. CASE step = "tx2"
    BY <1>1, <2>2 DEF Inv, SecondInv, Committed
  <2> QED
    BY <1>1, <2>1, <2>2
<1>9. \A n \in Names : promised'[n] # Zero =>
        promised'[n] = attempted[n] /\ Entries(Effective, n) # {}
  <2> TAKE n \in Names
  <2>1. promised[n] # Zero => promised[n] = attempted[n] /\ Entries(Effective, n) # {}
    BY <1>5 DEF FsInv
  <2>2. CASE rc = "ok" /\ n = call.name
    BY <1>1, <1>4, <1>5, <1>8, <2>2
  <2>3. CASE ~(rc = "ok" /\ n = call.name)
    BY <1>1, <1>5, <2>1, <2>3
  <2> QED
    BY <2>2, <2>3
<1>10. FsInv(Effective, formatted, attempted, promised')
  BY <1>5, <1>9 DEF FsInv
<1>11. FsInv(Effective', formatted', attempted', promised')
  BY <1>1, <1>2, <1>10
<1> QED
  BY <1>1, <1>2, <1>7, <1>11 DEF Inv

(* m16_format zeroes the device and writes it block by block; until its    *)
(* last write the directory is empty.                                      *)
LEMMA FormatKeeps == ASSUME Inv, CallFormat \/ FormatWrite \/ FormatReturns PROVE Inv'
<1> USE SameDevice
<1>1. CASE CallFormat
  <2>1. Shape(ZeroDevice) /\ Files(ZeroDevice) = {}
    BY FreshDevices
  <2>2. Effective' = ZeroDevice
    BY <1>1 DEF CallFormat, Effective, J!Effective, J!EmptyHeader
  <2>3. GhostTypes' /\ ControlInv'
    BY <1>1 DEF CallFormat, GhostTypes, ControlInv
  <2>4. \A n \in Names : promised'[n] = Zero
    BY <1>1 DEF CallFormat
  <2>5. FsInv(Effective', formatted', attempted', promised')
    BY <1>1, <2>1, <2>2, <2>4 DEF CallFormat, FsInv
  <2>6. FormatInv'
    BY <1>1, <2>1, FormatBlocks DEF CallFormat, FormatInv
  <2> QED
    BY <1>1, <2>3, <2>5, <2>6 DEF Inv, CallFormat
<1>2. CASE FormatWrite
  <2>1. FormatInv /\ step = "format" /\ step' = "format" /\ UNCHANGED ghosts
    BY <1>2 DEF FormatWrite, Inv
  <2> DEFINE a == FormatOrder[idx]
  <2>2. a \in Lba /\ idx \in 1..Len(FormatOrder)
    BY <1>2, <2>1, FormatBlocks DEF FormatWrite, FormatInv
  <2>3. home' = [home EXCEPT ![a] = FormattedDevice[a]]
    BY <1>2 DEF FormatWrite
  <2>4. Shape(home') /\ Files(home') = {}
    <3> HIDE DEF a
    <3>1. Shape(home) /\ Files(home) = {}
      BY <2>1 DEF FormatInv
    <3> QED
      BY <2>2, <2>3, <3>1, ShapeMixes, FreshDevices
  <2>5. Effective' = home'
    BY <1>2, <2>1 DEF FormatWrite, FormatInv, Effective, J!Effective, J!EmptyHeader
  <2>6. idx' = idx + 1 /\ idx' \in 1..(Len(FormatOrder) + 1) /\ idx' - 1 = idx
    BY <1>2, <2>2, FormatBlocks DEF FormatWrite
  <2>7. \A k \in 1..(idx' - 1) : home'[FormatOrder[k]] = FormattedDevice[FormatOrder[k]]
    <3> TAKE k \in 1..(idx' - 1)
    <3>1. k \in 1..idx /\ k \in 1..Len(FormatOrder)
      BY <2>2, <2>6, FormatBlocks
    <3>2. home \in [Lba -> Value] /\ FormatOrder[k] \in Lba
      BY <2>1, <3>1, FormatBlocks DEF FormatInv, Shape
    <3>3. CASE k = idx
      BY <2>3, <3>2, <3>3
    <3>4. CASE k # idx
      <4>1. k \in 1..(idx - 1)
        BY <2>2, <3>1, <3>4, FormatBlocks
      <4>2. home[FormatOrder[k]] = FormattedDevice[FormatOrder[k]]
        BY <2>1, <4>1 DEF FormatInv
      <4> QED
        BY <2>3, <3>2, <4>2
    <3> QED
      BY <3>3, <3>4
  <2>8. FormatInv'
    <3>1. /\ head' = J!EmptyHeader /\ J!EmptyHeader' = J!EmptyHeader
          /\ desc' = [i \in 1..MaxRecords |-> NoDesc]
          /\ data' = [i \in 1..MaxRecords |-> Zero]
          /\ pc' = "idle" /\ tx' = <<>> /\ rc' = "none"
          /\ ~formatted' /\ promised' = [n \in Names |-> Zero]
      BY <1>2, <2>1 DEF FormatInv, FormatWrite, ghosts, J!EmptyHeader
    <3> QED
      BY <2>4, <2>6, <2>7, <3>1 DEF FormatInv
  <2>9. GhostTypes' /\ ControlInv'
    BY <2>1 DEF Inv, GhostTypes, ControlInv, ghosts
  <2>10. FsInv(Effective', formatted', attempted', promised')
    <3>1. formatted' = formatted /\ ~formatted /\ \A n \in Names : promised'[n] = Zero
      BY <2>1 DEF FormatInv, ghosts
    <3> QED
      BY <2>4, <2>5, <3>1 DEF FsInv
  <2> QED
    BY <2>1, <2>8, <2>9, <2>10 DEF Inv
<1>3. CASE FormatReturns
  <2>1. FormatInv /\ idx = Len(FormatOrder) + 1
    <3>1. FormatInv /\ idx > Len(FormatOrder)
      BY <1>3 DEF FormatReturns, Inv
    <3>2. idx \in 1..(Len(FormatOrder) + 1)
      BY <3>1 DEF FormatInv
    <3>3. idx = Len(FormatOrder) + 1
      BY <3>1, <3>2, FormatBlocks
    <3> QED
      BY <3>1, <3>3
  <2>2. Shape(home) /\ Files(home) = {} /\ home \in [Lba -> Value]
    BY <2>1 DEF FormatInv, Shape
  <2>3. P!JInv' /\ Effective' = home
    BY <1>3, <2>1, <2>2, Fresh DEF FormatReturns, FormatInv
  <2>4. /\ home[InodeBitmap] = FormattedDevice[InodeBitmap]
        /\ home[BlockBitmap] = FormattedDevice[BlockBitmap]
        /\ home[InodeTable(0)] = FormattedDevice[InodeTable(0)]
    <3>1. \A k \in 1..Len(FormatOrder) : home[FormatOrder[k]] = FormattedDevice[FormatOrder[k]]
      BY <2>1, FormatBlocks DEF FormatInv
    <3> QED
      BY <3>1, FormatBlocks
  <2>5. Rooted(home)
    <3>1. Rooted(FormattedDevice)
      BY FreshDevices
    <3> QED
      BY <2>4, <3>1, TableNumbers DEF Rooted, Marked, MarkedBlk, Inode
  <2>6. GhostTypes' /\ ControlInv'
    BY <1>3, <2>1 DEF Inv, GhostTypes, ControlInv, FormatReturns, Finish, FormatInv
  <2>7. \A n \in Names : promised'[n] = Zero
    BY <1>3, <2>1 DEF FormatReturns, FormatInv
  <2>8. FsInv(Effective', formatted', attempted', promised')
    BY <2>2, <2>3, <2>5, <2>7 DEF FsInv
  <2> QED
    BY <1>3, <2>3, <2>6, <2>8 DEF Inv, FormatReturns, Finish
<1> QED
  BY <1>1, <1>2, <1>3

(* A write error or a power loss ends the call; nothing that showed is     *)
(* lost, and nothing shows that did not.                                   *)
LEMMA FaultKeeps == ASSUME Inv, WriteError \/ PowerLoss PROVE Inv'
<1>1. CASE step # "format" /\ WriteError
  <2>1. /\ P!JInv /\ J!WriteFails /\ step \in {"mount", "tx1", "tx2"}
        /\ step' = step /\ call' = call /\ UNCHANGED <<formatted, attempted, promised>>
    BY <1>1 DEF Inv, WriteError, ghosts
  <2>2. /\ P!JInv' /\ Effective' = Effective /\ pc' = "idle"
        /\ pc \in Uncommitted \cup {"c_home", "c_done"} => rc' = "io"
    BY <2>1, Fails
  <2>3. step \in {"tx1", "tx2"} => rc' = "io"
    <3>1. pc # "idle" /\ pc # "mounted"
      BY <2>1 DEF J!WriteFails, J!WritesPending, J!CommitPc, J!RecoverPc
    <3> QED
      BY <2>2, <3>1 DEF Inv, ControlInv, Committed
  <2>4. GhostTypes' /\ ControlInv'
    BY <2>1, <2>2 DEF Inv, GhostTypes, ControlInv
  <2>5. FsInv(Effective', formatted', attempted', promised')
    BY <2>1, <2>2 DEF Inv
  <2>6. step' = "tx1" => FirstInv'
    BY <2>1, <2>2, <2>3 DEF FirstInv, Uncommitted, Committed
  <2>7. step' = "tx2" => SecondInv'
    BY <2>1, <2>2, <2>3 DEF SecondInv, Uncommitted, Committed
  <2> QED
    BY <2>1, <2>2, <2>4, <2>5, <2>6, <2>7 DEF Inv
<1>2. CASE step # "format" /\ PowerLoss
  <2>1. P!JInv' /\ Effective' = Effective
    BY <1>2, Ends DEF Inv, PowerLoss
  <2> QED
    BY <1>2, <2>1, Settles DEF PowerLoss, Finish
<1>3. CASE step = "format"
  <2>1. FormatInv
    BY <1>3 DEF Inv
  <2>2. /\ UNCHANGED <<home, head, desc, data, formatted, attempted, promised>>
        /\ pc' = "idle" /\ idx' = 1 /\ tx' = <<>> /\ rc' = "none" /\ step' = "idle"
    BY <1>3, <2>1 DEF WriteError, PowerLoss, Finish, ghosts, FormatInv
  <2>3. P!JInv' /\ Effective' = home
    BY <2>1, <2>2, Fresh DEF FormatInv, Shape
  <2>4. Effective = home
    BY <2>1 DEF FormatInv, Effective, J!Effective, J!EmptyHeader
  <2> QED
    BY <2>2, <2>3, <2>4, Settles DEF ghosts
<1> QED
  BY <1>1, <1>2, <1>3

(* Every step of every call. *)
LEMMA NextKeeps == Inv /\ [Next]_vars => Inv'
<1> SUFFICES ASSUME Inv, [Next]_vars PROVE Inv'
  OBVIOUS
<1>1. ASSUME NEW n \in Names, NEW v \in Contents, NEW stop \in BOOLEAN, CallWrite(n, v, stop)
      PROVE  Inv'
  BY <1>1, CallKeeps DEF CallWrite
<1>2. ASSUME NEW n \in Names, CallRead(n) PROVE Inv'
  BY <1>2, CallKeeps DEF CallRead
<1>3. CASE CallFsck
  BY <1>3, CallKeeps DEF CallFsck
<1>4. CASE Committing
  BY <1>4, FirstKeeps, SecondKeeps DEF Committing
<1>5. CASE UNCHANGED vars
  <2>1. UNCHANGED journal /\ UNCHANGED ghosts /\ UNCHANGED <<step, call>>
    BY <1>5 DEF vars, journal, ghosts
  <2>2. CASE step = "format"
    BY <1>5, <2>2 DEF vars, Inv, GhostTypes, ControlInv, FormatInv, Effective, J!Effective,
                      J!JournalTx
  <2>3. CASE step # "format"
    <3>1. P!JInv' /\ Effective' = Effective
      BY <2>1, <2>3, Rests DEF Inv
    <3> QED
      BY <1>5, <2>3, <3>1 DEF vars, Inv, GhostTypes, ControlInv, FirstInv, SecondInv
  <2> QED
    BY <2>2, <2>3
<1> QED
  BY <1>1, <1>2, <1>3, <1>4, <1>5, RecoveringKeeps, ReturnKeeps, PrepareKeeps, SecondBegins,
     WriteReturnKeeps, FormatKeeps, FaultKeeps DEF Next, Proceed

-----------------------------------------------------------------------------
(* The theorems. *)

(* The invariant holds in every reachable state. *)
THEOREM FileSystemInvariance == Spec => []Inv
BY InitInv, NextKeeps, PTL DEF Spec

(* m16_fsck finds nothing to complain about on any formatted device,       *)
(* wherever writes, recoveries and their retries were cut short.           *)
THEOREM FsckHolds == Spec => []FsckAlwaysOk
<1>1. Inv => FsckAlwaysOk
  <2> SUFFICES ASSUME Inv, formatted PROVE FsckOk(Effective)
    BY DEF FsckAlwaysOk
  <2> DEFINE d == Effective
  <2>1. FsInv(d, formatted, attempted, promised)
    BY DEF Inv
  <2> HIDE DEF d
  <2>2. Rooted(d) /\ \A s \in Files(d) : Sound(d, s, attempted)
    BY <2>1 DEF FsInv
  <2>3. FsckOk(d)
    BY <2>2 DEF FsckOk, Rooted, Sound, Files, Dir, Marked, MarkedBlk
  <2> QED
    BY <2>3 DEF d
<1> QED
  BY <1>1, FileSystemInvariance, PTL

(* Two files never share a name, an inode or a data block. *)
THEOREM Disjoint == Spec => []FilesDisjoint
<1>1. Inv => FilesDisjoint
  BY DEF Inv, FsInv, FilesDisjoint, Apart, Dir
<1> QED
  BY <1>1, FileSystemInvariance, PTL

(* What m16_read_file returns for a file. *)
LEMMA ReadsBack ==
  ASSUME Inv, NEW n \in Names, Entries(Effective, n) # {}
  PROVE  ReadFile(Effective, n) = attempted[n]
<1> DEFINE d == Effective
<1>1. FsInv(d, formatted, attempted, promised) /\ Entries(d, n) # {}
  BY DEF Inv
<1> HIDE DEF d
<1>2. Shape(d) /\ Entries(d, n) = {s \in Files(d) : Dir(d)[s].name = n} /\ Files(d) \subseteq Dirent
  BY <1>1, Slots DEF FsInv
<1>3. Least(Entries(d, n)) \in Entries(d, n)
  <2>1. Entries(d, n) \subseteq Nat
    BY FsAssumption DEF Entries, Dirent
  <2> QED
    BY <1>1, <2>1, LeastIs
<1> DEFINE s == Least(Entries(d, n))
<1>4. s \in Files(d) /\ Dir(d)[s].name = n
  BY <1>2, <1>3
<1> HIDE DEF s
<1>5. Sound(d, s, attempted)
  BY <1>1, <1>4 DEF FsInv
<1>6. ReadFile(d, n) = Bytes(d, Inode(d, Dir(d)[s].ino).blk)
  BY <1>1, <1>5 DEF ReadFile, Sound, Bytes, Dir, s
<1> QED
  BY <1>4, <1>5, <1>6 DEF Sound, d

(* A file is absent or complete in every reachable state. *)
THEOREM AllOrNothing == Spec => []FileAllOrNothing
<1>1. Inv => FileAllOrNothing
  <2> SUFFICES ASSUME Inv, NEW n \in Names
               PROVE  ReadFile(Effective, n) \in {"noent", attempted[n]}
    BY DEF FileAllOrNothing
  <2>1. CASE Entries(Effective, n) = {}
    BY <2>1 DEF ReadFile
  <2>2. CASE Entries(Effective, n) # {}
    BY <2>2, ReadsBack
  <2> QED
    BY <2>1, <2>2
<1> QED
  BY <1>1, FileSystemInvariance, PTL

(* A write that returned M16_E_OK is read back with its contents after any *)
(* sequence of later calls, write errors and power losses.                 *)
THEOREM Durable == Spec => []WrittenFilesDurable
<1>1. Inv => WrittenFilesDurable
  <2> SUFFICES ASSUME Inv, NEW n \in Names, promised[n] # Zero
               PROVE  ReadFile(Effective, n) = promised[n]
    BY DEF WrittenFilesDurable
  <2>1. promised[n] = attempted[n] /\ Entries(Effective, n) # {}
    BY DEF Inv, FsInv
  <2> QED
    BY <2>1, ReadsBack
<1> QED
  BY <1>1, FileSystemInvariance, PTL
==============================================================================
