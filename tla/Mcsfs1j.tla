------------------------------ MODULE Mcsfs1j ------------------------------
(***************************************************************************)
(* MCSFS1J, the file system of kernel/fs/mcsfs1j/m16_mcsfs_journal.c, on   *)
(* its journal.  One call runs at a time (the kernel has no lock here and  *)
(* needs none), every call mounts first, and a file is written with two    *)
(* transactions.  The journal's steps are those of module Journal, so a    *)
(* write error or a power loss may come between any two block writes of    *)
(* any call.                                                               *)
(*                                                                         *)
(* Blocks hold what the code reads out of them: bitmaps are sets, an inode *)
(* is its kind and direct[0], a data block is one value (size included).   *)
(***************************************************************************)
EXTENDS Naturals, Sequences

CONSTANTS Names,       \* file names that pass the length check
          Contents,    \* what a data block can hold
          LastIno,     \* M16_MAX_INODES - 1
          InoPerBlock, \* inodes in a block of the inode table
          LastBlk,     \* data blocks are 1..LastBlk, 0 stands for the metadata
          LastDirent,  \* directory slots are 1..LastDirent
          MaxRecords,  \* M16_JOURNAL_MAX_RECORDS
          Zero,        \* a zeroed data block
          NoName,      \* the name in an unused directory slot
          NoDesc

ASSUME FsAssumption ==
  /\ LastIno \in Nat /\ LastBlk \in Nat /\ LastDirent \in Nat
  /\ InoPerBlock \in Nat \ {0}
  /\ NoName \notin Names
  /\ Zero \notin Contents
  /\ MaxRecords \in Nat /\ MaxRecords >= 3 + LastIno \div InoPerBlock

Ino == 0..LastIno
Blk == 1..LastBlk
Dirent == 1..LastDirent

VARIABLES
  home, head, desc, data, pc, idx, tx, rc,  \* see Journal
  step,       \* where the running call is
  call,       \* its arguments and buffers
  result,     \* what the last call returned
  formatted,  \* ghost: the last m16_format wrote all its blocks
  attempted,  \* ghost: contents of the last write that started, by name
  promised    \* ghost: contents of the last write that succeeded, by name

journal == <<home, head, desc, data, pc, idx, tx, rc>>
ghosts == <<formatted, attempted, promised>>
vars == <<home, head, desc, data, pc, idx, tx, rc, step, call, result,
          formatted, attempted, promised>>

-----------------------------------------------------------------------------
(* The layout of the device. *)

Super == <<"super", 0>>
InodeBitmap == <<"ib", 0>>
BlockBitmap == <<"bb", 0>>
InodeTable(k) == <<"it", k>>
RootDir == <<"dir", 0>>
DataBlock(b) == <<"blk", b>>

TableBlock(i) == i \div InoPerBlock
TableBlocks == {TableBlock(i) : i \in Ino}

Lba == {Super, InodeBitmap, BlockBitmap, RootDir}
         \cup {InodeTable(k) : k \in TableBlocks} \cup {DataBlock(b) : b \in Blk}

FreeInode == [kind |-> 0, blk |-> 0]
RootInode == [kind |-> 2, blk |-> 0]
FileInode(b) == [kind |-> 1, blk |-> b]
FreeDirent == [name |-> NoName, ino |-> 0]

Table(k, inodes) == [inodes |-> [i \in {j \in Ino : TableBlock(j) = k} |-> inodes[i]]]

(* A device with these metadata and data blocks. *)
Device(super, ib, bb, inodes, dir, blocks) ==
  [l \in Lba |-> CASE l = Super -> [magic |-> super]
                   [] l = InodeBitmap -> [bits |-> ib]
                   [] l = BlockBitmap -> [bits |-> bb]
                   [] l = RootDir -> [dir |-> dir]
                   [] l[1] = "it" -> Table(l[2], inodes)
                   [] l[1] = "blk" -> [bytes |-> blocks[l[2]]]]

NoFiles == [s \in Dirent |-> FreeDirent]

(* m16_zero over dev->blocks, and what m16_format leaves when it succeeds. *)
ZeroDevice == Device(FALSE, {}, {}, [i \in Ino |-> FreeInode], NoFiles, [b \in Blk |-> Zero])
FormattedDevice == Device(TRUE, {0}, {0}, [i \in Ino |-> IF i = 0 THEN RootInode ELSE FreeInode],
                          NoFiles, [b \in Blk |-> Zero])

(* The order in which m16_format writes; the journal header comes last. *)
TableOrder == [k \in 1..(TableBlock(LastIno) + 1) |-> InodeTable(k - 1)]
FormatOrder == <<Super, InodeBitmap, BlockBitmap>> \o TableOrder \o <<RootDir>>

(* What a block can hold. *)
InodeValue == {FreeInode, RootInode} \cup {FileInode(b) : b \in Blk}
Value == [magic : BOOLEAN] \cup [bits : SUBSET Nat]
           \cup [dir : [Dirent -> [name : Names \cup {NoName}, ino : Ino]]]
           \cup (UNION {[inodes : [{i \in Ino : TableBlock(i) = k} -> InodeValue]] :
                          k \in TableBlocks})
           \cup [bytes : Contents \cup {Zero}] \cup {Zero}

ASSUME DescriptorAssumption == NoDesc \notin [lba : Lba, sum : Value]

J == INSTANCE Journal

Effective == J!Effective

-----------------------------------------------------------------------------
(* Reading a device. *)

Inode(d, i) == d[InodeTable(TableBlock(i))].inodes[i]
Least(S) == CHOOSE x \in S : \A y \in S : x <= y

(* m16_find_dirent: the slots in use with this name. *)
Entries(d, n) == {s \in Dirent : d[RootDir].dir[s].name = n}

(* m16_read_file after its mount. *)
ReadFile(d, n) ==
  IF Entries(d, n) = {} THEN "noent"
  ELSE LET i == d[RootDir].dir[Least(Entries(d, n))].ino
       IN  IF i \notin Ino \/ Inode(d, i).kind # 1 THEN "corrupt"
           ELSE d[DataBlock(Inode(d, i).blk)].bytes

(* m16_fsck after its mount. *)
FsckOk(d) ==
  /\ 0 \in d[InodeBitmap].bits /\ Inode(d, 0) = RootInode
  /\ 0 \in d[BlockBitmap].bits
  /\ \A s \in Dirent : d[RootDir].dir[s].name # NoName =>
       LET i == d[RootDir].dir[s].ino IN
         /\ i \in Ino /\ i \in d[InodeBitmap].bits
         /\ Inode(d, i).kind = 1
         /\ Inode(d, i).blk \in Blk /\ Inode(d, i).blk \in d[BlockBitmap].bits

FreeInodes(d) == {i \in Ino \ {0} : i \notin d[InodeBitmap].bits}
FreeBlocks(d) == {b \in Blk : b \notin d[BlockBitmap].bits}
FreeDirents(d) == Entries(d, NoName)

-----------------------------------------------------------------------------
NoCall == [op |-> "none"]

Init == /\ home = FormattedDevice
        /\ head = J!EmptyHeader
        /\ desc = [i \in 1..MaxRecords |-> NoDesc]
        /\ data = [i \in 1..MaxRecords |-> Zero]
        /\ pc = "idle" /\ idx = 1 /\ tx = <<>> /\ rc = "none"
        /\ step = "idle" /\ call = NoCall /\ result = "none"
        /\ formatted = TRUE
        /\ attempted = [n \in Names |-> Zero]
        /\ promised = [n \in Names |-> Zero]

Finish(r) == /\ step' = "idle"
             /\ call' = NoCall
             /\ result' = r

(* Every public operation starts with m16_mount, that is with recovery. *)
Call(c) == /\ step = "idle"
           /\ J!Mount
           /\ step' = "mount"
           /\ call' = c
           /\ result' = "none"
           /\ UNCHANGED ghosts

CallWrite(n, v, stop) == Call([op |-> "write", name |-> n, val |-> v, stop |-> stop])
CallRead(n) == Call([op |-> "read", name |-> n])
CallFsck == Call([op |-> "fsck"])

(* Mutant: a call goes on without recovery. *)
RecoveringMutant == /\ step = "mount"
                    /\ pc = "r_head" /\ pc' = "mounted"
                    /\ UNCHANGED <<home, head, desc, data, idx, tx, rc,
                                   step, call, result, ghosts>>

Recovering == /\ step = "mount"
              /\ J!Recover
              /\ UNCHANGED <<step, call, result, ghosts>>

(* Recovery succeeded and the superblock passes. *)
MountDone == step = "mount" /\ pc = "mounted" /\ home[Super].magic

MountFails == /\ step = "mount"
              /\ \/ pc = "idle"
                 \/ pc = "mounted" /\ ~home[Super].magic
              /\ Finish(IF pc = "idle" THEN "io" ELSE "corrupt")
              /\ UNCHANGED <<journal, ghosts>>

(* The two transactions of m16_write_file_ex, built from the blocks it has *)
(* just read: both bitmaps and the inode table, then the root directory    *)
(* and the data block.                                                     *)
TableRecords(i, b) ==
  LET inodes == [j \in Ino |-> IF j = i THEN FileInode(b) ELSE Inode(home, j)]
  IN  [k \in 1..Len(TableOrder) |->
         [lba |-> TableOrder[k], val |-> Table(TableOrder[k][2], inodes)]]
(* Mutants: a transaction without the inode bitmap; without the block bitmap. *)
MetadataTxNoInode(i, b) ==
  <<[lba |-> BlockBitmap, val |-> [bits |-> home[BlockBitmap].bits \cup {b}]]>>
    \o TableRecords(i, b)
MetadataTxNoBlock(i, b) ==
  <<[lba |-> InodeBitmap, val |-> [bits |-> home[InodeBitmap].bits \cup {i}]]>>
    \o TableRecords(i, b)
MetadataTx(i, b) ==
  <<[lba |-> InodeBitmap, val |-> [bits |-> home[InodeBitmap].bits \cup {i}]],
    [lba |-> BlockBitmap, val |-> [bits |-> home[BlockBitmap].bits \cup {b}]]>> \o TableRecords(i, b)
(* Mutant: the data block is not journalled with the directory. *)
FileTxMutant(i, b, s) ==
  <<[lba |-> RootDir, val |-> [home[RootDir] EXCEPT !.dir[s] = [name |-> call.name, ino |-> i]]]>>
FileTx(i, b, s) ==
  <<[lba |-> RootDir, val |-> [home[RootDir] EXCEPT !.dir[s] = [name |-> call.name, ino |-> i]]],
    [lba |-> DataBlock(b), val |-> [bytes |-> call.val]]>>

PrepareWrite ==
  /\ MountDone
  /\ call.op = "write"
  /\ Entries(home, call.name) = {}
  /\ FreeInodes(home) # {} /\ FreeBlocks(home) # {} /\ FreeDirents(home) # {}
  /\ LET i == Least(FreeInodes(home))
         b == Least(FreeBlocks(home))
         s == Least(FreeDirents(home))
     IN  /\ J!Begin(MetadataTx(i, b))
         /\ call' = [name |-> call.name, val |-> call.val, stop |-> call.stop,
                     tx2 |-> FileTx(i, b, s)]
  /\ step' = "tx1"
  /\ attempted' = [attempted EXCEPT ![call.name] = call.val]
  /\ UNCHANGED <<result, formatted, promised>>

RefuseWrite == /\ MountDone
               /\ call.op = "write"
               /\ \/ Entries(home, call.name) # {} /\ Finish("exists")
                  \/ /\ Entries(home, call.name) = {}
                     /\ \/ FreeInodes(home) = {}
                        \/ FreeBlocks(home) = {}
                        \/ FreeDirents(home) = {}
                     /\ Finish("nospc")
               /\ UNCHANGED <<journal, ghosts>>

Stops == step = "tx2" /\ call.stop

(* The block writes of the running m16_journal_commit. *)
Committing ==
  /\ step \in {"tx1", "tx2"}
  /\ \/ J!ClearHeader \/ J!WriteDesc \/ J!WriteData \/ J!WriteHeader
     \/ ~Stops /\ J!WriteHome
     \/ Stops /\ J!StopAfterCommitRecord
     \/ J!ClearAfterCommit
  /\ UNCHANGED <<step, call, result, ghosts>>

SecondTransaction == /\ step = "tx1"
                     /\ pc = "mounted"
                     /\ J!Begin(call.tx2)
                     /\ step' = "tx2"
                     /\ UNCHANGED <<call, result, ghosts>>

(* Mutant: the error of the first transaction is not looked at. *)
WriteReturnsMutant == /\ step = "tx2" /\ pc \in {"idle", "mounted"}
                      /\ Finish(rc)
                      /\ promised' = IF rc = "ok" THEN [promised EXCEPT ![call.name] = call.val]
                                     ELSE promised
                      /\ UNCHANGED <<journal, formatted, attempted>>

WriteReturns == /\ \/ step = "tx1" /\ pc = "idle"
                   \/ step = "tx2" /\ pc \in {"idle", "mounted"}
                /\ Finish(rc)
                /\ promised' = IF rc = "ok" THEN [promised EXCEPT ![call.name] = call.val]
                               ELSE promised
                /\ UNCHANGED <<journal, formatted, attempted>>

ReadReturns == /\ MountDone
               /\ call.op = "read"
               /\ Finish(ReadFile(home, call.name))
               /\ UNCHANGED <<journal, ghosts>>

FsckReturns == /\ MountDone
               /\ call.op = "fsck"
               /\ Finish(IF FsckOk(home) THEN "ok" ELSE "corrupt")
               /\ UNCHANGED <<journal, ghosts>>

(* m16_format: zero the device at once, then write its blocks one by one. *)
CallFormat == /\ step = "idle"
              /\ step' = "format"
              /\ home' = ZeroDevice
              /\ head' = J!EmptyHeader
              /\ desc' = [i \in 1..MaxRecords |-> NoDesc]
              /\ data' = [i \in 1..MaxRecords |-> Zero]
              /\ pc' = "idle" /\ idx' = 1 /\ tx' = <<>> /\ rc' = "none"
              /\ call' = NoCall /\ result' = "none"
              /\ formatted' = FALSE
              /\ attempted' = [n \in Names |-> Zero]
              /\ promised' = [n \in Names |-> Zero]

FormatWrite == /\ step = "format"
               /\ idx <= Len(FormatOrder)
               /\ home' = [home EXCEPT ![FormatOrder[idx]] = FormattedDevice[FormatOrder[idx]]]
               /\ idx' = idx + 1
               /\ UNCHANGED <<head, desc, data, pc, tx, rc, step, call, result, ghosts>>

FormatReturns == /\ step = "format"
                 /\ idx > Len(FormatOrder)
                 /\ head' = J!EmptyHeader
                 /\ idx' = 1
                 /\ Finish("ok")
                 /\ formatted' = TRUE
                 /\ UNCHANGED <<home, desc, data, pc, tx, rc, attempted, promised>>

(* m16_write_block fails; the journal's caller sees it next. *)
WriteError == \/ /\ step \in {"mount", "tx1", "tx2"}
                 /\ J!WriteFails
                 /\ UNCHANGED <<step, call, result, ghosts>>
              \/ /\ step = "format"
                 /\ Finish("io")
                 /\ idx' = 1
                 /\ UNCHANGED <<home, head, desc, data, pc, tx, rc, ghosts>>

(* Power loss: only the device is left. *)
PowerLoss == /\ step # "idle"
             /\ Finish("crash")
             /\ pc' = "idle" /\ idx' = 1 /\ tx' = <<>> /\ rc' = "none"
             /\ UNCHANGED <<home, head, desc, data, ghosts>>

Proceed == \/ Recovering \/ MountFails
           \/ PrepareWrite \/ RefuseWrite
           \/ Committing \/ SecondTransaction \/ WriteReturns
           \/ ReadReturns \/ FsckReturns
           \/ FormatWrite \/ FormatReturns

Next == \/ \E n \in Names, v \in Contents, stop \in BOOLEAN : CallWrite(n, v, stop)
        \/ \E n \in Names : CallRead(n)
        \/ CallFsck
        \/ CallFormat
        \/ Proceed
        \/ WriteError
        \/ PowerLoss

Spec == Init /\ [][Next]_vars

-----------------------------------------------------------------------------
(* Properties.  Each is about Effective, the device as the next mount will *)
(* show it, in every state: a power loss may come now.                     *)

(* m16_fsck finds nothing to complain about after any crash or write       *)
(* error, unless m16_format itself was cut short.                          *)
FsckAlwaysOk == formatted => FsckOk(Effective)

Files(d) == {s \in Dirent : d[RootDir].dir[s].name # NoName}
BlockOf(d, s) == Inode(d, d[RootDir].dir[s].ino).blk

(* Two files never share a name, an inode or a data block, on any device   *)
(* that mounts, interrupted formats included: what m16_write_file_ex       *)
(* allocated stays allocated.                                              *)
FilesDisjoint ==
  \A s, t \in Files(Effective) : s # t =>
    /\ Effective[RootDir].dir[s].name # Effective[RootDir].dir[t].name
    /\ Effective[RootDir].dir[s].ino # Effective[RootDir].dir[t].ino
    /\ BlockOf(Effective, s) # BlockOf(Effective, t)

(* A file is absent or complete: its directory entry never shows before    *)
(* its inode and its data, in whatever order the two transactions and      *)
(* their block writes were cut short.                                      *)
FileAllOrNothing ==
  \A n \in Names : ReadFile(Effective, n) \in {"noent", attempted[n]}

(* A write that returned M16_E_OK stays readable with its contents, also   *)
(* when it stopped after its commit record.                                *)
WrittenFilesDurable ==
  \A n \in Names : promised[n] # Zero => ReadFile(Effective, n) = promised[n]
=============================================================================
