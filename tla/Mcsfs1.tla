------------------------------- MODULE Mcsfs1 -------------------------------
(***************************************************************************)
(* The file system of fs/mcsfs1/mcsfs1.c: two bitmaps, an inode table, one *)
(* directory block and data blocks, changed in place without a journal.    *)
(* An action is one call up to and including one block write, so a device  *)
(* error or a power loss can fall between any two writes.  Written blocks  *)
(* are durable and in order.  Sizes count blocks; the inode table is one   *)
(* block.  A rewrite of a bitmap that did not change is left out.          *)
(***************************************************************************)
EXTENDS Naturals, Sequences, FiniteSets, FiniteSetsExt

CONSTANTS Names,      \* valid file names
          LongNames,  \* those of exactly MCSFS1_MAX_NAME bytes
          Contents,   \* what callers write: sequences of block values
          Zero,       \* a block of zero bytes
          NoName, Absent, Torn,
          MaxIno,     \* MCSFS1_MAX_INODES
          LastBlk,    \* dev->block_count - 1
          Direct,     \* MCSFS1_DIRECT_BLOCKS
          Slots,      \* MCSFS1_DIRENT_COUNT
          FlakyReads  \* may a block read fail and the next one succeed?

RootDirLba == 4
DataStart == 5
Ino == 1..MaxIno
RootIno == 1
Slot == 1..Slots
Lba == 0..LastBlk
DataLba == DataStart..LastBlk
MetaLba == 0..(DataStart - 1)

ASSUME Mcsfs1Assumption ==
  /\ LongNames \subseteq Names /\ NoName \notin Names
  /\ {MaxIno, LastBlk, Direct, Slots} \subseteq Nat \ {0}
  /\ LastBlk >= DataStart
  /\ \A c \in Contents : c \in Seq({c[i] : i \in 1..Len(c)}) /\ Len(c) <= Direct
  /\ FlakyReads \in BOOLEAN

VARIABLES super,   \* is the superblock valid?
          ib, bb,  \* inode and block bitmaps: the used numbers
          table,   \* inodes
          dir,     \* directory entries
          data,    \* data blocks
          pc,      \* the next block write, or "idle"
          op,      \* locals of the call under way
          mounted,
          expect,  \* ghost: what each file should hold, Torn if that is undefined
          lossy    \* ghost: has a call been cut short since the last format?

disk == <<super, ib, bb, table, dir, data>>
vars == <<super, ib, bb, table, dir, data, pc, op, mounted, expect, lossy>>

NoDirect == [i \in 1..Direct |-> 0]
FreeInode == [mode |-> "FREE", size |-> 0, direct |-> NoDirect]
RootInode == [mode |-> "DIR", size |-> 1, direct |-> [NoDirect EXCEPT ![1] = RootDirLba]]
NewInode(b) == [mode |-> "FILE", size |-> 0, direct |-> [NoDirect EXCEPT ![1] = b]]
FreeDirent == [ino |-> 0, name |-> NoName]
NoOp == [name |-> NoName, slot |-> 1, ino |-> 0, inode |-> FreeInode,
         content |-> <<>>, i |-> 0]

Inode == [mode : {"FREE", "FILE", "DIR"}, size : 0..Direct, direct : [1..Direct -> Lba]]

TypeOK ==
  /\ super \in BOOLEAN
  /\ ib \subseteq 0..MaxIno
  /\ bb \subseteq Lba
  /\ table \in [Ino -> Inode]
  /\ dir \in [Slot -> [ino : 0..MaxIno, name : Names \cup {NoName}]]
  /\ DOMAIN data = DataLba
  /\ pc \in {"idle", "zero", "format_super", "format_ib", "format_bb", "format_root",
             "create_ib", "create_bb", "create_inode", "create_dirent",
             "alloc", "write_data", "write_inode",
             "unlink_dirent", "unlink_ib", "unlink_bb", "unlink_inode"}
  /\ op.ino \in 0..MaxIno /\ op.slot \in Slot /\ op.inode \in Inode /\ op.i \in 0..(LastBlk + 1)
  /\ mounted \in BOOLEAN
  /\ lossy \in BOOLEAN

Init == /\ super = FALSE
        /\ ib = {} /\ bb = {}
        /\ table = [i \in Ino |-> FreeInode]
        /\ dir = [s \in Slot |-> FreeDirent]
        /\ data = [b \in DataLba |-> Zero]
        /\ pc = "idle" /\ op = NoOp /\ mounted = FALSE
        /\ expect = [n \in Names |-> Torn]
        /\ lossy = FALSE

-----------------------------------------------------------------------------
(* Reading the metadata. *)

(* Does find_dirent take entry s for n?  It looks for the end of the       *)
(* stored name in one byte more than the name field has, which is the      *)
(* first byte of the next entry's ino, or, after the last entry, whatever  *)
(* byte follows the buffer: z says whether that one is zero.               *)
Matches(s, n, z) ==
  /\ dir[s].ino # 0
  /\ dir[s].name = n
  /\ n \in LongNames => IF s = Slots THEN z ELSE dir[s + 1].ino = 0

FindDirent(n, z) == {s \in Slot : /\ Matches(s, n, z)
                                  /\ \A r \in Slot : r < s => ~Matches(r, n, z)}

FreeSlots == {s \in Slot : dir[s].ino = 0}
FreeInos == {i \in Ino : i >= 2 /\ i \notin ib}

FreeBlks == {b \in DataLba : b \notin bb}

(* load_super, then the checks of mcsfs1_mount on the root inode. *)
Mountable == super /\ table[RootIno] = RootInode

(* mcsfs1_read with a large enough buffer. *)
ReadFile(n, z) ==
  IF FindDirent(n, z) = {} THEN Absent
  ELSE LET inode == table[dir[CHOOSE s \in FindDirent(n, z) : TRUE].ino]
       IN  [j \in 1..inode.size |->
              IF inode.direct[j] \in DataLba THEN data[inode.direct[j]] ELSE Torn]

BlocksNeeded(len) == IF len = 0 THEN 1 ELSE len

(* mcsfs1_fsck returns MCSFS1_ERR_OK. *)
FsckOk ==
  /\ Mountable
  /\ RootIno \in ib
  /\ MetaLba \subseteq bb
  /\ \A s \in Slot : dir[s].ino # 0 =>
       LET inode == table[dir[s].ino]
       IN  /\ dir[s].ino \in ib
           /\ inode.mode = "FILE"
           /\ \A j \in 1..BlocksNeeded(inode.size) : inode.direct[j] \in DataLba \cap bb

-----------------------------------------------------------------------------
(* Calls.  Start begins the writes of a call with locals o.  A call that   *)
(* finds nothing to do (EXIST, NOENT, NOSPC from create, a failed read, a  *)
(* mount that finds no file system) changes nothing: a stuttering step.    *)

Start(p, o) == /\ pc' = p
               /\ op' = o
               /\ UNCHANGED <<super, ib, bb, table, dir, data, mounted, expect, lossy>>

Ready == pc = "idle" /\ mounted

(* mcsfs1_create.  Any error of find_dirent counts as "no such name". *)
CallCreate(n, z) ==
  /\ Ready
  /\ FindDirent(n, z) = {} \/ FlakyReads
  /\ FreeSlots # {} /\ FreeInos # {} /\ FreeBlks # {}
  /\ Start("create_ib", [NoOp EXCEPT !.name = n, !.slot = Min(FreeSlots), !.ino = Min(FreeInos),
                                     !.inode = NewInode(Min(FreeBlks))])

(* mcsfs1_write up to its first allocation. *)
CallWrite(n, c, z) ==
  /\ Ready
  /\ \E s \in FindDirent(n, z) :
       Start("alloc", [NoOp EXCEPT !.name = n, !.ino = dir[s].ino,
                                   !.inode = table[dir[s].ino], !.content = c, !.i = 1])

(* mcsfs1_unlink up to its first write. *)
CallUnlink(n, z) ==
  /\ Ready
  /\ \E s \in FindDirent(n, z) :
       Start("unlink_dirent", [NoOp EXCEPT !.name = n, !.slot = s, !.ino = dir[s].ino,
                                           !.inode = table[dir[s].ino]])

(* mcsfs1_mount *)
Mount == /\ pc = "idle" /\ ~mounted
         /\ Mountable
         /\ mounted' = TRUE
         /\ UNCHANGED <<super, ib, bb, table, dir, data, pc, op, expect, lossy>>

(* mcsfs1_format; the caller mounts again before it goes on. *)
CallFormat == /\ pc = "idle"
              /\ pc' = "zero"
              /\ op' = NoOp
              /\ mounted' = FALSE
              /\ expect' = [n \in Names |-> Torn]
              /\ UNCHANGED <<super, ib, bb, table, dir, data, lossy>>

-----------------------------------------------------------------------------
(* The block writes, each named for the block it writes.  At(p, q) is the  *)
(* control: the write at p was fine, the next one is at q.                 *)

At(p, q) == /\ pc = p
            /\ pc' = q
            /\ UNCHANGED mounted

(* The last write of a call.  The flush that follows has nothing to do. *)
Last(p) == /\ pc = p
           /\ pc' = "idle"
           /\ op' = NoOp
           /\ UNCHANGED mounted

(* mcsfs1_format zeroes the device from block 0 up. *)
ZeroBlock ==
  /\ At("zero", IF op.i = LastBlk THEN "format_super" ELSE "zero")
  /\ op' = [op EXCEPT !.i = @ + 1]
  /\ super' = IF op.i = 0 THEN FALSE ELSE super
  /\ ib' = IF op.i = 1 THEN {} ELSE ib
  /\ bb' = IF op.i = 2 THEN {} ELSE bb
  /\ table' = IF op.i = 3 THEN [i \in Ino |-> FreeInode] ELSE table
  /\ dir' = IF op.i = RootDirLba THEN [s \in Slot |-> FreeDirent] ELSE dir
  /\ data' = IF op.i \in DataLba THEN [data EXCEPT ![op.i] = Zero] ELSE data
  /\ UNCHANGED <<expect, lossy>>

FormatSuper == /\ At("format_super", "format_ib")
               /\ super' = TRUE
               /\ UNCHANGED <<ib, bb, table, dir, data, op, expect, lossy>>

FormatInodeBitmap == /\ At("format_ib", "format_bb")
                     /\ ib' = {0, RootIno}
                     /\ UNCHANGED <<super, bb, table, dir, data, op, expect, lossy>>

FormatBlockBitmap == /\ At("format_bb", "format_root")
                     /\ bb' = MetaLba
                     /\ UNCHANGED <<super, ib, table, dir, data, op, expect, lossy>>

FormatRoot == /\ Last("format_root")
              /\ table' = [table EXCEPT ![RootIno] = RootInode]
              /\ expect' = [n \in Names |-> Absent]
              /\ lossy' = FALSE
              /\ UNCHANGED <<super, ib, bb, dir, data>>

(* alloc_inode_block stores the two bitmaps. *)
CreateInodeBitmap == /\ At("create_ib", "create_bb")
                     /\ ib' = ib \cup {op.ino}
                     /\ UNCHANGED <<super, bb, table, dir, data, op, expect, lossy>>

(* Mutant: the data block is not marked. *)
CreateBlockBitmapMutant == /\ At("create_bb", "create_inode")
                           /\ bb' = bb
                           /\ UNCHANGED <<super, ib, table, dir, data, op, expect, lossy>>

CreateBlockBitmap == /\ At("create_bb", "create_inode")
                     /\ bb' = bb \cup {op.inode.direct[1]}
                     /\ UNCHANGED <<super, ib, table, dir, data, op, expect, lossy>>

(* Mutant: the directory entry goes to the disk before the inode. *)
CreateInodeMutant == /\ At("create_inode", "create_dirent")
                     /\ dir' = [dir EXCEPT ![op.slot] = [ino |-> op.ino, name |-> op.name]]
                     /\ UNCHANGED <<super, ib, bb, table, data, op, expect, lossy>>

CreateInode == /\ At("create_inode", "create_dirent")
               /\ table' = [table EXCEPT ![op.ino] = op.inode]
               /\ UNCHANGED <<super, ib, bb, dir, data, op, expect, lossy>>

(* The name has another entry: create took a failed read for ENOENT. *)
Doubled(n, s) == \E r \in Slot : r # s /\ dir[r].ino # 0 /\ dir[r].name = n

CreateDirent == /\ Last("create_dirent")
                /\ dir' = [dir EXCEPT ![op.slot] = [ino |-> op.ino, name |-> op.name]]
                /\ expect' = [expect EXCEPT ![op.name] = IF Doubled(op.name, op.slot) THEN Torn ELSE <<>>]
                /\ UNCHANGED <<super, ib, bb, table, data, lossy>>

(* One turn of the allocation loop of mcsfs1_write: alloc_data_block for   *)
(* an empty direct entry.                                                  *)
AllocDataBlock ==
  /\ At("alloc", "alloc")
  /\ op.i <= BlocksNeeded(Len(op.content))
  /\ op.inode.direct[op.i] = 0
  /\ FreeBlks # {}
  /\ bb' = bb \cup {Min(FreeBlks)}
  /\ op' = [op EXCEPT !.inode.direct[op.i] = Min(FreeBlks), !.i = @ + 1]
  /\ UNCHANGED <<super, ib, table, dir, data, expect, lossy>>

KeepDataBlock ==
  /\ At("alloc", "alloc")
  /\ op.i <= BlocksNeeded(Len(op.content))
  /\ op.inode.direct[op.i] # 0
  /\ op' = [op EXCEPT !.i = @ + 1]
  /\ UNCHANGED <<super, ib, bb, table, dir, data, expect, lossy>>

(* MCSFS1_ERR_NOSPC: the blocks allocated so far stay marked. *)
AllocFails ==
  /\ pc = "alloc"
  /\ op.i <= BlocksNeeded(Len(op.content))
  /\ op.inode.direct[op.i] = 0
  /\ FreeBlks = {}
  /\ pc' = "idle" /\ op' = NoOp
  /\ lossy' = TRUE
  /\ UNCHANGED <<super, ib, bb, table, dir, data, mounted, expect>>

AllocDone == /\ At("alloc", "write_data")
             /\ op.i > BlocksNeeded(Len(op.content))
             /\ op' = [op EXCEPT !.i = 1]
             /\ UNCHANGED <<super, ib, bb, table, dir, data, expect, lossy>>

(* One block of file data; the rest of the last block is zero. *)
WriteData ==
  /\ At("write_data", IF op.i = BlocksNeeded(Len(op.content)) THEN "write_inode" ELSE "write_data")
  /\ data' = [data EXCEPT ![op.inode.direct[op.i]] =
                IF op.i <= Len(op.content) THEN op.content[op.i] ELSE Zero]
  /\ op' = [op EXCEPT !.i = @ + 1]
  /\ expect' = [expect EXCEPT ![op.name] = Torn]
  /\ UNCHANGED <<super, ib, bb, table, dir, lossy>>

(* Mutant: the size is written, the new direct blocks are not. *)
WriteInodeMutant == /\ Last("write_inode")
                    /\ table' = [table EXCEPT ![op.ino].size = Len(op.content)]
                    /\ expect' = [expect EXCEPT ![op.name] = op.content]
                    /\ UNCHANGED <<super, ib, bb, dir, data, lossy>>

WriteInode == /\ Last("write_inode")
              /\ table' = [table EXCEPT ![op.ino] = [op.inode EXCEPT !.size = Len(op.content)]]
              /\ expect' = [expect EXCEPT ![op.name] = op.content]
              /\ UNCHANGED <<super, ib, bb, dir, data, lossy>>

(* mcsfs1_unlink: the entry, then free_inode_and_blocks, then the inode. *)
UnlinkDirent == /\ At("unlink_dirent", "unlink_ib")
                /\ dir' = [dir EXCEPT ![op.slot] = FreeDirent]
                /\ expect' = [expect EXCEPT ![op.name] = IF Doubled(op.name, op.slot) THEN Torn ELSE Absent]
                /\ UNCHANGED <<super, ib, bb, table, data, op, lossy>>

UnlinkInodeBitmap == /\ At("unlink_ib", "unlink_bb")
                     /\ ib' = ib \ {op.ino}
                     /\ UNCHANGED <<super, bb, table, dir, data, op, expect, lossy>>

(* Mutant: only the blocks below the size are given back. *)
UnlinkBlockBitmapMutant ==
  /\ At("unlink_bb", "unlink_inode")
  /\ bb' = bb \ {op.inode.direct[i] : i \in 1..op.inode.size}
  /\ UNCHANGED <<super, ib, table, dir, data, op, expect, lossy>>

UnlinkBlockBitmap == /\ At("unlink_bb", "unlink_inode")
                     /\ bb' = bb \ ({op.inode.direct[i] : i \in 1..Direct} \ {0})
                     /\ UNCHANGED <<super, ib, table, dir, data, op, expect, lossy>>

UnlinkInode == /\ Last("unlink_inode")
               /\ table' = [table EXCEPT ![op.ino] = FreeInode]
               /\ UNCHANGED <<super, ib, bb, dir, data, expect, lossy>>

(* A block read or a block write fails: the call returns. *)
DeviceError == /\ pc # "idle"
               /\ pc' = "idle" /\ op' = NoOp
               /\ lossy' = TRUE
               /\ UNCHANGED <<super, ib, bb, table, dir, data, mounted, expect>>

(* Power loss: the disk stays as it is. *)
Crash == /\ mounted \/ pc # "idle"
         /\ pc' = "idle" /\ op' = NoOp /\ mounted' = FALSE
         /\ lossy' = (lossy \/ pc # "idle")
         /\ UNCHANGED <<super, ib, bb, table, dir, data, expect>>

Calls == \/ \E n \in Names, z \in BOOLEAN :
              \/ CallCreate(n, z) \/ CallUnlink(n, z)
              \/ \E c \in Contents : CallWrite(n, c, z)
         \/ Mount \/ CallFormat

Writes == \/ ZeroBlock \/ FormatSuper \/ FormatInodeBitmap \/ FormatBlockBitmap \/ FormatRoot
          \/ CreateInodeBitmap \/ CreateBlockBitmap \/ CreateInode \/ CreateDirent
          \/ AllocDataBlock \/ KeepDataBlock \/ AllocFails \/ AllocDone
          \/ WriteData \/ WriteInode
          \/ UnlinkDirent \/ UnlinkInodeBitmap \/ UnlinkBlockBitmap \/ UnlinkInode

Next == Calls \/ Writes \/ DeviceError \/ Crash

Spec == Init /\ [][Next]_vars

-----------------------------------------------------------------------------
(* Properties. *)

NamedInos == {dir[s].ino : s \in {r \in Slot : dir[r].ino # 0}}
BlocksOf(i) == {table[i].direct[j] : j \in 1..Direct} \ {0}

(* Whatever write of format, create, write or unlink was the last one      *)
(* before an error or a power loss, a disk that mcsfs1_mount accepts is a  *)
(* disk that mcsfs1_fsck accepts.                                          *)
MountableIsSound == Mountable => FsckOk

(* Two directory entries never share an inode and two files never share a  *)
(* block, which mcsfs1_fsck does not look at; a block a file still holds   *)
(* beyond its size is marked too.                                          *)
FilesDisjoint ==
  Mountable =>
    /\ \A r, s \in Slot : dir[r].ino # 0 /\ dir[r].ino = dir[s].ino => r = s
    /\ \A i, k \in NamedInos : i # k => BlocksOf(i) \cap BlocksOf(k) = {}
    /\ \A i \in NamedInos : /\ BlocksOf(i) \subseteq bb \cap DataLba
                            /\ \A j, k \in 1..Direct : table[i].direct[j] # 0 /\ j # k
                                 => table[i].direct[j] # table[i].direct[k]

(* mcsfs1_read returns what the last mcsfs1_write put there, also after a  *)
(* power loss and whatever happens to other files; undefined are only a    *)
(* file whose own write was cut short after its first data block and one   *)
(* whose name was entered twice after a failed read.                       *)
FilesReadBack ==
  Mountable => \A n \in Names, z \in BOOLEAN : expect[n] # Torn => ReadFile(n, z) = expect[n]

(* While no call has been cut short or run out of space, the bitmaps mark  *)
(* exactly what the directory reaches: unlink gives everything back.       *)
NothingLeaks ==
  Mountable /\ pc = "idle" /\ ~lossy =>
    /\ ib = {0, RootIno} \cup NamedInos
    /\ bb = MetaLba \cup UNION {BlocksOf(i) : i \in NamedInos}

(* "Nama unik dalam root": a name stands in the directory once. *)
UniqueNames == \A r, s \in Slot : dir[r].ino # 0 /\ dir[s].ino # 0 /\ dir[r].name = dir[s].name => r = s
=============================================================================
