---------------------------- MODULE Mcsfs1Proofs ----------------------------
(***************************************************************************)
(* The file system of fs/mcsfs1 through device errors and power losses     *)
(* between any two block writes, for any number of names, inodes, blocks   *)
(* and directory entries and files of any size.                            *)
(***************************************************************************)
EXTENDS Mcsfs1, WellFoundedInduction, TLAPS

Op == [name : Names \cup {NoName}, slot : Slot, ino : 0..MaxIno, inode : Inode,
       content : Contents \cup {<<>>}, i : Nat]

Types == /\ super \in BOOLEAN /\ mounted \in BOOLEAN /\ lossy \in BOOLEAN
         /\ ib \subseteq 0..MaxIno /\ bb \subseteq Lba
         /\ table \in [Ino -> Inode]
         /\ dir \in [Slot -> [ino : 0..MaxIno, name : Names \cup {NoName}]]
         /\ DOMAIN data = DataLba
         /\ DOMAIN expect = Names
         /\ op \in Op

-----------------------------------------------------------------------------
(* The disk. *)

Named(D, s) == D[s].ino # 0

(* The blocks of inode n are data blocks of B, each used once, and they    *)
(* reach up to its size.                                                   *)
Holds(n, B) == /\ \A j \in 1..Direct : n.direct[j] = 0 \/ n.direct[j] \in DataLba \cap B
               /\ \A j, k \in 1..Direct : n.direct[j] # 0 /\ j # k => n.direct[j] # n.direct[k]

Reaches(n, len) == \A j \in 1..BlocksNeeded(len) : n.direct[j] # 0

(* Inode n shares no block with a named inode other than i. *)
Apart(T, D, n, i) == \A s \in Slot : Named(D, s) /\ D[s].ino # i =>
                       \A j, k \in 1..Direct : n.direct[j] # 0 => n.direct[j] # T[D[s].ino].direct[k]

GoodFile(I, B, T, D, s) ==
  LET n == T[D[s].ino]
  IN  /\ D[s].ino \in 2..MaxIno /\ D[s].ino \in I
      /\ n.mode = "FILE" /\ Holds(n, B) /\ Reaches(n, n.size)
      /\ Apart(T, D, n, D[s].ino)

(* Every entry has an inode of its own, and that its own blocks. *)
Sound(I, B, T, D) ==
  /\ RootIno \in I /\ MetaLba \subseteq B
  /\ \A s \in Slot : Named(D, s) => GoodFile(I, B, T, D, s)
  /\ \A r, s \in Slot : Named(D, r) /\ D[r].ino = D[s].ino => r = s

-----------------------------------------------------------------------------
(* What each position in a call has put on the disk. *)

NoInodes == table = [i \in Ino |-> FreeInode]
NoEntries == \A s \in Slot : ~Named(dir, s)

Formatting == /\ pc = "zero" => /\ op.i \in 0..LastBlk
                                /\ op.i > 0 => ~super
                                /\ op.i > 3 => NoInodes
                                /\ op.i > RootDirLba => NoEntries
              /\ pc = "format_super" => ~super
              /\ pc \in {"format_super", "format_ib", "format_bb", "format_root"} => NoInodes /\ NoEntries
              /\ pc \in {"format_bb", "format_root"} => ib = {0, RootIno}
              /\ pc \in {"format_ib", "format_bb", "format_root"} => super
              /\ pc = "format_root" => bb = MetaLba

CreatePcs == {"create_ib", "create_bb", "create_inode", "create_dirent"}
WritePcs == {"alloc", "write_data", "write_inode"}
UnlinkPcs == {"unlink_dirent", "unlink_ib", "unlink_bb", "unlink_inode"}

Creating == /\ op.name \in Names /\ ~Named(dir, op.slot)
            /\ op.ino \in 2..MaxIno /\ \A s \in Slot : dir[s].ino # op.ino
            /\ \E b \in DataLba : op.inode = NewInode(b)
            /\ Apart(table, dir, op.inode, op.ino)
            /\ pc # "create_ib" => op.ino \in ib
            /\ pc \in {"create_inode", "create_dirent"} => op.inode.direct[1] \in bb
            /\ pc = "create_dirent" => table[op.ino] = op.inode

Len0 == Len(op.content)

Writing == /\ op.name \in Names /\ op.content \in Contents
           /\ op.ino \in 2..MaxIno /\ \E s \in Slot : dir[s].ino = op.ino
           /\ op.inode.mode = "FILE"
           /\ Holds(op.inode, bb) /\ Apart(table, dir, op.inode, op.ino)
           /\ \A j \in 1..Direct : table[op.ino].direct[j] # 0 => op.inode.direct[j] = table[op.ino].direct[j]
           /\ pc = "alloc" => /\ op.i \in 1..(BlocksNeeded(Len0) + 1)
                              /\ \A j \in 1..(op.i - 1) : op.inode.direct[j] # 0
           /\ pc = "write_data" => op.i \in 1..BlocksNeeded(Len0)
           /\ pc \in {"write_data", "write_inode"} => Reaches(op.inode, Len0)

Unlinking == /\ op.name \in Names /\ op.ino \in 2..MaxIno
             /\ pc = "unlink_dirent" => dir[op.slot].ino = op.ino /\ op.inode = table[op.ino]
             /\ pc # "unlink_dirent" => \A s \in Slot : dir[s].ino # op.ino
             /\ pc \in {"unlink_ib", "unlink_bb"} => Holds(op.inode, bb) /\ Apart(table, dir, op.inode, op.ino)

InCall == /\ pc \in CreatePcs \cup WritePcs \cup UnlinkPcs => mounted
          /\ pc \in CreatePcs => Creating
          /\ pc \in WritePcs => Writing
          /\ pc \in UnlinkPcs => Unlinking

(* What the bitmaps mark beyond what the directory reaches. *)
BlocksIn(n) == {n.direct[j] : j \in 1..Direct} \ {0}
ExtraInos == IF pc \in {"create_bb", "create_inode", "create_dirent", "unlink_ib"} THEN {op.ino} ELSE {}
ExtraBlocks == IF pc \in {"create_inode", "create_dirent", "alloc", "write_data", "write_inode",
                          "unlink_ib", "unlink_bb"}
                 THEN BlocksIn(op.inode) ELSE {}

Exact(I, B, T, D, X, Y) ==
  /\ \A i \in 0..MaxIno : i \in I <=> i \in {0, RootIno} \/ i \in X \/ \E s \in Slot : Named(D, s) /\ i = D[s].ino
  /\ \A b \in Lba : b \in B <=> \/ b \in MetaLba \/ b \in Y
                        \/ \E s \in Slot : Named(D, s) /\ b \in BlocksIn(T[D[s].ino])

Pcs == {"idle", "zero", "format_super", "format_ib", "format_bb", "format_root"}
         \cup CreatePcs \cup WritePcs \cup UnlinkPcs

FsInv == /\ Types /\ pc \in Pcs
         /\ mounted => Mountable
         /\ pc \in {"zero", "format_super", "format_ib", "format_bb", "format_root"} => ~mounted
         /\ Formatting /\ InCall
         /\ Mountable => Sound(ib, bb, table, dir)
         /\ Mountable /\ ~lossy => Exact(ib, bb, table, dir, ExtraInos, ExtraBlocks)

-----------------------------------------------------------------------------
(* What a read returns, for names that leave room for their end. *)

IsFirst(D, s, n) == Named(D, s) /\ D[s].name = n /\ \A r \in Slot : r < s => ~(Named(D, r) /\ D[r].name = n)

Shows(n, d, len, c) == Len(c) = len /\ \A j \in 1..len : d[n.direct[j]] = c[j]

(* A read of n returns c. *)
Back(c, D, T, d, n) ==
  \/ c = Absent /\ \A s \in Slot : ~(Named(D, s) /\ D[s].name = n)
  \/ /\ c \in Contents \cup {<<>>}
     /\ \E s \in Slot : IsFirst(D, s, n) /\ Shows(T[D[s].ino], d, T[D[s].ino].size, c)

AllBack(E, D, T, d) == \A n \in Names : E[n] # Torn => Back(E[n], D, T, d, n)

ReadInv ==
  /\ Mountable => AllBack(expect, dir, table, data)
  /\ pc \in WritePcs => \E s \in Slot : IsFirst(dir, s, op.name) /\ dir[s].ino = op.ino
  /\ pc \in {"write_data", "write_inode"} =>
       /\ \A j \in 1..Len0 : (pc = "write_data" => j < op.i) => data[op.inode.direct[j]] = op.content[j]
       /\ pc = "write_inode" \/ op.i > 1 => expect[op.name] = Torn
  /\ pc = "unlink_dirent" => IsFirst(dir, op.slot, op.name)

-----------------------------------------------------------------------------
(* The constants and the records. *)

(* Numbers. *)
LEMMA Numbers ==
  /\ MaxIno \in Nat /\ 1 <= MaxIno /\ LastBlk \in Nat /\ 5 <= LastBlk
  /\ Direct \in Nat /\ 1 <= Direct /\ Slots \in Nat /\ 1 <= Slots
BY Mcsfs1Assumption DEF DataStart

(* Addresses. *)
LEMMA Addresses ==
  /\ DataLba \subseteq Lba /\ MetaLba \subseteq Lba /\ MetaLba \cap DataLba = {}
  /\ 0 \in Lba /\ 0 \notin DataLba /\ DataLba \subseteq Nat
BY Numbers DEF DataLba, MetaLba, Lba, DataStart

(* A set of numbers has a least one. *)
LEMMA MinIs ==
  ASSUME NEW S, S \subseteq Nat, S # {}
  PROVE  Min(S) \in S
<1>1. \E x \in S : \A y \in S : x <= y
  <2>1. IsWellFoundedOn(OpToRel(<, Nat), Nat)
    BY NatLessThanWellFounded
  <2>2. PICK x \in S : \A y \in S : ~(<<y, x>> \in OpToRel(<, Nat))
    BY <2>1, WFMin
  <2>3. ASSUME NEW y \in S PROVE x <= y
    <3>1. ~(y < x)
      BY <2>2 DEF OpToRel
    <3> QED
      BY <3>1
  <2> QED
    BY <2>3
<1> QED
  BY <1>1 DEF Min

(* A new inode has one block. *)
LEMMA NewIs ==
  ASSUME NEW b \in DataLba
  PROVE  /\ NewInode(b) \in Inode /\ NewInode(b).mode = "FILE" /\ NewInode(b).size = 0
         /\ NewInode(b).direct[1] = b /\ b # 0
         /\ \A j \in 1..Direct : NewInode(b).direct[j] = IF j = 1 THEN b ELSE 0
<1>1. b \in Lba /\ 0 \in Lba /\ b # 0 /\ 1 \in 1..Direct /\ 0 \in 0..Direct
  BY Numbers, Addresses
<1> DEFINE f == [NoDirect EXCEPT ![1] = b]
<1>2. f \in [1..Direct -> Lba] /\ \A j \in 1..Direct : f[j] = IF j = 1 THEN b ELSE 0
  BY <1>1 DEF NoDirect
<1>3. NewInode(b) = [mode |-> "FILE", size |-> 0, direct |-> f]
  BY DEF NewInode
<1> HIDE DEF f
<1>4. NewInode(b) \in Inode
  BY <1>1, <1>2, <1>3 DEF Inode
<1> QED
  BY <1>1, <1>2, <1>3, <1>4

(* Unused and root inodes, and a call that is not there. *)
LEMMA Constants ==
  /\ FreeInode \in Inode /\ RootInode \in Inode /\ FreeInode # RootInode
  /\ RootInode.mode = "DIR" /\ FreeInode.mode = "FREE"
  /\ FreeDirent \in [ino : 0..MaxIno, name : Names \cup {NoName}] /\ FreeDirent.ino = 0
  /\ NoOp \in Op /\ NoOp.i = 0
<1>1. 0 \in Lba /\ RootDirLba \in Lba /\ 1 \in 1..Direct /\ 0 \in 0..Direct /\ 1 \in 0..Direct
      /\ 1 \in Slot /\ 0 \in 0..MaxIno
  BY Numbers DEF Lba, RootDirLba, Slot
<1>2. NoDirect \in [1..Direct -> Lba] /\ [NoDirect EXCEPT ![1] = RootDirLba] \in [1..Direct -> Lba]
  BY <1>1 DEF NoDirect
<1> DEFINE f == [NoDirect EXCEPT ![1] = RootDirLba]
<1> HIDE DEF f
<1>3. RootInode = [mode |-> "DIR", size |-> 1, direct |-> f] /\ f \in [1..Direct -> Lba]
  BY <1>2 DEF RootInode, f
<1>4. FreeInode \in Inode /\ RootInode \in Inode /\ RootInode.mode = "DIR" /\ FreeInode.mode = "FREE"
  BY <1>1, <1>2, <1>3 DEF FreeInode, Inode
<1>5. NoOp \in Op /\ NoOp.i = 0
  BY <1>1, <1>4 DEF NoOp, Op
<1>6. FreeDirent \in [ino : 0..MaxIno, name : Names \cup {NoName}] /\ FreeDirent.ino = 0
  BY <1>1 DEF FreeDirent
<1> QED
  BY <1>4, <1>5, <1>6

-----------------------------------------------------------------------------
(* Soundness of a disk. *)

(* The named inodes are the same in T and U. *)
SameFiles(T, U, D) == \A s \in Slot : Named(D, s) => U[D[s].ino] = T[D[s].ino]

(* More marks do no harm. *)
LEMMA HoldsMore == ASSUME NEW n, NEW B, NEW C, B \subseteq C, Holds(n, B) PROVE Holds(n, C)
BY DEF Holds

(* Inodes no entry names do not matter to it. *)
LEMMA ApartSame ==
  ASSUME NEW T, NEW U, NEW D, SameFiles(T, U, D), NEW n, NEW i, Apart(T, D, n, i)
  PROVE  Apart(U, D, n, i)
BY DEF Apart, SameFiles

(* Nor to the disk. *)
LEMMA SoundSame ==
  ASSUME NEW I, NEW B, NEW T, NEW D, Sound(I, B, T, D), NEW J, NEW C, NEW U,
         SameFiles(T, U, D), RootIno \in J, MetaLba \subseteq C,
         \A s \in Slot : Named(D, s) => D[s].ino \in J /\ Holds(T[D[s].ino], C)
  PROVE  Sound(J, C, U, D)
<1>1. ASSUME NEW s \in Slot, Named(D, s) PROVE GoodFile(J, C, U, D, s)
  <2>1. GoodFile(I, B, T, D, s) /\ U[D[s].ino] = T[D[s].ino]
    BY <1>1 DEF Sound, SameFiles
  <2>2. Apart(U, D, T[D[s].ino], D[s].ino)
    BY <2>1, ApartSame DEF GoodFile
  <2> QED
    BY <1>1, <2>1, <2>2 DEF GoodFile
<1> QED
  BY <1>1 DEF Sound

(* Marks are added. *)
LEMMA SoundGrows ==
  ASSUME NEW I, NEW B, NEW T, NEW D, Sound(I, B, T, D), NEW J, NEW C, I \subseteq J, B \subseteq C
  PROVE  Sound(J, C, T, D)
<1>1. \A s \in Slot : Named(D, s) => D[s].ino \in J /\ Holds(T[D[s].ino], C)
  BY HoldsMore DEF Sound, GoodFile
<1>2. RootIno \in J /\ MetaLba \subseteq C /\ SameFiles(T, T, D)
  BY DEF Sound, SameFiles
<1> QED
  BY <1>1, <1>2, SoundSame

(* Marks are taken away from an inode that no entry names. *)
LEMMA SoundShrinks ==
  ASSUME NEW I, NEW B, NEW T, NEW D, Sound(I, B, T, D), NEW i \in 2..MaxIno, NEW n \in Inode,
         \A s \in Slot : D[s].ino # i, Apart(T, D, n, i), Holds(n, B)
  PROVE  Sound(I \ {i}, B, T, D) /\ Sound(I, B \ BlocksIn(n), T, D)
<1>1. Sound(I \ {i}, B, T, D)
  <2>1. \A s \in Slot : Named(D, s) => D[s].ino \in I \ {i} /\ Holds(T[D[s].ino], B)
    BY DEF Sound, GoodFile
  <2> QED
    BY <2>1, SoundSame DEF Sound, SameFiles, RootIno
<1>2. Sound(I, B \ BlocksIn(n), T, D)
  <2>1. \A j \in 1..Direct : n.direct[j] = 0 \/ n.direct[j] \in DataLba
    BY DEF Holds
  <2>2. MetaLba \subseteq B \ BlocksIn(n)
    BY <2>1, Addresses DEF BlocksIn, Sound
  <2>3. ASSUME NEW s \in Slot, Named(D, s)
        PROVE  D[s].ino \in I /\ Holds(T[D[s].ino], B \ BlocksIn(n))
    <3>1. D[s].ino \in I /\ Holds(T[D[s].ino], B)
      BY <2>3 DEF Sound, GoodFile
    <3>2. \A j, k \in 1..Direct : n.direct[j] # 0 => n.direct[j] # T[D[s].ino].direct[k]
      BY <2>3 DEF Apart
    <3> QED
      BY <3>1, <3>2 DEF Holds, BlocksIn
  <2>4. RootIno \in I /\ SameFiles(T, T, D)
    BY DEF Sound, SameFiles
  <2> QED
    BY <2>2, <2>3, <2>4, SoundSame
<1> QED
  BY <1>1, <1>2

(* The inode of an entry changes. *)
LEMMA SoundRewrites ==
  ASSUME NEW I, NEW B, NEW T \in [Ino -> Inode], NEW D, Sound(I, B, T, D),
         NEW i \in 2..MaxIno, NEW n \in Inode, n.mode = "FILE", Holds(n, B), Reaches(n, n.size),
         Apart(T, D, n, i)
  PROVE  Sound(I, B, [T EXCEPT ![i] = n], D)
<1> DEFINE U == [T EXCEPT ![i] = n]
<1>1. \A k \in 2..MaxIno : U[k] = IF k = i THEN n ELSE T[k]
  BY Numbers DEF Ino
<1> HIDE DEF U
<1>2. ASSUME NEW s \in Slot, Named(D, s) PROVE GoodFile(I, B, U, D, s)
  <2>1. GoodFile(I, B, T, D, s) /\ D[s].ino \in 2..MaxIno /\ \A r \in Slot : Named(D, r) => D[r].ino \in 2..MaxIno
    BY <1>2 DEF Sound, GoodFile
  <2>2. CASE D[s].ino = i
    <3>1. U[D[s].ino] = n
      BY <1>1, <2>2
    <3>2. Apart(U, D, n, i)
      BY <1>1, <2>1 DEF Apart
    <3> QED
      BY <2>1, <2>2, <3>1, <3>2 DEF GoodFile
  <2>3. CASE D[s].ino # i
    <3>1. U[D[s].ino] = T[D[s].ino]
      BY <1>1, <2>1, <2>3
    <3>2. ASSUME NEW r \in Slot, Named(D, r), D[r].ino # D[s].ino, NEW j \in 1..Direct, NEW k \in 1..Direct,
                 T[D[s].ino].direct[j] # 0
          PROVE  T[D[s].ino].direct[j] # U[D[r].ino].direct[k]
      <4>1. CASE D[r].ino = i
        <5>1. n.direct[k] # 0 => n.direct[k] # T[D[s].ino].direct[j]
          BY <1>2, <2>3 DEF Apart
        <5> QED
          BY <1>1, <3>2, <4>1, <5>1
      <4>2. CASE D[r].ino # i
        <5>1. U[D[r].ino] = T[D[r].ino]
          BY <1>1, <2>1, <3>2, <4>2
        <5> QED
          BY <2>1, <3>2, <5>1 DEF GoodFile, Apart
      <4> QED
        BY <4>1, <4>2
    <3>3. Apart(U, D, T[D[s].ino], D[s].ino)
      BY <3>2 DEF Apart
    <3> QED
      BY <2>1, <3>1, <3>3 DEF GoodFile
  <2> QED
    BY <2>2, <2>3
<1>3. Sound(I, B, U, D)
  BY <1>2 DEF Sound
<1> QED
  BY <1>3 DEF U

(* One entry changes. *)
OneEntry(D, E, s, e) == \A r \in Slot : E[r] = IF r = s THEN e ELSE D[r]

(* It is added, for an inode that has none. *)
LEMMA SoundEnters ==
  ASSUME NEW I, NEW B, NEW T, NEW D, Sound(I, B, T, D), NEW E, NEW s \in Slot, NEW e, OneEntry(D, E, s, e),
         ~Named(D, s), e.ino \in 2..MaxIno, e.ino \in I, \A r \in Slot : D[r].ino # e.ino,
         T[e.ino].mode = "FILE", Holds(T[e.ino], B), Reaches(T[e.ino], T[e.ino].size),
         Apart(T, D, T[e.ino], e.ino)
  PROVE  Sound(I, B, T, E)
<1>1. \A r \in Slot : E[r] = IF r = s THEN e ELSE D[r]
  BY DEF OneEntry
<1>2. \A r \in Slot : Named(E, r) => r = s \/ (Named(D, r) /\ r # s /\ E[r] = D[r])
  BY <1>1 DEF Named
<1>3. ASSUME NEW r \in Slot, Named(E, r) PROVE GoodFile(I, B, T, E, r)
  <2>1. CASE r = s
    <3>1. Apart(T, E, T[e.ino], e.ino)
      BY <1>1 DEF Apart, Named
    <3> QED
      BY <1>1, <2>1, <3>1 DEF GoodFile
  <2>2. CASE r # s
    <3>1. GoodFile(I, B, T, D, r) /\ E[r] = D[r] /\ Named(D, r)
      BY <1>2, <1>3, <2>2 DEF Sound
    <3>2. ASSUME NEW q \in Slot, Named(E, q), E[q].ino # D[r].ino, NEW j \in 1..Direct, NEW k \in 1..Direct,
                 T[D[r].ino].direct[j] # 0
          PROVE  T[D[r].ino].direct[j] # T[E[q].ino].direct[k]
      <4>1. CASE q = s
        <5>1. T[e.ino].direct[k] # 0 => T[e.ino].direct[k] # T[D[r].ino].direct[j]
          BY <3>1 DEF Apart
        <5> QED
          BY <1>1, <3>2, <4>1, <5>1
      <4>2. CASE q # s
        <5>1. Named(D, q) /\ E[q] = D[q]
          BY <1>2, <3>2, <4>2
        <5> QED
          BY <3>1, <3>2, <5>1 DEF GoodFile, Apart
      <4> QED
        BY <4>1, <4>2
    <3>3. Apart(T, E, T[D[r].ino], D[r].ino)
      BY <3>2 DEF Apart
    <3> QED
      BY <3>1, <3>3 DEF GoodFile
  <2> QED
    BY <2>1, <2>2
<1>4. \A q, r \in Slot : Named(E, q) /\ E[q].ino = E[r].ino => q = r
  BY <1>1, <1>2 DEF Sound, Named
<1> QED
  BY <1>3, <1>4 DEF Sound

(* It is removed. *)
LEMMA SoundRemoves ==
  ASSUME NEW I, NEW B, NEW T, NEW D, Sound(I, B, T, D), NEW E, NEW s \in Slot, OneEntry(D, E, s, FreeDirent),
         NEW n, NEW i, Apart(T, D, n, i)
  PROVE  Sound(I, B, T, E) /\ Apart(T, E, n, i)
<1>1. \A r \in Slot : Named(E, r) => Named(D, r) /\ r # s /\ E[r] = D[r]
  BY Constants DEF OneEntry, Named
<1>2. \A m, k : Apart(T, D, m, k) => Apart(T, E, m, k)
  BY <1>1 DEF Apart
<1>3. ASSUME NEW r \in Slot, Named(E, r) PROVE GoodFile(I, B, T, E, r)
  BY <1>1, <1>2, <1>3 DEF Sound, GoodFile
<1>4. \A q, r \in Slot : Named(E, q) /\ E[q].ino = E[r].ino => q = r
  <2> SUFFICES ASSUME NEW q \in Slot, NEW r \in Slot, Named(E, q), E[q].ino = E[r].ino PROVE q = r
    OBVIOUS
  <2>1. Named(E, r)
    BY DEF Named
  <2> QED
    BY <1>1, <2>1 DEF Sound
<1> QED
  BY <1>2, <1>3, <1>4 DEF Sound

-----------------------------------------------------------------------------
(* Exactness of the bitmaps. *)

(* Inodes no entry names do not matter to it. *)
LEMMA ExactSame ==
  ASSUME NEW I, NEW B, NEW T, NEW U, NEW D, NEW X, NEW Y, SameFiles(T, U, D), Exact(I, B, T, D, X, Y)
  PROVE  Exact(I, B, U, D, X, Y)
BY DEF SameFiles, Exact

(* An inode is marked, or a mark without an entry is taken back. *)
LEMMA ExactInode ==
  ASSUME NEW I, NEW B, NEW T, NEW D, NEW Y, NEW i \in 2..MaxIno
  PROVE  /\ Exact(I, B, T, D, {}, Y) => Exact(I \cup {i}, B, T, D, {i}, Y)
         /\ Exact(I, B, T, D, {i}, Y) /\ (\A s \in Slot : D[s].ino # i) => Exact(I \ {i}, B, T, D, {}, Y)
<1>1. i \notin {0, RootIno}
  BY DEF RootIno
<1> QED
  BY <1>1 DEF Exact

(* Blocks are marked. *)
LEMMA ExactBlocks ==
  ASSUME NEW I, NEW B, NEW T, NEW D, NEW X, NEW Y, NEW Z, Exact(I, B, T, D, X, Y)
  PROVE  Exact(I, B \cup Z, T, D, X, Y \cup Z)
BY DEF Exact

(* Blocks without an entry are given back. *)
LEMMA ExactFree ==
  ASSUME NEW I, NEW B, NEW T, NEW D, NEW X, NEW n, Exact(I, B, T, D, X, BlocksIn(n)),
         NEW i, \A s \in Slot : D[s].ino # i, Apart(T, D, n, i), Holds(n, B)
  PROVE  Exact(I, B \ BlocksIn(n), T, D, X, {})
<1>1. \A b \in MetaLba : b \notin BlocksIn(n)
  BY Addresses DEF BlocksIn, Holds
<1>2. \A s \in Slot : Named(D, s) => \A b \in BlocksIn(T[D[s].ino]) : b \notin BlocksIn(n)
  BY DEF Apart, BlocksIn
<1> HIDE DEF BlocksIn
<1> QED
  BY <1>1, <1>2 DEF Exact

(* An entry is added. *)
LEMMA ExactEnters ==
  ASSUME NEW I, NEW B, NEW T, NEW D, NEW E, NEW s \in Slot, NEW e, OneEntry(D, E, s, e), ~Named(D, s),
         e.ino # 0, Exact(I, B, T, D, {e.ino}, BlocksIn(T[e.ino]))
  PROVE  Exact(I, B, T, E, {}, {})
<1>1. \A r \in Slot : E[r] = IF r = s THEN e ELSE D[r]
  BY DEF OneEntry
<1>2. Named(E, s) /\ E[s] = e /\ \A r \in Slot : Named(D, r) => Named(E, r) /\ E[r] = D[r]
  BY <1>1 DEF Named
<1>3. \A r \in Slot : Named(E, r) => r = s \/ (Named(D, r) /\ E[r] = D[r])
  BY <1>1 DEF Named
<1> QED
  BY <1>2, <1>3 DEF Exact

(* An entry is removed. *)
LEMMA ExactRemoves ==
  ASSUME NEW I, NEW B, NEW T, NEW D, NEW E, NEW s \in Slot, OneEntry(D, E, s, FreeDirent), Named(D, s),
         Exact(I, B, T, D, {}, {})
  PROVE  Exact(I, B, T, E, {D[s].ino}, BlocksIn(T[D[s].ino]))
<1>1. \A r \in Slot : E[r] = IF r = s THEN FreeDirent ELSE D[r]
  BY DEF OneEntry
<1>2. \A r \in Slot : Named(E, r) => Named(D, r) /\ E[r] = D[r]
  BY <1>1, Constants DEF Named
<1>3. \A r \in Slot : Named(D, r) => r = s \/ (Named(E, r) /\ E[r] = D[r])
  BY <1>1 DEF Named
<1> QED
  BY <1>2, <1>3 DEF Exact

(* The blocks of a file in use are marked for it. *)
LEMMA ExactHeld ==
  ASSUME NEW I, NEW B, NEW T, NEW D, NEW s \in Slot, Named(D, s), Exact(I, B, T, D, {}, {})
  PROVE  Exact(I, B, T, D, {}, BlocksIn(T[D[s].ino]))
BY DEF Exact

(* A file takes over the blocks allocated for it. *)
LEMMA ExactRewrites ==
  ASSUME NEW I, NEW B, NEW T \in [Ino -> Inode], NEW D, Sound(I, B, T, D), NEW s \in Slot, Named(D, s), NEW n,
         Exact(I, B, T, D, {}, BlocksIn(n)),
         \A j \in 1..Direct : T[D[s].ino].direct[j] # 0 => n.direct[j] = T[D[s].ino].direct[j]
  PROVE  Exact(I, B, [T EXCEPT ![D[s].ino] = n], D, {}, {})
<1> DEFINE U == [T EXCEPT ![D[s].ino] = n]
<1>1. \A r \in Slot : Named(D, r) => D[r].ino \in Ino
  BY Numbers DEF Sound, GoodFile, Ino
<1>2. U[D[s].ino] = n /\ \A r \in Slot : Named(D, r) => (U[D[r].ino] = IF D[r].ino = D[s].ino THEN n ELSE T[D[r].ino])
  BY <1>1
<1> HIDE DEF U
<1>3. BlocksIn(T[D[s].ino]) \subseteq BlocksIn(n)
  BY DEF BlocksIn
<1>4. Exact(I, B, U, D, {}, {})
  BY <1>2, <1>3 DEF Exact
<1> QED
  BY <1>4 DEF U

-----------------------------------------------------------------------------
(* The invariant. *)

CallPcs == CreatePcs \cup WritePcs \cup UnlinkPcs
FormatPcs == {"zero", "format_super", "format_ib", "format_bb", "format_root"}

(* The positions are all different. *)
LEMMA Positions ==
  /\ "idle" \notin CallPcs /\ "idle" \notin FormatPcs /\ CallPcs \cap FormatPcs = {}
  /\ CreatePcs \cap WritePcs = {} /\ CreatePcs \cap UnlinkPcs = {} /\ WritePcs \cap UnlinkPcs = {}
  /\ Pcs = {"idle"} \cup FormatPcs \cup CallPcs
BY DEF CallPcs, FormatPcs, Pcs, CreatePcs, WritePcs, UnlinkPcs

(* A call runs on a mounted, sound disk. *)
LEMMA CallFacts ==
  ASSUME FsInv, pc \in CallPcs
  PROVE  /\ mounted /\ super /\ table[RootIno] = RootInode /\ Types
         /\ Sound(ib, bb, table, dir)
         /\ ~lossy => Exact(ib, bb, table, dir, ExtraInos, ExtraBlocks)
<1>1. mounted
  BY DEF FsInv, InCall, CallPcs
<1> QED
  BY <1>1 DEF FsInv, Mountable

(* A step inside a call, or its last. *)
LEMMA Advance ==
  ASSUME FsInv, pc \in CallPcs, pc' \in CallPcs \cup {"idle"}, mounted' = mounted, lossy' = lossy, super' = super,
         Types', table'[RootIno] = table[RootIno],
         pc' \in CreatePcs => Creating', pc' \in WritePcs => Writing', pc' \in UnlinkPcs => Unlinking',
         Sound(ib', bb', table', dir'),
         ~lossy => Exact(ib', bb', table', dir', ExtraInos', ExtraBlocks')
  PROVE  FsInv'
<1>1. mounted /\ super /\ table[RootIno] = RootInode
  BY CallFacts
<1>2. Mountable' /\ mounted'
  BY <1>1 DEF Mountable
<1>3. pc' \notin FormatPcs /\ pc' \in Pcs
  BY Positions
<1>4. Formatting'
  BY <1>3 DEF Formatting, FormatPcs
<1>5. InCall'
  BY <1>2 DEF InCall
<1> QED
  BY <1>2, <1>3, <1>4, <1>5 DEF FsInv, FormatPcs

(* A call is cut short, by an error or a power loss, or nothing runs. *)
LEMMA CutShort ==
  ASSUME FsInv, UNCHANGED disk, pc' = "idle", op' = NoOp, DOMAIN expect' = Names,
         mounted' = mounted \/ mounted' = FALSE,
         lossy' = TRUE \/ (pc = "idle" /\ lossy' = lossy)
  PROVE  FsInv'
<1>1. Types'
  BY Constants DEF FsInv, Types, disk
<1>2. /\ (Mountable' <=> Mountable) /\ ib' = ib /\ bb' = bb /\ table' = table /\ dir' = dir
      /\ (mounted' => mounted)
  BY DEF FsInv, Types, disk, Mountable
<1>3. pc' \notin CallPcs /\ pc' \notin FormatPcs /\ pc' \in Pcs
  BY Positions
<1>4. Formatting' /\ InCall'
  BY <1>3 DEF Formatting, InCall, FormatPcs, CallPcs
<1>5. ExtraInos' = {} /\ ExtraBlocks' = {}
  BY DEF ExtraInos, ExtraBlocks
<1>6. pc = "idle" => ExtraInos = {} /\ ExtraBlocks = {}
  BY DEF ExtraInos, ExtraBlocks
<1> QED
  BY <1>1, <1>2, <1>3, <1>4, <1>5, <1>6 DEF FsInv, FormatPcs

(* It holds at the start. *)
LEMMA InitFs == Init => FsInv
<1> SUFFICES ASSUME Init PROVE FsInv
  OBVIOUS
<1>1. Types
  <2>1. dir \in [Slot -> [ino : 0..MaxIno, name : Names \cup {NoName}]] /\ table \in [Ino -> Inode]
    BY Constants DEF Init
  <2> QED
    BY <2>1, Constants DEF Init, Types
<1>2. ~Mountable /\ ~mounted /\ pc = "idle"
  BY DEF Init, Mountable
<1>3. pc \notin CallPcs /\ pc \notin FormatPcs /\ pc \in Pcs
  BY <1>2, Positions
<1> QED
  BY <1>1, <1>2, <1>3 DEF FsInv, Formatting, InCall, FormatPcs, CallPcs

(* Calls that start set out on a sound disk. *)
LEMMA Begins ==
  ASSUME FsInv, Ready, NEW p \in {"create_ib", "alloc", "unlink_dirent"}, NEW o \in Op, Start(p, o),
         p = "create_ib" => Creating', p = "alloc" => Writing', p = "unlink_dirent" => Unlinking',
         p = "alloc" => \E s \in Slot : Named(dir, s) /\ o.inode = table[dir[s].ino]
  PROVE  FsInv'
<1>1. /\ pc = "idle" /\ mounted /\ pc' = p /\ op' = o /\ UNCHANGED disk
      /\ mounted' = mounted /\ lossy' = lossy /\ expect' = expect
  BY DEF Ready, Start, disk
<1>2. Types' /\ ib' = ib /\ bb' = bb /\ table' = table /\ dir' = dir
  BY <1>1 DEF FsInv, Types, disk
<1>3. Mountable /\ Mountable' /\ Sound(ib, bb, table, dir)
  BY <1>1 DEF FsInv, Mountable, disk
<1>4. pc' \in Pcs /\ pc' \notin FormatPcs
  BY <1>1 DEF Pcs, CreatePcs, WritePcs, UnlinkPcs, FormatPcs
<1>5. Formatting'
  BY <1>4 DEF Formatting, FormatPcs
<1>6. InCall'
  BY <1>1 DEF InCall, CreatePcs, WritePcs, UnlinkPcs
<1>7. ASSUME ~lossy PROVE Exact(ib, bb, table, dir, ExtraInos', ExtraBlocks')
  <2>1. Exact(ib, bb, table, dir, {}, {})
    <3>1. ExtraInos = {} /\ ExtraBlocks = {}
      BY <1>1 DEF ExtraInos, ExtraBlocks
    <3> QED
      BY <1>3, <1>7, <3>1 DEF FsInv
  <2>2. CASE p = "alloc"
    <3>1. PICK s \in Slot : Named(dir, s) /\ o.inode = table[dir[s].ino]
      BY <2>2
    <3>2. ExtraInos' = {} /\ ExtraBlocks' = BlocksIn(table[dir[s].ino])
      BY <1>1, <2>2, <3>1 DEF ExtraInos, ExtraBlocks
    <3> QED
      BY <2>1, <3>1, <3>2, ExactHeld
  <2>3. CASE p # "alloc"
    <3>1. ExtraInos' = {} /\ ExtraBlocks' = {}
      BY <1>1, <2>3 DEF ExtraInos, ExtraBlocks
    <3> QED
      BY <2>1, <3>1
  <2> QED
    BY <2>2, <2>3
<1> QED
  BY <1>1, <1>2, <1>3, <1>4, <1>5, <1>6, <1>7 DEF FsInv, FormatPcs

(* Format, up to its last write, leaves no disk to mount. *)
LEMMA Formats ==
  ASSUME FsInv, pc' \in FormatPcs, mounted' = FALSE, Types', Formatting', ~Mountable'
  PROVE  FsInv'
<1>1. pc' \in Pcs /\ pc' \notin CallPcs
  BY Positions
<1>2. InCall'
  BY <1>1 DEF InCall, CallPcs
<1> QED
  BY <1>1, <1>2 DEF FsInv

(* mcsfs1_format starts. *)
LEMMA CallFormatFs == ASSUME FsInv, CallFormat PROVE FsInv'
<1>1. /\ pc = "idle" /\ pc' = "zero" /\ op' = NoOp /\ mounted' = FALSE /\ lossy' = lossy
      /\ ib' = ib /\ bb' = bb /\ table' = table /\ dir' = dir /\ super' = super /\ data' = data
      /\ DOMAIN expect' = Names
  BY DEF CallFormat
<1>2. Types'
  BY <1>1, Constants DEF FsInv, Types
<1>3. op'.i = 0 /\ 0 \in 0..LastBlk
  BY <1>1, Constants, Numbers
<1>4. pc' \in Pcs /\ pc' \notin CallPcs
  BY <1>1 DEF Pcs, CallPcs, CreatePcs, WritePcs, UnlinkPcs
<1>5. Formatting' /\ InCall'
  <2>1. ~(op'.i > 0) /\ ~(op'.i > 3) /\ ~(op'.i > RootDirLba)
    BY <1>3 DEF RootDirLba
  <2> QED
    BY <1>1, <1>3, <1>4, <2>1 DEF Formatting, InCall, CallPcs
<1>6. ExtraInos = {} /\ ExtraBlocks = {} /\ ExtraInos' = {} /\ ExtraBlocks' = {}
  BY <1>1 DEF ExtraInos, ExtraBlocks
<1>7. Mountable' <=> Mountable
  BY <1>1 DEF Mountable
<1> QED
  BY <1>1, <1>2, <1>4, <1>5, <1>6, <1>7 DEF FsInv

(* It zeroes a block. *)
LEMMA ZeroBlockFs == ASSUME FsInv, ZeroBlock PROVE FsInv'
<1>1. /\ pc = "zero" /\ pc' = (IF op.i = LastBlk THEN "format_super" ELSE "zero")
      /\ mounted' = mounted /\ expect' = expect /\ lossy' = lossy
      /\ op' = [op EXCEPT !.i = @ + 1]
      /\ super' = (IF op.i = 0 THEN FALSE ELSE super)
      /\ ib' = (IF op.i = 1 THEN {} ELSE ib)
      /\ bb' = (IF op.i = 2 THEN {} ELSE bb)
      /\ table' = (IF op.i = 3 THEN [i \in Ino |-> FreeInode] ELSE table)
      /\ dir' = (IF op.i = RootDirLba THEN [s \in Slot |-> FreeDirent] ELSE dir)
      /\ data' = (IF op.i \in DataLba THEN [data EXCEPT ![op.i] = Zero] ELSE data)
  BY DEF ZeroBlock, At
<1>2. ~mounted /\ op.i \in 0..LastBlk /\ (op.i > 0 => ~super) /\ (op.i > 3 => NoInodes)
      /\ (op.i > RootDirLba => NoEntries) /\ op \in Op /\ Types
  BY <1>1 DEF FsInv, Formatting, Types
<1>3. op' \in Op /\ op'.i = op.i + 1
  BY <1>1, <1>2, Numbers DEF Op
<1>4. Types'
  <2>1. table' \in [Ino -> Inode]
    BY <1>1, <1>2, Constants DEF Types
  <2>2. dir' \in [Slot -> [ino : 0..MaxIno, name : Names \cup {NoName}]]
    BY <1>1, <1>2, Constants DEF Types
  <2>3. DOMAIN data' = DataLba
    BY <1>1, <1>2 DEF Types
  <2> QED
    BY <1>1, <1>2, <1>3, <2>1, <2>2, <2>3 DEF Types
<1>5. super' = FALSE /\ ~Mountable'
  BY <1>1, <1>2, Numbers DEF Mountable, Types
<1>6. op.i >= 3 => NoInodes'
  <2>1. op.i = 3 \/ (op.i > 3 /\ table' = table) \/ op.i < 3
    BY <1>1, <1>2, Numbers
  <2> QED
    BY <1>1, <1>2, <2>1 DEF NoInodes
<1>7. op.i >= RootDirLba => NoEntries'
  <2>1. op.i = RootDirLba \/ (op.i > RootDirLba /\ dir' = dir) \/ op.i < RootDirLba
    BY <1>1, <1>2, Numbers DEF RootDirLba
  <2>2. CASE op.i = RootDirLba
    BY <1>1, <2>2, Constants DEF NoEntries, Named
  <2>3. CASE op.i > RootDirLba /\ dir' = dir
    BY <1>2, <2>3 DEF NoEntries
  <2>4. CASE op.i < RootDirLba
    BY <1>2, <2>4, Numbers DEF RootDirLba
  <2> QED
    BY <2>1, <2>2, <2>3, <2>4
<1>8. Formatting'
  <2>1. CASE op.i = LastBlk
    <3>1. NoInodes' /\ NoEntries' /\ pc' = "format_super"
      BY <1>1, <1>6, <1>7, <2>1, Numbers DEF RootDirLba
    <3> QED
      BY <1>5, <3>1 DEF Formatting
  <2>2. CASE op.i # LastBlk
    <3>1. /\ pc' = "zero" /\ op'.i \in 0..LastBlk
          /\ (op'.i > 3 => NoInodes') /\ (op'.i > RootDirLba => NoEntries')
      BY <1>1, <1>2, <1>3, <1>6, <1>7, <2>2, Numbers DEF RootDirLba
    <3> QED
      BY <1>5, <3>1 DEF Formatting
  <2> QED
    BY <2>1, <2>2
<1>9. pc' \in FormatPcs
  BY <1>1 DEF FormatPcs
<1> QED
  <2>1. mounted' = FALSE
    BY <1>1, <1>2 DEF Types
  <2> QED
    BY <1>4, <1>5, <1>8, <1>9, <2>1, Formats

(* A disk without inodes has no root. *)
LEMMA NoRoot == ASSUME NoInodes PROVE ~Mountable /\ table[RootIno] # RootInode
<1>1. table[RootIno] = FreeInode
  BY Numbers DEF NoInodes, RootIno, Ino
<1> QED
  BY <1>1, Constants DEF Mountable

(* It writes the superblock and the bitmaps. *)
LEMMA FormatMetaFs ==
  ASSUME FsInv, FormatSuper \/ FormatInodeBitmap \/ FormatBlockBitmap
  PROVE  FsInv'
<1>1. /\ pc \in {"format_super", "format_ib", "format_bb"}
      /\ pc' \in {"format_ib", "format_bb", "format_root"} /\ (pc' = "format_ib" <=> pc = "format_super")
      /\ (pc' = "format_bb" <=> pc = "format_ib") /\ (pc' = "format_root" <=> pc = "format_bb")
      /\ mounted' = mounted /\ table' = table /\ dir' = dir /\ data' = data /\ op' = op
      /\ expect' = expect /\ lossy' = lossy
  BY DEF FormatSuper, FormatInodeBitmap, FormatBlockBitmap, At
<1>2. Types /\ ~mounted /\ NoInodes /\ NoEntries /\ (pc = "format_bb" => ib = {0, RootIno})
  BY <1>1 DEF FsInv, Formatting
<1>3. NoInodes' /\ NoEntries'
  BY <1>1, <1>2 DEF NoInodes, NoEntries, Named
<1>4. ~Mountable'
  <2>1. table[RootIno] # RootInode
    BY <1>2, NoRoot
  <2> QED
    BY <1>1, <2>1 DEF Mountable
<1>5. {0, RootIno} \subseteq 0..MaxIno /\ MetaLba \subseteq Lba
  BY Numbers, Addresses DEF RootIno
<1>6. Types'
  BY <1>1, <1>2, <1>5 DEF Types, FormatSuper, FormatInodeBitmap, FormatBlockBitmap
<1>7. /\ (pc' \in {"format_bb", "format_root"} => ib' = {0, RootIno})
      /\ (pc' = "format_root" => bb' = MetaLba)
  BY <1>1, <1>2 DEF FormatSuper, FormatInodeBitmap, FormatBlockBitmap, At
<1>8. super' = TRUE
  BY <1>1, <1>2 DEF FsInv, Formatting, Types, FormatSuper, FormatInodeBitmap, FormatBlockBitmap, At
<1>9. Formatting'
  BY <1>1, <1>3, <1>7, <1>8 DEF Formatting
<1>10. pc' \in FormatPcs /\ mounted' = FALSE
  BY <1>1, <1>2 DEF FormatPcs, Types
<1> QED
  BY <1>4, <1>6, <1>9, <1>10, Formats

(* Its last write, the root inode, makes an empty file system. *)
LEMMA FormatRootFs == ASSUME FsInv, FormatRoot PROVE FsInv'
<1>1. /\ pc = "format_root" /\ pc' = "idle" /\ op' = NoOp /\ mounted' = mounted /\ lossy' = FALSE
      /\ ib' = ib /\ bb' = bb /\ dir' = dir /\ super' = super /\ data' = data
      /\ DOMAIN expect' = Names /\ table' = [table EXCEPT ![RootIno] = RootInode]
  BY DEF FormatRoot, Last
<1>2. Types /\ ~mounted /\ NoEntries /\ ib = {0, RootIno} /\ bb = MetaLba /\ super
  BY <1>1 DEF FsInv, Formatting
<1>3. Types'
  BY <1>1, <1>2, Constants DEF Types
<1>4. pc' \notin CallPcs /\ pc' \notin FormatPcs /\ pc' \in Pcs
  BY <1>1, Positions
<1>5. Formatting' /\ InCall'
  BY <1>4 DEF Formatting, InCall, FormatPcs, CallPcs
<1>6. ExtraInos' = {} /\ ExtraBlocks' = {}
  BY <1>1 DEF ExtraInos, ExtraBlocks
<1>7. Sound(ib', bb', table', dir')
  BY <1>1, <1>2 DEF Sound, NoEntries
<1>8. Exact(ib', bb', table', dir', {}, {})
  BY <1>1, <1>2 DEF Exact, NoEntries
<1> QED
  BY <1>1, <1>2, <1>3, <1>4, <1>5, <1>6, <1>7, <1>8 DEF FsInv, FormatPcs

(* mcsfs1_mount *)
LEMMA MountFs == ASSUME FsInv, Mount PROVE FsInv'
<1>1. /\ pc = "idle" /\ pc' = "idle" /\ op' = op /\ mounted' = TRUE /\ lossy' = lossy
      /\ ib' = ib /\ bb' = bb /\ table' = table /\ dir' = dir /\ super' = super /\ data' = data
      /\ expect' = expect /\ Mountable
  BY DEF Mount
<1>2. Types'
  BY <1>1 DEF FsInv, Types
<1>4. pc' \notin CallPcs /\ pc' \notin FormatPcs /\ pc' \in Pcs
  BY <1>1, Positions
<1>5. Formatting' /\ InCall'
  BY <1>4 DEF Formatting, InCall, FormatPcs, CallPcs
<1>6. ExtraInos = {} /\ ExtraBlocks = {} /\ ExtraInos' = {} /\ ExtraBlocks' = {}
  BY <1>1 DEF ExtraInos, ExtraBlocks
<1>7. Mountable'
  BY <1>1 DEF Mountable
<1> QED
  BY <1>1, <1>2, <1>4, <1>5, <1>6, <1>7 DEF FsInv, FormatPcs

-----------------------------------------------------------------------------
(* The calls. *)

(* A new inode takes a block that is not marked. *)
LEMMA NewApart ==
  ASSUME NEW I, NEW B, NEW T, NEW D, Sound(I, B, T, D), NEW b \in DataLba, b \notin B, NEW i
  PROVE  Apart(T, D, NewInode(b), i)
<1>1. \A s \in Slot : Named(D, s) => \A k \in 1..Direct : T[D[s].ino].direct[k] # b
  BY NewIs DEF Sound, GoodFile, Holds
<1>2. \A j \in 1..Direct : NewInode(b).direct[j] # 0 => NewInode(b).direct[j] = b
  BY NewIs
<1> QED
  BY <1>1, <1>2 DEF Apart

(* The locals of create and unlink, and of write. *)
EntryOp(n, s, i, m) == [NoOp EXCEPT !.name = n, !.slot = s, !.ino = i, !.inode = m]
WriteOp(n, i, m, c) == [NoOp EXCEPT !.name = n, !.ino = i, !.inode = m, !.content = c, !.i = 1]

(* They are what they should be. *)
LEMMA EntryOpIs ==
  ASSUME NEW n \in Names, NEW s \in Slot, NEW i \in 0..MaxIno, NEW m \in Inode
  PROVE  /\ EntryOp(n, s, i, m) \in Op /\ EntryOp(n, s, i, m).name = n /\ EntryOp(n, s, i, m).slot = s
         /\ EntryOp(n, s, i, m).ino = i /\ EntryOp(n, s, i, m).inode = m
<1>1. n \in Names \cup {NoName} /\ NoOp \in Op
  BY Constants
<1>2. EntryOp(n, s, i, m) \in Op
  BY <1>1, Zenon DEF Op, EntryOp
<1> QED
  BY <1>2 DEF NoOp, EntryOp

(* They are what they should be. *)
LEMMA WriteOpIs ==
  ASSUME NEW n \in Names, NEW i \in 0..MaxIno, NEW m \in Inode, NEW c \in Contents
  PROVE  /\ WriteOp(n, i, m, c) \in Op /\ WriteOp(n, i, m, c).name = n /\ WriteOp(n, i, m, c).ino = i
         /\ WriteOp(n, i, m, c).inode = m /\ WriteOp(n, i, m, c).content = c /\ WriteOp(n, i, m, c).i = 1
<1>1. n \in Names \cup {NoName} /\ c \in Contents \cup {<<>>} /\ 1 \in Nat /\ NoOp \in Op
  BY Constants
<1>2. WriteOp(n, i, m, c) \in Op
  BY <1>1, Zenon DEF Op, WriteOp
<1> QED
  BY <1>2 DEF NoOp, WriteOp

(* mcsfs1_create *)
LEMMA CallCreateFs == ASSUME FsInv, NEW n \in Names, NEW z \in BOOLEAN, CallCreate(n, z) PROVE FsInv'
<1> DEFINE s == Min(FreeSlots)
           i == Min(FreeInos)
           b == Min(FreeBlks)
           o == EntryOp(n, s, i, NewInode(b))
<1>1. Ready /\ FreeSlots # {} /\ FreeInos # {} /\ FreeBlks # {} /\ Start("create_ib", o)
  BY DEF CallCreate, EntryOp
<1>2. s \in Slot /\ dir[s].ino = 0
  <2>1. FreeSlots \subseteq Nat
    BY DEF FreeSlots, Slot
  <2>2. s \in FreeSlots
    BY <1>1, <2>1, MinIs
  <2> QED
    BY <2>2 DEF FreeSlots
<1>3. i \in 2..MaxIno /\ i \notin ib
  <2>1. FreeInos \subseteq Nat
    BY DEF FreeInos, Ino
  <2>2. i \in FreeInos
    BY <1>1, <2>1, MinIs
  <2>3. i \in Ino /\ i >= 2 /\ i \notin ib
    BY <2>2 DEF FreeInos
  <2> QED
    BY <2>3, Numbers DEF Ino
<1>4. b \in DataLba /\ b \notin bb
  <2>1. FreeBlks \subseteq Nat
    BY Addresses DEF FreeBlks
  <2>2. b \in FreeBlks
    BY <1>1, <2>1, MinIs
  <2> QED
    BY <2>2 DEF FreeBlks
<1> HIDE DEF s, i, b
<1>5. Mountable /\ Sound(ib, bb, table, dir) /\ Types
  BY <1>1 DEF Ready, FsInv
<1>6. \A r \in Slot : dir[r].ino # i
  <2>1. \A r \in Slot : dir[r].ino # 0 => dir[r].ino \in ib
    BY <1>5 DEF Sound, GoodFile, Named
  <2> QED
    BY <1>3, <2>1
<1>7. Apart(table, dir, NewInode(b), i)
  BY <1>4, <1>5, NewApart
<1>8. i \in 0..MaxIno /\ NewInode(b) \in Inode
  BY <1>3, <1>4, NewIs, Numbers
<1>9. o \in Op /\ o.name = n /\ o.slot = s /\ o.ino = i /\ o.inode = NewInode(b)
  BY <1>2, <1>8, EntryOpIs
<1> HIDE DEF o
<1>10. /\ op' = o /\ pc' = "create_ib" /\ dir' = dir /\ table' = table /\ ib' = ib /\ bb' = bb
  BY <1>1 DEF Start
<1>11. Creating'
  <2>1. Apart(table', dir', op'.inode, op'.ino)
    BY <1>7, <1>9, <1>10
  <2>2. ~Named(dir, op'.slot)
    BY <1>2, <1>9, <1>10 DEF Named
  <2> QED
    BY <1>3, <1>4, <1>6, <1>9, <1>10, <2>1, <2>2 DEF Creating, Named
<1> QED
  BY <1>1, <1>9, <1>11, Begins

(* mcsfs1_write *)
LEMMA CallWriteFs ==
  ASSUME FsInv, NEW n \in Names, NEW c \in Contents, NEW z \in BOOLEAN, CallWrite(n, c, z)
  PROVE  FsInv'
<1>1. PICK s \in Slot : Ready /\ dir[s].ino # 0 /\ dir[s].name = n
         /\ Start("alloc", WriteOp(n, dir[s].ino, table[dir[s].ino], c))
  BY DEF CallWrite, WriteOp, FindDirent, Matches
<1> DEFINE o == WriteOp(n, dir[s].ino, table[dir[s].ino], c)
<1>2. Mountable /\ Sound(ib, bb, table, dir) /\ Types
  BY <1>1 DEF Ready, FsInv
<1>3. GoodFile(ib, bb, table, dir, s)
  BY <1>1, <1>2 DEF Sound, Named
<1>4. dir[s].ino \in 2..MaxIno /\ dir[s].ino \in Ino /\ dir[s].ino \in 0..MaxIno /\ 1 \in Slot
  BY <1>3, Numbers DEF GoodFile, Ino, Slot
<1>5. table[dir[s].ino] \in Inode
  BY <1>2, <1>4 DEF Types
<1>6. o \in Op /\ o.name = n /\ o.ino = dir[s].ino /\ o.inode = table[dir[s].ino] /\ o.content = c /\ o.i = 1
  BY <1>4, <1>5, WriteOpIs
<1>7. /\ op' = o /\ pc' = "alloc" /\ dir' = dir /\ table' = table /\ ib' = ib /\ bb' = bb
      /\ Start("alloc", o)
  BY <1>1 DEF Start
<1> HIDE DEF o
<1>8. Writing'
  <2>1. Holds(op'.inode, bb') /\ Apart(table', dir', op'.inode, op'.ino) /\ op'.inode.mode = "FILE"
    BY <1>3, <1>6, <1>7 DEF GoodFile
  <2>2. 1 \in 1..(BlocksNeeded(Len(c)) + 1) /\ 1..(1 - 1) = {}
    <3>1. Len(c) \in Nat
      BY Mcsfs1Assumption
    <3> QED
      BY <3>1 DEF BlocksNeeded
  <2> QED
    BY <1>1, <1>4, <1>6, <1>7, <2>1, <2>2 DEF Writing, Len0
<1> QED
  BY <1>1, <1>6, <1>7, <1>8, Begins DEF Named

(* mcsfs1_unlink *)
LEMMA CallUnlinkFs == ASSUME FsInv, NEW n \in Names, NEW z \in BOOLEAN, CallUnlink(n, z) PROVE FsInv'
<1>1. PICK s \in Slot : Ready /\ dir[s].ino # 0 /\ dir[s].name = n
         /\ Start("unlink_dirent", EntryOp(n, s, dir[s].ino, table[dir[s].ino]))
  BY DEF CallUnlink, EntryOp, FindDirent, Matches
<1> DEFINE o == EntryOp(n, s, dir[s].ino, table[dir[s].ino])
<1>2. Mountable /\ Sound(ib, bb, table, dir) /\ Types
  BY <1>1 DEF Ready, FsInv
<1>3. GoodFile(ib, bb, table, dir, s)
  BY <1>1, <1>2 DEF Sound, Named
<1>4. dir[s].ino \in 2..MaxIno /\ dir[s].ino \in Ino /\ dir[s].ino \in 0..MaxIno
  BY <1>3, Numbers DEF GoodFile, Ino
<1>5. table[dir[s].ino] \in Inode
  BY <1>2, <1>4 DEF Types
<1>6. o \in Op /\ o.name = n /\ o.slot = s /\ o.ino = dir[s].ino /\ o.inode = table[dir[s].ino]
  BY <1>4, <1>5, EntryOpIs
<1>7. /\ op' = o /\ pc' = "unlink_dirent" /\ dir' = dir /\ table' = table /\ ib' = ib /\ bb' = bb
      /\ Start("unlink_dirent", o)
  BY <1>1 DEF Start
<1> HIDE DEF o
<1>8. Unlinking'
  BY <1>4, <1>6, <1>7 DEF Unlinking
<1> QED
  BY <1>1, <1>6, <1>7, <1>8, Begins

-----------------------------------------------------------------------------
(* The writes of mcsfs1_create. *)

(* What a new inode holds. *)
LEMMA NewHolds ==
  ASSUME NEW b \in DataLba, NEW B
  PROVE  /\ BlocksIn(NewInode(b)) = {b} /\ Reaches(NewInode(b), NewInode(b).size)
         /\ b \in B => Holds(NewInode(b), B)
<1>1. \A j \in 1..Direct : NewInode(b).direct[j] = IF j = 1 THEN b ELSE 0
  BY NewIs
<1>2. b # 0 /\ 1 \in 1..Direct /\ NewInode(b).size = 0
  BY NewIs, Numbers
<1>3. BlocksIn(NewInode(b)) = {b}
  BY <1>1, <1>2 DEF BlocksIn
<1>4. Reaches(NewInode(b), NewInode(b).size)
  <2>1. \A j \in 1..BlocksNeeded(0) : j = 1
    BY DEF BlocksNeeded
  <2> QED
    BY <1>1, <1>2, <2>1 DEF Reaches
<1>5. b \in B => Holds(NewInode(b), B)
  BY <1>1, <1>2 DEF Holds
<1> QED
  BY <1>3, <1>4, <1>5

(* The inode bitmap. *)
LEMMA CreateInodeBitmapFs == ASSUME FsInv, CreateInodeBitmap PROVE FsInv'
<1>1. /\ pc = "create_ib" /\ pc' = "create_bb" /\ mounted' = mounted /\ ib' = ib \cup {op.ino}
      /\ super' = super /\ bb' = bb /\ table' = table /\ dir' = dir /\ data' = data /\ op' = op
      /\ expect' = expect /\ lossy' = lossy
  BY DEF CreateInodeBitmap, At
<1>2. pc \in CallPcs /\ pc' \in CallPcs /\ pc \in CreatePcs /\ pc' \notin WritePcs /\ pc' \notin UnlinkPcs
  BY <1>1 DEF CallPcs, CreatePcs, WritePcs, UnlinkPcs
<1>3. Creating /\ op.ino \in 2..MaxIno
  BY <1>2 DEF FsInv, InCall, Creating
<1>4. Types /\ Sound(ib, bb, table, dir) /\ (~lossy => Exact(ib, bb, table, dir, ExtraInos, ExtraBlocks))
  BY <1>2, CallFacts
<1>5. Types'
  <2>1. op.ino \in 0..MaxIno
    BY <1>3, Numbers
  <2> QED
    BY <1>1, <1>4, <2>1 DEF Types
<1>6. Creating'
  BY <1>1, <1>3 DEF Creating, Apart, Named
<1>7. Sound(ib', bb', table', dir')
  BY <1>1, <1>4, SoundGrows
<1>8. ExtraInos = {} /\ ExtraBlocks = {} /\ ExtraInos' = {op.ino} /\ ExtraBlocks' = {}
  BY <1>1 DEF ExtraInos, ExtraBlocks
<1>9. ~lossy => Exact(ib', bb', table', dir', ExtraInos', ExtraBlocks')
  BY <1>1, <1>3, <1>4, <1>8, ExactInode
<1> QED
  BY <1>1, <1>2, <1>5, <1>6, <1>7, <1>9, Advance

(* The block bitmap. *)
LEMMA CreateBlockBitmapFs == ASSUME FsInv, CreateBlockBitmap PROVE FsInv'
<1>1. /\ pc = "create_bb" /\ pc' = "create_inode" /\ mounted' = mounted /\ bb' = bb \cup {op.inode.direct[1]}
      /\ super' = super /\ ib' = ib /\ table' = table /\ dir' = dir /\ data' = data /\ op' = op
      /\ expect' = expect /\ lossy' = lossy
  BY DEF CreateBlockBitmap, At
<1>2. pc \in CallPcs /\ pc' \in CallPcs /\ pc \in CreatePcs /\ pc' \notin WritePcs /\ pc' \notin UnlinkPcs
  BY <1>1 DEF CallPcs, CreatePcs, WritePcs, UnlinkPcs
<1>3. Creating /\ op.ino \in 2..MaxIno
  BY <1>2 DEF FsInv, InCall, Creating
<1>4. Types /\ Sound(ib, bb, table, dir) /\ (~lossy => Exact(ib, bb, table, dir, ExtraInos, ExtraBlocks))
  BY <1>2, CallFacts
<1>5. PICK b \in DataLba : op.inode = NewInode(b)
  BY <1>3 DEF Creating
<1>6. op.inode.direct[1] = b /\ BlocksIn(op.inode) = {b} /\ b \in Lba
  BY <1>5, NewIs, NewHolds, Addresses
<1>7. Types'
  BY <1>1, <1>4, <1>6 DEF Types
<1>8. Creating'
  BY <1>1, <1>3 DEF Creating, Apart, Named
<1>9. Sound(ib', bb', table', dir')
  BY <1>1, <1>4, SoundGrows
<1>10. ExtraInos = {op.ino} /\ ExtraBlocks = {} /\ ExtraInos' = {op.ino} /\ ExtraBlocks' = {b}
  BY <1>1, <1>6 DEF ExtraInos, ExtraBlocks
<1>11. ~lossy => Exact(ib', bb', table', dir', ExtraInos', ExtraBlocks')
  <2>1. ~lossy => Exact(ib, bb \cup {b}, table, dir, {op.ino}, {} \cup {b})
    BY <1>4, <1>10, ExactBlocks
  <2>2. {} \cup {b} = {b}
    OBVIOUS
  <2> QED
    BY <1>1, <1>6, <1>10, <2>1, <2>2
<1> QED
  BY <1>1, <1>2, <1>7, <1>8, <1>9, <1>11, Advance

(* The inode. *)
LEMMA CreateInodeFs == ASSUME FsInv, CreateInode PROVE FsInv'
<1>1. /\ pc = "create_inode" /\ pc' = "create_dirent" /\ mounted' = mounted
      /\ table' = [table EXCEPT ![op.ino] = op.inode]
      /\ super' = super /\ ib' = ib /\ bb' = bb /\ dir' = dir /\ data' = data /\ op' = op
      /\ expect' = expect /\ lossy' = lossy
  BY DEF CreateInode, At
<1>2. pc \in CallPcs /\ pc' \in CallPcs /\ pc \in CreatePcs /\ pc' \notin WritePcs /\ pc' \notin UnlinkPcs
  BY <1>1 DEF CallPcs, CreatePcs, WritePcs, UnlinkPcs
<1>3. Creating /\ op.ino \in 2..MaxIno /\ \A s \in Slot : dir[s].ino # op.ino
  BY <1>2 DEF FsInv, InCall, Creating
<1>4. Types /\ Sound(ib, bb, table, dir) /\ (~lossy => Exact(ib, bb, table, dir, ExtraInos, ExtraBlocks))
  BY <1>2, CallFacts
<1>5. op.inode \in Inode /\ op.ino \in Ino /\ RootIno # op.ino /\ RootIno \in Ino
  BY <1>3, <1>4, Numbers DEF Types, Op, Ino, RootIno
<1>6. Types' /\ table'[op.ino] = op.inode /\ table'[RootIno] = table[RootIno]
  BY <1>1, <1>4, <1>5 DEF Types
<1>7. SameFiles(table, table', dir)
  BY <1>1, <1>3, <1>4 DEF SameFiles, Types
<1>8. Creating'
  <2>1. Apart(table, dir, op.inode, op.ino)
    BY <1>3 DEF Creating
  <2>2. Apart(table', dir, op.inode, op.ino)
    BY <1>7, <2>1, ApartSame
  <2> QED
    BY <1>1, <1>3, <1>6, <2>2 DEF Creating, Named
<1>9. Sound(ib', bb', table', dir')
  <2>1. \A s \in Slot : Named(dir, s) => dir[s].ino \in ib /\ Holds(table[dir[s].ino], bb)
    BY <1>4 DEF Sound, GoodFile
  <2>2. RootIno \in ib /\ MetaLba \subseteq bb
    BY <1>4 DEF Sound
  <2>3. Sound(ib, bb, table', dir)
    BY <1>4, <1>7, <2>1, <2>2, SoundSame
  <2> QED
    BY <1>1, <2>3
<1>10. ExtraInos' = ExtraInos /\ ExtraBlocks' = ExtraBlocks
  BY <1>1 DEF ExtraInos, ExtraBlocks
<1>11. ~lossy => Exact(ib', bb', table', dir', ExtraInos', ExtraBlocks')
  <2>1. ~lossy => Exact(ib, bb, table', dir, ExtraInos, ExtraBlocks)
    BY <1>4, <1>7, ExactSame
  <2> QED
    BY <1>1, <1>10, <2>1
<1> QED
  BY <1>1, <1>2, <1>6, <1>8, <1>9, <1>11, Advance

(* The directory entry. *)
LEMMA CreateDirentFs == ASSUME FsInv, CreateDirent PROVE FsInv'
<1> DEFINE e == [ino |-> op.ino, name |-> op.name]
<1>1. /\ pc = "create_dirent" /\ pc' = "idle" /\ mounted' = mounted /\ op' = NoOp
      /\ dir' = [dir EXCEPT ![op.slot] = e] /\ DOMAIN expect' = DOMAIN expect
      /\ super' = super /\ ib' = ib /\ bb' = bb /\ table' = table /\ data' = data
      /\ lossy' = lossy
  BY DEF CreateDirent, Last
<1>2. pc \in CallPcs /\ pc \in CreatePcs /\ pc' \notin CreatePcs /\ pc' \notin WritePcs /\ pc' \notin UnlinkPcs
  BY <1>1 DEF CallPcs, CreatePcs, WritePcs, UnlinkPcs
<1>3. /\ Creating /\ op.ino \in 2..MaxIno /\ op.name \in Names /\ ~Named(dir, op.slot) /\ op.ino \in ib
      /\ (\A s \in Slot : dir[s].ino # op.ino) /\ table[op.ino] = op.inode /\ op.inode.direct[1] \in bb
      /\ Apart(table, dir, op.inode, op.ino)
  BY <1>1, <1>2 DEF FsInv, InCall, Creating
<1>4. Types /\ Sound(ib, bb, table, dir) /\ (~lossy => Exact(ib, bb, table, dir, ExtraInos, ExtraBlocks))
  BY <1>2, CallFacts
<1>5. op.slot \in Slot /\ op.ino \in 0..MaxIno /\ op.ino # 0
  BY <1>3, <1>4, Numbers DEF Types, Op
<1>6. e.ino = op.ino /\ e \in [ino : 0..MaxIno, name : Names \cup {NoName}]
  BY <1>3, <1>5
<1> HIDE DEF e
<1>7. Types'
  BY <1>1, <1>4, <1>6, Constants DEF Types
<1>8. OneEntry(dir, dir', op.slot, e)
  BY <1>1, <1>4, <1>5 DEF OneEntry, Types
<1>9. PICK b \in DataLba : op.inode = NewInode(b)
  BY <1>3 DEF Creating
<1>10. op.inode.mode = "FILE" /\ Holds(op.inode, bb) /\ Reaches(op.inode, op.inode.size)
  BY <1>3, <1>9, NewIs, NewHolds
<1>11. Sound(ib', bb', table', dir')
  <2>1. Sound(ib, bb, table, dir')
    BY <1>3, <1>4, <1>5, <1>6, <1>8, <1>10, SoundEnters
  <2> QED
    BY <1>1, <2>1
<1>12. ExtraInos = {op.ino} /\ ExtraBlocks = BlocksIn(op.inode) /\ ExtraInos' = {} /\ ExtraBlocks' = {}
  BY <1>1 DEF ExtraInos, ExtraBlocks
<1>13. ~lossy => Exact(ib', bb', table', dir', ExtraInos', ExtraBlocks')
  <2>1. ~lossy => Exact(ib, bb, table, dir, {e.ino}, BlocksIn(table[e.ino]))
    BY <1>3, <1>4, <1>6, <1>12
  <2>2. ~lossy => Exact(ib, bb, table, dir', {}, {})
    BY <1>3, <1>5, <1>6, <1>8, <2>1, ExactEnters
  <2> QED
    BY <1>1, <1>12, <2>2
<1> QED
  BY <1>1, <1>2, <1>7, <1>11, <1>13, Advance

-----------------------------------------------------------------------------
(* The writes of mcsfs1_write. *)

(* A content fits the direct blocks of an inode. *)
LEMMA Needed ==
  ASSUME NEW c \in Contents
  PROVE  Len(c) \in Nat /\ Len(c) <= Direct /\ BlocksNeeded(Len(c)) \in 1..Direct /\ Len(c) <= BlocksNeeded(Len(c))
<1>1. c \in Seq({c[i] : i \in 1..Len(c)}) /\ Len(c) <= Direct
  BY Mcsfs1Assumption, Zenon
<1>2. Len(c) \in Nat
  BY <1>1
<1> QED
  BY <1>1, <1>2, Numbers DEF BlocksNeeded

(* A block joins the inode a call works on. *)
GrowOp(o, b) == [o EXCEPT !.inode.direct[o.i] = b, !.i = @ + 1]
NextOp(o, k) == [o EXCEPT !.i = k]

(* What that changes. *)
LEMMA NextOpIs ==
  ASSUME NEW o \in Op, NEW k \in Nat
  PROVE  /\ NextOp(o, k) \in Op /\ NextOp(o, k).name = o.name /\ NextOp(o, k).slot = o.slot
         /\ NextOp(o, k).ino = o.ino /\ NextOp(o, k).inode = o.inode /\ NextOp(o, k).content = o.content
         /\ NextOp(o, k).i = k
BY DEF Op, NextOp

(* What that changes. *)
LEMMA GrowOpIs ==
  ASSUME NEW o \in Op, o.i \in 1..Direct, NEW b \in Lba
  PROVE  /\ GrowOp(o, b) \in Op /\ GrowOp(o, b).name = o.name /\ GrowOp(o, b).slot = o.slot
         /\ GrowOp(o, b).ino = o.ino /\ GrowOp(o, b).content = o.content /\ GrowOp(o, b).i = o.i + 1
         /\ GrowOp(o, b).inode.mode = o.inode.mode /\ GrowOp(o, b).inode.size = o.inode.size
         /\ \A j \in 1..Direct : GrowOp(o, b).inode.direct[j] = IF j = o.i THEN b ELSE o.inode.direct[j]
<1> DEFINE d == [o.inode.direct EXCEPT ![o.i] = b]
           m == [o.inode EXCEPT !.direct = d]
<1>1. o.inode \in Inode /\ o.inode.direct \in [1..Direct -> Lba]
  BY DEF Op, Inode
<1>2. d \in [1..Direct -> Lba] /\ \A j \in 1..Direct : d[j] = IF j = o.i THEN b ELSE o.inode.direct[j]
  BY <1>1
<1> HIDE DEF d
<1>3. m \in Inode /\ m.mode = o.inode.mode /\ m.size = o.inode.size /\ m.direct = d
  BY <1>1, <1>2 DEF Inode
<1> HIDE DEF m
<1>4. GrowOp(o, b) = [[o EXCEPT !.inode = m] EXCEPT !.i = o.i + 1]
  BY <1>1 DEF GrowOp, Op, Inode, m, d
<1> DEFINE q == [o EXCEPT !.inode = m]
<1>5. q \in Op /\ q.inode = m /\ q.name = o.name /\ q.slot = o.slot /\ q.ino = o.ino /\ q.content = o.content
  BY <1>3 DEF Op
<1>6. GrowOp(o, b) = NextOp(q, o.i + 1) /\ o.i + 1 \in Nat
  BY <1>4 DEF NextOp
<1> HIDE DEF q
<1> DEFINE g == NextOp(q, o.i + 1)
<1>7. /\ g \in Op /\ g.name = q.name /\ g.slot = q.slot /\ g.ino = q.ino /\ g.inode = q.inode
      /\ g.content = q.content /\ g.i = o.i + 1
  BY <1>5, <1>6, NextOpIs
<1> HIDE DEF g
<1>8. GrowOp(o, b) = g
  BY <1>6 DEF g
<1> QED
  BY <1>2, <1>3, <1>5, <1>7, <1>8

(* Where mcsfs1_write stands. *)
LEMMA WriteFacts ==
  ASSUME FsInv, pc \in WritePcs
  PROVE  /\ Writing /\ op \in Op /\ op.ino \in 2..MaxIno /\ op.ino \in Ino /\ op.ino # RootIno
         /\ Len0 \in Nat /\ BlocksNeeded(Len0) \in 1..Direct /\ Len0 <= BlocksNeeded(Len0) /\ Len0 <= Direct
         /\ pc \in CallPcs /\ Types /\ Sound(ib, bb, table, dir)
         /\ ~lossy => Exact(ib, bb, table, dir, {}, BlocksIn(op.inode))
<1>1. Writing /\ pc \in CallPcs /\ op.content \in Contents /\ op.ino \in 2..MaxIno
  BY DEF FsInv, InCall, Writing, CallPcs
<1>2. Types /\ Sound(ib, bb, table, dir) /\ (~lossy => Exact(ib, bb, table, dir, ExtraInos, ExtraBlocks))
  BY <1>1, CallFacts
<1>3. Len0 \in Nat /\ BlocksNeeded(Len0) \in 1..Direct /\ Len0 <= BlocksNeeded(Len0) /\ Len0 <= Direct
  BY <1>1, Needed DEF Len0
<1>4. ExtraInos = {} /\ ExtraBlocks = BlocksIn(op.inode)
  BY DEF ExtraInos, ExtraBlocks, WritePcs
<1>5. op.ino \in Ino /\ op.ino # RootIno /\ op \in Op
  BY <1>1, <1>2, Numbers DEF Types, Ino, RootIno
<1> QED
  BY <1>1, <1>2, <1>3, <1>4, <1>5

(* A step of it that leaves the metadata and the inode alone. *)
LEMMA WriteMoves ==
  ASSUME FsInv, pc \in WritePcs, pc' \in WritePcs, NEW k \in Nat, op' = NextOp(op, k),
         super' = super, ib' = ib, bb' = bb, table' = table, dir' = dir, mounted' = mounted, lossy' = lossy,
         DOMAIN data' = DataLba, DOMAIN expect' = Names,
         pc' = "alloc" => /\ k \in 1..(BlocksNeeded(Len0) + 1)
                          /\ \A j \in 1..(k - 1) : op.inode.direct[j] # 0,
         pc' = "write_data" => k \in 1..BlocksNeeded(Len0),
         pc' \in {"write_data", "write_inode"} => Reaches(op.inode, Len0)
  PROVE  FsInv'
<1>1. /\ Writing /\ op \in Op /\ Types /\ Sound(ib, bb, table, dir) /\ pc \in CallPcs
      /\ ~lossy => Exact(ib, bb, table, dir, {}, BlocksIn(op.inode))
  BY WriteFacts
<1>2. /\ op' \in Op /\ op'.name = op.name /\ op'.slot = op.slot /\ op'.ino = op.ino /\ op'.inode = op.inode
      /\ op'.content = op.content /\ op'.i = k
  BY <1>1, NextOpIs
<1>3. Types'
  BY <1>1, <1>2 DEF Types
<1>4. Writing'
  <2>1. Holds(op'.inode, bb') /\ Apart(table', dir', op'.inode, op'.ino) /\ Len0' = Len0
    BY <1>1, <1>2 DEF Writing, Len0
  <2> QED
    BY <1>1, <1>2, <2>1 DEF Writing
<1>5. pc' \notin CreatePcs /\ pc' \notin UnlinkPcs /\ pc' \in CallPcs
  BY DEF CreatePcs, UnlinkPcs, WritePcs, CallPcs
<1>6. ExtraInos' = {} /\ ExtraBlocks' = BlocksIn(op.inode)
  BY <1>2 DEF ExtraInos, ExtraBlocks, WritePcs
<1>7. Sound(ib', bb', table', dir') /\ (~lossy => Exact(ib', bb', table', dir', ExtraInos', ExtraBlocks'))
  BY <1>1, <1>6
<1> QED
  BY <1>1, <1>3, <1>4, <1>5, <1>7, Advance

(* An inode with one block more. *)
OneMore(n, m, B, b) ==
  /\ b \in DataLba /\ b \notin B
  /\ \E k \in 1..Direct : n.direct[k] = 0 /\ \A j \in 1..Direct : m.direct[j] = IF j = k THEN b ELSE n.direct[j]

(* It is as good as it was. *)
LEMMA Grows ==
  ASSUME NEW I, NEW B, NEW T, NEW D, Sound(I, B, T, D), NEW n, NEW m, NEW i, NEW b, OneMore(n, m, B, b),
         Holds(n, B), Apart(T, D, n, i), NEW C, C = B \cup {b}
  PROVE  Holds(m, C) /\ Apart(T, D, m, i) /\ BlocksIn(m) = BlocksIn(n) \cup {b}
<1>1. b # 0 /\ \A j \in 1..Direct : n.direct[j] # b
  BY Addresses DEF Holds, OneMore
<1>2. PICK k \in 1..Direct : n.direct[k] = 0 /\ \A j \in 1..Direct : m.direct[j] = IF j = k THEN b ELSE n.direct[j]
  BY DEF OneMore
<1>3. Holds(m, C)
  BY <1>1, <1>2 DEF Holds, OneMore
<1>4. \A s \in Slot : Named(D, s) => \A j \in 1..Direct : T[D[s].ino].direct[j] # b
  BY <1>1 DEF Sound, GoodFile, Holds, OneMore
<1>5. Apart(T, D, m, i)
  BY <1>2, <1>4 DEF Apart
<1>6. BlocksIn(m) = BlocksIn(n) \cup {b}
  BY <1>1, <1>2 DEF BlocksIn
<1> QED
  BY <1>3, <1>5, <1>6

(* alloc_data_block finds a block. *)
LEMMA AllocDataBlockFs == ASSUME FsInv, AllocDataBlock PROVE FsInv'
<1> DEFINE b == Min(FreeBlks)
<1>1. /\ pc = "alloc" /\ pc' = "alloc" /\ mounted' = mounted /\ bb' = bb \cup {b}
      /\ super' = super /\ ib' = ib /\ table' = table /\ dir' = dir /\ data' = data
      /\ op' = GrowOp(op, b) /\ expect' = expect /\ lossy' = lossy
      /\ op.i <= BlocksNeeded(Len0) /\ op.inode.direct[op.i] = 0 /\ FreeBlks # {}
  BY DEF AllocDataBlock, At, GrowOp, Len0
<1>2. b \in DataLba /\ b \notin bb /\ b \in Lba /\ b # 0
  <2>1. FreeBlks \subseteq Nat
    BY Addresses DEF FreeBlks
  <2>2. b \in FreeBlks
    BY <1>1, <2>1, MinIs
  <2> QED
    BY <2>2, Addresses DEF FreeBlks
<1> HIDE DEF b
<1>3. pc \in WritePcs /\ pc' \in WritePcs /\ pc' \in CallPcs /\ pc' \notin CreatePcs /\ pc' \notin UnlinkPcs
  BY <1>1 DEF WritePcs, CallPcs, CreatePcs, UnlinkPcs
<1>4. /\ Writing /\ op \in Op /\ Types /\ Sound(ib, bb, table, dir) /\ pc \in CallPcs
      /\ (~lossy => Exact(ib, bb, table, dir, {}, BlocksIn(op.inode)))
      /\ BlocksNeeded(Len0) \in 1..Direct
  BY <1>3, WriteFacts
<1>5. op.i \in 1..(BlocksNeeded(Len0) + 1) /\ \A j \in 1..(op.i - 1) : op.inode.direct[j] # 0
  BY <1>1, <1>4 DEF Writing
<1>6. op.i \in 1..Direct
  BY <1>1, <1>4, <1>5, Numbers
<1>7. /\ op' \in Op /\ op'.name = op.name /\ op'.slot = op.slot
      /\ op'.ino = op.ino /\ op'.content = op.content /\ op'.i = op.i + 1
      /\ op'.inode.mode = op.inode.mode
      /\ \A j \in 1..Direct : op'.inode.direct[j] = IF j = op.i THEN b ELSE op.inode.direct[j]
  BY <1>1, <1>2, <1>4, <1>6, GrowOpIs
<1>8. Holds(op.inode, bb) /\ Apart(table, dir, op.inode, op.ino)
  BY <1>4 DEF Writing
<1>9. Holds(op'.inode, bb') /\ Apart(table, dir, op'.inode, op.ino) /\ BlocksIn(op'.inode) = BlocksIn(op.inode) \cup {b}
  <2>1. OneMore(op.inode, op'.inode, bb, b)
    BY <1>1, <1>2, <1>6, <1>7 DEF OneMore
  <2>2. Sound(ib, bb, table, dir) /\ bb' = bb \cup {b}
    BY <1>1, <1>4
  <2> QED
    BY <1>8, <2>1, <2>2, Grows
<1>10. Types'
  BY <1>1, <1>2, <1>4, <1>7 DEF Types
<1>11. Writing'
  <2>1. Holds(op'.inode, bb') /\ Apart(table', dir', op'.inode, op'.ino) /\ Len0' = Len0
    BY <1>1, <1>7, <1>9 DEF Len0
  <2>2. op'.i \in 1..(BlocksNeeded(Len0) + 1)
    BY <1>1, <1>4, <1>5, <1>7
  <2>3. \A j \in 1..(op'.i - 1) : op'.inode.direct[j] # 0
    <3> SUFFICES ASSUME NEW j \in 1..(op'.i - 1) PROVE op'.inode.direct[j] # 0
      OBVIOUS
    <3>1. j \in 1..Direct /\ (j = op.i \/ j \in 1..(op.i - 1))
      BY <1>6, <1>7, Numbers
    <3> QED
      BY <1>2, <1>5, <1>7, <3>1
  <2>4. \A j \in 1..Direct : table'[op'.ino].direct[j] # 0 => op'.inode.direct[j] = table'[op'.ino].direct[j]
    BY <1>1, <1>4, <1>7 DEF Writing
  <2> QED
    BY <1>1, <1>4, <1>7, <2>1, <2>2, <2>3, <2>4 DEF Writing
<1>12. Sound(ib', bb', table', dir')
  BY <1>1, <1>4, SoundGrows
<1>13. ExtraInos' = {} /\ ExtraBlocks' = BlocksIn(op.inode) \cup {b}
  BY <1>1, <1>9 DEF ExtraInos, ExtraBlocks
<1>14. ~lossy => Exact(ib', bb', table', dir', ExtraInos', ExtraBlocks')
  <2>1. ~lossy => Exact(ib, bb \cup {b}, table, dir, {}, BlocksIn(op.inode) \cup {b})
    BY <1>4, ExactBlocks
  <2> QED
    BY <1>1, <1>13, <2>1
<1> QED
  BY <1>1, <1>3, <1>4, <1>10, <1>11, <1>12, <1>14, Advance

(* The block is there already. *)
LEMMA KeepDataBlockFs == ASSUME FsInv, KeepDataBlock PROVE FsInv'
<1>1. /\ pc = "alloc" /\ pc' = "alloc" /\ UNCHANGED <<super, ib, bb, table, dir, data, mounted, expect, lossy>>
      /\ op' = NextOp(op, op.i + 1) /\ op.i <= BlocksNeeded(Len0) /\ op.inode.direct[op.i] # 0
  BY DEF KeepDataBlock, At, NextOp, Len0
<1>2. pc \in WritePcs /\ pc' \in WritePcs
  BY <1>1 DEF WritePcs
<1>3. Writing /\ BlocksNeeded(Len0) \in 1..Direct /\ Types
  BY <1>2, WriteFacts
<1>4. op.i \in 1..(BlocksNeeded(Len0) + 1) /\ \A j \in 1..(op.i - 1) : op.inode.direct[j] # 0
  BY <1>1, <1>3 DEF Writing
<1>5. op.i + 1 \in 1..(BlocksNeeded(Len0) + 1) /\ op.i + 1 \in Nat
  BY <1>1, <1>3, <1>4
<1>6. \A j \in 1..((op.i + 1) - 1) : op.inode.direct[j] # 0
  <2> SUFFICES ASSUME NEW j \in 1..((op.i + 1) - 1) PROVE op.inode.direct[j] # 0
    OBVIOUS
  <2>1. j = op.i \/ j \in 1..(op.i - 1)
    BY <1>4
  <2> QED
    BY <1>1, <1>4, <2>1
<1>7. DOMAIN data' = DataLba /\ DOMAIN expect' = Names
  BY <1>1, <1>3 DEF Types
<1> QED
  BY <1>1, <1>2, <1>5, <1>6, <1>7, WriteMoves

(* All blocks are there. *)
LEMMA AllocDoneFs == ASSUME FsInv, AllocDone PROVE FsInv'
<1>1. /\ pc = "alloc" /\ pc' = "write_data" /\ UNCHANGED <<super, ib, bb, table, dir, data, mounted, expect, lossy>>
      /\ op' = NextOp(op, 1) /\ op.i > BlocksNeeded(Len0)
  BY DEF AllocDone, At, NextOp, Len0
<1>2. pc \in WritePcs /\ pc' \in WritePcs
  BY <1>1 DEF WritePcs
<1>3. Writing /\ BlocksNeeded(Len0) \in 1..Direct /\ Types
  BY <1>2, WriteFacts
<1>4. op.i \in 1..(BlocksNeeded(Len0) + 1) /\ \A j \in 1..(op.i - 1) : op.inode.direct[j] # 0
  BY <1>1, <1>3 DEF Writing
<1>5. Reaches(op.inode, Len0)
  BY <1>1, <1>3, <1>4 DEF Reaches
<1>6. 1 \in 1..BlocksNeeded(Len0)
  BY <1>3
<1>7. DOMAIN data' = DataLba /\ DOMAIN expect' = Names
  BY <1>1, <1>3 DEF Types
<1> QED
  BY <1>1, <1>2, <1>5, <1>6, <1>7, WriteMoves

(* A block of file data. *)
LEMMA WriteDataFs == ASSUME FsInv, WriteData PROVE FsInv'
<1>1. /\ pc = "write_data" /\ pc' = (IF op.i = BlocksNeeded(Len0) THEN "write_inode" ELSE "write_data")
      /\ UNCHANGED <<super, ib, bb, table, dir, mounted, lossy>> /\ DOMAIN data' = DOMAIN data
      /\ op' = NextOp(op, op.i + 1) /\ DOMAIN expect' = DOMAIN expect
  BY DEF WriteData, At, NextOp, Len0
<1>2. pc \in WritePcs /\ pc' \in WritePcs /\ pc' # "alloc"
  BY <1>1 DEF WritePcs
<1>3. Writing /\ BlocksNeeded(Len0) \in 1..Direct /\ Types
  BY <1>2, WriteFacts
<1>4. op.i \in 1..BlocksNeeded(Len0) /\ Reaches(op.inode, Len0)
  BY <1>1, <1>3 DEF Writing
<1>5. op.i + 1 \in Nat /\ (pc' = "write_data" => op.i + 1 \in 1..BlocksNeeded(Len0))
  BY <1>1, <1>3, <1>4
<1>6. DOMAIN data' = DataLba /\ DOMAIN expect' = Names
  BY <1>1, <1>3 DEF Types
<1> QED
  BY <1>1, <1>2, <1>4, <1>5, <1>6, WriteMoves

(* The inode with its new size. *)
Resized(n, len) == [n EXCEPT !.size = len]

(* What that changes. *)
LEMMA ResizedIs ==
  ASSUME NEW n \in Inode, NEW len \in 0..Direct
  PROVE  /\ Resized(n, len) \in Inode /\ Resized(n, len).mode = n.mode /\ Resized(n, len).size = len
         /\ Resized(n, len).direct = n.direct
BY DEF Inode, Resized

(* The inode. *)
LEMMA WriteInodeFs == ASSUME FsInv, WriteInode PROVE FsInv'
<1> DEFINE m == Resized(op.inode, Len0)
<1>1. /\ pc = "write_inode" /\ pc' = "idle" /\ op' = NoOp /\ mounted' = mounted
      /\ super' = super /\ ib' = ib /\ bb' = bb /\ dir' = dir /\ data' = data /\ lossy' = lossy
      /\ table' = [table EXCEPT ![op.ino] = m] /\ DOMAIN expect' = DOMAIN expect
  BY DEF WriteInode, Last, Resized, Len0
<1>2. pc \in WritePcs /\ pc' \notin WritePcs /\ pc' \notin CreatePcs /\ pc' \notin UnlinkPcs
  BY <1>1 DEF WritePcs, CreatePcs, UnlinkPcs
<1>3. /\ Writing /\ op \in Op /\ Types /\ Sound(ib, bb, table, dir) /\ pc \in CallPcs
      /\ (~lossy => Exact(ib, bb, table, dir, {}, BlocksIn(op.inode)))
      /\ Len0 \in 0..Direct /\ op.ino \in 2..MaxIno /\ op.ino \in Ino /\ op.ino # RootIno
  BY <1>2, WriteFacts
<1>4. op.inode \in Inode
  BY <1>3 DEF Op
<1>5. m \in Inode /\ m.mode = op.inode.mode /\ m.size = Len0 /\ m.direct = op.inode.direct
  BY <1>3, <1>4, ResizedIs
<1> HIDE DEF m
<1>6. Holds(op.inode, bb) /\ Apart(table, dir, op.inode, op.ino) /\ Reaches(op.inode, Len0) /\ op.inode.mode = "FILE"
  BY <1>1, <1>3 DEF Writing
<1>7. Holds(m, bb) /\ Apart(table, dir, m, op.ino) /\ Reaches(m, m.size) /\ m.mode = "FILE" /\ BlocksIn(m) = BlocksIn(op.inode)
  BY <1>5, <1>6 DEF Holds, Apart, Reaches, BlocksIn
<1>8. Types'
  BY <1>1, <1>3, <1>5, Constants DEF Types
<1>9. table \in [Ino -> Inode] /\ RootIno \in Ino
  BY <1>3, Numbers DEF Types, Ino, RootIno
<1>10. table'[RootIno] = table[RootIno]
  BY <1>1, <1>3, <1>9
<1>11. Sound(ib', bb', table', dir')
  <2>1. Sound(ib, bb, [table EXCEPT ![op.ino] = m], dir)
    BY <1>3, <1>5, <1>7, <1>9, SoundRewrites
  <2> QED
    BY <1>1, <2>1
<1>12. ExtraInos' = {} /\ ExtraBlocks' = {}
  BY <1>1 DEF ExtraInos, ExtraBlocks
<1>13. ASSUME ~lossy PROVE Exact(ib', bb', table', dir', {}, {})
  <2>1. PICK s \in Slot : dir[s].ino = op.ino
    BY <1>3 DEF Writing
  <2>2. Named(dir, s) /\ Exact(ib, bb, table, dir, {}, BlocksIn(m))
    BY <1>3, <1>7, <1>13, <2>1, Numbers DEF Named
  <2>3. \A j \in 1..Direct : table[dir[s].ino].direct[j] # 0 => m.direct[j] = table[dir[s].ino].direct[j]
    BY <1>3, <1>5, <2>1 DEF Writing
  <2>4. Exact(ib, bb, [table EXCEPT ![dir[s].ino] = m], dir, {}, {})
    BY <1>3, <1>9, <2>2, <2>3, ExactRewrites
  <2> QED
    BY <1>1, <2>1, <2>4
<1> QED
  BY <1>1, <1>2, <1>3, <1>8, <1>10, <1>11, <1>12, <1>13, Advance

-----------------------------------------------------------------------------
(* The writes of mcsfs1_unlink. *)

(* Where it stands. *)
LEMMA UnlinkFacts ==
  ASSUME FsInv, pc \in UnlinkPcs
  PROVE  /\ Unlinking /\ op \in Op /\ op.ino \in 2..MaxIno /\ op.ino \in Ino /\ op.ino # RootIno /\ RootIno \in Ino
         /\ op.slot \in Slot /\ op.inode \in Inode /\ pc \in CallPcs /\ Types /\ Sound(ib, bb, table, dir)
         /\ ~lossy => Exact(ib, bb, table, dir, ExtraInos, ExtraBlocks)
<1>1. Unlinking /\ pc \in CallPcs /\ op.ino \in 2..MaxIno
  BY DEF FsInv, InCall, Unlinking, CallPcs
<1>2. Types /\ Sound(ib, bb, table, dir) /\ (~lossy => Exact(ib, bb, table, dir, ExtraInos, ExtraBlocks))
  BY <1>1, CallFacts
<1>3. op.ino \in Ino /\ op.ino # RootIno /\ RootIno \in Ino
  BY <1>1, Numbers DEF Ino, RootIno
<1>4. op \in Op /\ op.slot \in Slot /\ op.inode \in Inode
  BY <1>2 DEF Types, Op
<1> QED
  BY <1>1, <1>2, <1>3, <1>4

(* The directory entry. *)
LEMMA UnlinkDirentFs == ASSUME FsInv, UnlinkDirent PROVE FsInv'
<1>1. /\ pc = "unlink_dirent" /\ pc' = "unlink_ib" /\ mounted' = mounted /\ op' = op
      /\ dir' = [dir EXCEPT ![op.slot] = FreeDirent] /\ DOMAIN expect' = DOMAIN expect
      /\ super' = super /\ ib' = ib /\ bb' = bb /\ table' = table /\ data' = data
      /\ lossy' = lossy
  BY DEF UnlinkDirent, At
<1>2. pc \in UnlinkPcs /\ pc' \in CallPcs /\ pc' \notin CreatePcs /\ pc' \notin WritePcs
  BY <1>1 DEF CallPcs, CreatePcs, WritePcs, UnlinkPcs
<1>3. /\ Unlinking /\ op \in Op /\ op.ino \in 2..MaxIno /\ op.slot \in Slot /\ pc \in CallPcs
      /\ Types /\ Sound(ib, bb, table, dir) /\ (~lossy => Exact(ib, bb, table, dir, ExtraInos, ExtraBlocks))
  BY <1>2, UnlinkFacts
<1>4. dir[op.slot].ino = op.ino /\ op.inode = table[op.ino] /\ Named(dir, op.slot)
  BY <1>1, <1>3, Numbers DEF Unlinking, Named
<1>5. Holds(op.inode, bb) /\ Apart(table, dir, op.inode, op.ino)
  BY <1>3, <1>4 DEF Sound, GoodFile
<1>6. Types'
  BY <1>1, <1>3, Constants DEF Types
<1>7. OneEntry(dir, dir', op.slot, FreeDirent)
  BY <1>1, <1>3 DEF OneEntry, Types
<1>8. Sound(ib, bb, table, dir') /\ Apart(table, dir', op.inode, op.ino)
  BY <1>3, <1>5, <1>7, SoundRemoves
<1>9. \A s \in Slot : dir'[s].ino # op.ino
  <2>1. \A s \in Slot : s # op.slot => dir[s].ino # op.ino
    BY <1>3, <1>4 DEF Sound
  <2>2. FreeDirent.ino # op.ino
    BY <1>3, Constants, Numbers
  <2> QED
    BY <1>7, <2>1, <2>2 DEF OneEntry
<1>10. Unlinking'
  <2>1. op'.ino = op.ino /\ op'.inode = op.inode /\ op'.name = op.name /\ op.name \in Names
    BY <1>1, <1>3 DEF Unlinking
  <2>2. Holds(op'.inode, bb') /\ Apart(table', dir', op'.inode, op'.ino)
    BY <1>1, <1>5, <1>8
  <2> QED
    BY <1>1, <1>3, <1>9, <2>1, <2>2 DEF Unlinking
<1>11. ExtraInos = {} /\ ExtraBlocks = {} /\ ExtraInos' = {op.ino} /\ ExtraBlocks' = BlocksIn(op.inode)
  BY <1>1 DEF ExtraInos, ExtraBlocks
<1>12. ~lossy => Exact(ib', bb', table', dir', ExtraInos', ExtraBlocks')
  <2>1. ~lossy => Exact(ib, bb, table, dir', {dir[op.slot].ino}, BlocksIn(table[dir[op.slot].ino]))
    BY <1>3, <1>4, <1>7, <1>11, ExactRemoves
  <2> QED
    BY <1>1, <1>4, <1>11, <2>1
<1> QED
  BY <1>1, <1>2, <1>3, <1>6, <1>8, <1>10, <1>12, Advance

(* The inode bitmap. *)
LEMMA UnlinkInodeBitmapFs == ASSUME FsInv, UnlinkInodeBitmap PROVE FsInv'
<1>1. /\ pc = "unlink_ib" /\ pc' = "unlink_bb" /\ mounted' = mounted /\ ib' = ib \ {op.ino}
      /\ super' = super /\ bb' = bb /\ table' = table /\ dir' = dir /\ data' = data /\ op' = op
      /\ expect' = expect /\ lossy' = lossy
  BY DEF UnlinkInodeBitmap, At
<1>2. pc \in UnlinkPcs /\ pc' \in CallPcs /\ pc' \notin CreatePcs /\ pc' \notin WritePcs
  BY <1>1 DEF CallPcs, CreatePcs, WritePcs, UnlinkPcs
<1>3. /\ Unlinking /\ op \in Op /\ op.ino \in 2..MaxIno /\ op.inode \in Inode /\ pc \in CallPcs
      /\ Types /\ Sound(ib, bb, table, dir) /\ (~lossy => Exact(ib, bb, table, dir, ExtraInos, ExtraBlocks))
  BY <1>2, UnlinkFacts
<1>4. (\A s \in Slot : dir[s].ino # op.ino) /\ Holds(op.inode, bb) /\ Apart(table, dir, op.inode, op.ino)
  BY <1>1, <1>3 DEF Unlinking
<1>5. Types'
  BY <1>1, <1>3 DEF Types
<1>6. Unlinking'
  <2>1. Holds(op'.inode, bb') /\ Apart(table', dir', op'.inode, op'.ino)
    BY <1>1, <1>4
  <2> QED
    BY <1>1, <1>3, <1>4, <2>1 DEF Unlinking
<1>7. Sound(ib \ {op.ino}, bb, table, dir)
  BY <1>3, <1>4, SoundShrinks
<1>8. ExtraInos = {op.ino} /\ ExtraBlocks = BlocksIn(op.inode) /\ ExtraInos' = {} /\ ExtraBlocks' = BlocksIn(op.inode)
  BY <1>1 DEF ExtraInos, ExtraBlocks
<1>9. ~lossy => Exact(ib', bb', table', dir', ExtraInos', ExtraBlocks')
  <2>1. ~lossy => Exact(ib \ {op.ino}, bb, table, dir, {}, BlocksIn(op.inode))
    BY <1>3, <1>4, <1>8, ExactInode
  <2> QED
    BY <1>1, <1>8, <2>1
<1> QED
  BY <1>1, <1>2, <1>3, <1>5, <1>6, <1>7, <1>9, Advance

(* The block bitmap. *)
LEMMA UnlinkBlockBitmapFs == ASSUME FsInv, UnlinkBlockBitmap PROVE FsInv'
<1>1. /\ pc = "unlink_bb" /\ pc' = "unlink_inode" /\ mounted' = mounted /\ bb' = bb \ BlocksIn(op.inode)
      /\ super' = super /\ ib' = ib /\ table' = table /\ dir' = dir /\ data' = data /\ op' = op
      /\ expect' = expect /\ lossy' = lossy
  BY DEF UnlinkBlockBitmap, At, BlocksIn
<1>2. pc \in UnlinkPcs /\ pc' \in CallPcs /\ pc' \notin CreatePcs /\ pc' \notin WritePcs
  BY <1>1 DEF CallPcs, CreatePcs, WritePcs, UnlinkPcs
<1>3. /\ Unlinking /\ op \in Op /\ op.ino \in 2..MaxIno /\ op.inode \in Inode /\ pc \in CallPcs
      /\ Types /\ Sound(ib, bb, table, dir) /\ (~lossy => Exact(ib, bb, table, dir, ExtraInos, ExtraBlocks))
  BY <1>2, UnlinkFacts
<1>4. (\A s \in Slot : dir[s].ino # op.ino) /\ Holds(op.inode, bb) /\ Apart(table, dir, op.inode, op.ino)
  BY <1>1, <1>3 DEF Unlinking
<1>5. Types'
  BY <1>1, <1>3 DEF Types
<1>6. Unlinking'
  BY <1>1, <1>3, <1>4 DEF Unlinking
<1>7. Sound(ib, bb \ BlocksIn(op.inode), table, dir)
  BY <1>3, <1>4, SoundShrinks
<1>8. ExtraInos = {} /\ ExtraBlocks = BlocksIn(op.inode) /\ ExtraInos' = {} /\ ExtraBlocks' = {}
  BY <1>1 DEF ExtraInos, ExtraBlocks
<1>9. ~lossy => Exact(ib', bb', table', dir', ExtraInos', ExtraBlocks')
  <2>1. ~lossy => Exact(ib, bb \ BlocksIn(op.inode), table, dir, {}, {})
    BY <1>3, <1>4, <1>8, ExactFree
  <2> QED
    BY <1>1, <1>8, <2>1
<1> QED
  BY <1>1, <1>2, <1>3, <1>5, <1>6, <1>7, <1>9, Advance

(* The inode. *)
LEMMA UnlinkInodeFs == ASSUME FsInv, UnlinkInode PROVE FsInv'
<1>1. /\ pc = "unlink_inode" /\ pc' = "idle" /\ mounted' = mounted /\ op' = NoOp
      /\ table' = [table EXCEPT ![op.ino] = FreeInode]
      /\ super' = super /\ ib' = ib /\ bb' = bb /\ dir' = dir /\ data' = data
      /\ expect' = expect /\ lossy' = lossy
  BY DEF UnlinkInode, Last
<1>2. pc \in UnlinkPcs /\ pc' \notin CreatePcs /\ pc' \notin WritePcs /\ pc' \notin UnlinkPcs
  BY <1>1 DEF CreatePcs, WritePcs, UnlinkPcs
<1>3. /\ Unlinking /\ op \in Op /\ op.ino \in Ino /\ op.ino # RootIno /\ RootIno \in Ino /\ pc \in CallPcs
      /\ Types /\ Sound(ib, bb, table, dir) /\ (~lossy => Exact(ib, bb, table, dir, ExtraInos, ExtraBlocks))
  BY <1>2, UnlinkFacts
<1>4. \A s \in Slot : dir[s].ino # op.ino
  BY <1>1, <1>3 DEF Unlinking
<1>5. Types' /\ table'[RootIno] = table[RootIno]
  BY <1>1, <1>3, Constants DEF Types
<1>6. SameFiles(table, table', dir)
  BY <1>1, <1>3, <1>4 DEF SameFiles, Types
<1>7. Sound(ib', bb', table', dir')
  <2>1. \A s \in Slot : Named(dir, s) => dir[s].ino \in ib /\ Holds(table[dir[s].ino], bb)
    BY <1>3 DEF Sound, GoodFile
  <2>2. RootIno \in ib /\ MetaLba \subseteq bb
    BY <1>3 DEF Sound
  <2>3. Sound(ib, bb, table', dir)
    BY <1>3, <1>6, <2>1, <2>2, SoundSame
  <2> QED
    BY <1>1, <2>3
<1>8. ExtraInos' = {} /\ ExtraBlocks' = {} /\ ExtraInos = {} /\ ExtraBlocks = {}
  BY <1>1 DEF ExtraInos, ExtraBlocks
<1>9. ~lossy => Exact(ib', bb', table', dir', ExtraInos', ExtraBlocks')
  <2>1. ~lossy => Exact(ib, bb, table', dir, {}, {})
    BY <1>3, <1>6, <1>8, ExactSame
  <2> QED
    BY <1>1, <1>8, <2>1
<1> QED
  BY <1>1, <1>2, <1>3, <1>5, <1>7, <1>9, Advance

-----------------------------------------------------------------------------
(* The invariant is inductive. *)

(* Every step keeps it. *)
LEMMA NextFs == FsInv /\ [Next]_vars => FsInv'
<1> SUFFICES ASSUME FsInv, [Next]_vars PROVE FsInv'
  OBVIOUS
<1>1. CASE Calls
  BY <1>1, CallCreateFs, CallUnlinkFs, CallWriteFs, MountFs, CallFormatFs DEF Calls
<1>2. CASE ZeroBlock \/ FormatSuper \/ FormatInodeBitmap \/ FormatBlockBitmap \/ FormatRoot
  BY <1>2, ZeroBlockFs, FormatMetaFs, FormatRootFs
<1>3. CASE CreateInodeBitmap \/ CreateBlockBitmap \/ CreateInode \/ CreateDirent
  BY <1>3, CreateInodeBitmapFs, CreateBlockBitmapFs, CreateInodeFs, CreateDirentFs
<1>4. CASE AllocDataBlock \/ KeepDataBlock \/ AllocDone \/ WriteData \/ WriteInode
  BY <1>4, AllocDataBlockFs, KeepDataBlockFs, AllocDoneFs, WriteDataFs, WriteInodeFs
<1>5. CASE UnlinkDirent \/ UnlinkInodeBitmap \/ UnlinkBlockBitmap \/ UnlinkInode
  BY <1>5, UnlinkDirentFs, UnlinkInodeBitmapFs, UnlinkBlockBitmapFs, UnlinkInodeFs
<1>6. CASE AllocFails \/ DeviceError \/ Crash
  <2>1. UNCHANGED disk /\ pc' = "idle" /\ op' = NoOp /\ DOMAIN expect' = Names
    BY <1>6 DEF AllocFails, DeviceError, Crash, disk, FsInv, Types
  <2>2. mounted' = mounted \/ mounted' = FALSE
    BY <1>6 DEF AllocFails, DeviceError, Crash
  <2>3. lossy' = TRUE \/ (pc = "idle" /\ lossy' = lossy)
    BY <1>6 DEF AllocFails, DeviceError, Crash, FsInv, Types
  <2> QED
    BY <2>1, <2>2, <2>3, CutShort
<1>7. CASE UNCHANGED vars
  <2>1. Types' /\ (Mountable' <=> Mountable)
    BY <1>7 DEF vars, FsInv, Types, Mountable
  <2>2. Formatting'
    BY <1>7 DEF vars, FsInv, Formatting, NoInodes, NoEntries, Named
  <2>3. InCall'
    BY <1>7 DEF vars, FsInv, InCall, Creating, Writing, Unlinking, Len0, Named
  <2>4. ExtraInos' = ExtraInos /\ ExtraBlocks' = ExtraBlocks
    BY <1>7 DEF vars, ExtraInos, ExtraBlocks
  <2> QED
    BY <1>7, <2>1, <2>2, <2>3, <2>4 DEF vars, FsInv
<1> QED
  BY <1>1, <1>2, <1>3, <1>4, <1>5, <1>6, <1>7 DEF Next, Writes

(* FsInv is an invariant: whatever mcsfs1_format, mcsfs1_create,           *)
(* mcsfs1_write or mcsfs1_unlink has written when it is cut short, the     *)
(* disk is as each position in these calls says.                           *)
THEOREM FsInvariance == Spec => []FsInv
BY InitFs, NextFs, PTL DEF Spec

(* A disk that mcsfs1_mount accepts is one that mcsfs1_fsck accepts,       *)
(* wherever in a format, create, write or unlink the power went.           *)
THEOREM MountedIsSound == Spec => []MountableIsSound
<1>1. FsInv => MountableIsSound
  <2> SUFFICES ASSUME FsInv, Mountable PROVE FsckOk
    BY DEF MountableIsSound
  <2>1. Sound(ib, bb, table, dir) /\ Types
    BY DEF FsInv
  <2>2. ASSUME NEW s \in Slot, dir[s].ino # 0
        PROVE  /\ dir[s].ino \in ib /\ table[dir[s].ino].mode = "FILE"
               /\ \A j \in 1..BlocksNeeded(table[dir[s].ino].size) : table[dir[s].ino].direct[j] \in DataLba \cap bb
    <3>1. GoodFile(ib, bb, table, dir, s)
      BY <2>1, <2>2 DEF Sound, Named
    <3> DEFINE n == table[dir[s].ino]
    <3>2. dir[s].ino \in Ino
      BY <3>1, Numbers DEF GoodFile, Ino
    <3>3. n.size \in 0..Direct /\ Holds(n, bb) /\ Reaches(n, n.size)
      BY <2>1, <3>1, <3>2 DEF Types, Inode, GoodFile
    <3> HIDE DEF n
    <3>4. 1..BlocksNeeded(n.size) \subseteq 1..Direct
      BY <3>3, Numbers DEF BlocksNeeded
    <3>5. \A j \in 1..BlocksNeeded(n.size) : n.direct[j] \in DataLba \cap bb
      BY <3>3, <3>4 DEF Holds, Reaches
    <3> QED
      BY <3>1, <3>5 DEF GoodFile, n
  <2> QED
    BY <2>1, <2>2 DEF FsckOk, Sound
<1> QED
  BY <1>1, FsInvariance, PTL

(* No two directory entries share an inode and no two files a block, and   *)
(* the bitmap marks every block a file holds, which mcsfs1_fsck does not   *)
(* look at.                                                                *)
THEOREM Disjoint == Spec => []FilesDisjoint
<1>1. FsInv => FilesDisjoint
  <2> SUFFICES ASSUME FsInv, Mountable PROVE FilesDisjoint
    BY DEF FilesDisjoint
  <2>1. Sound(ib, bb, table, dir)
    BY DEF FsInv
  <2>2. \A r, s \in Slot : dir[r].ino # 0 /\ dir[r].ino = dir[s].ino => r = s
    BY <2>1 DEF Sound, Named
  <2>3. ASSUME NEW i \in NamedInos
        PROVE  \E s \in Slot : Named(dir, s) /\ i = dir[s].ino /\ GoodFile(ib, bb, table, dir, s)
    BY <2>1 DEF NamedInos, Sound, Named
  <2>4. ASSUME NEW i \in NamedInos, NEW k \in NamedInos, i # k PROVE BlocksOf(i) \cap BlocksOf(k) = {}
    <3>1. PICK s \in Slot : i = dir[s].ino /\ GoodFile(ib, bb, table, dir, s)
      BY <2>3
    <3>2. PICK r \in Slot : Named(dir, r) /\ k = dir[r].ino
      BY <2>3
    <3>3. \A j, l \in 1..Direct : table[i].direct[j] # 0 => table[i].direct[j] # table[k].direct[l]
      BY <2>4, <3>1, <3>2 DEF GoodFile, Apart
    <3> QED
      BY <3>3 DEF BlocksOf
  <2>5. ASSUME NEW i \in NamedInos
        PROVE  /\ BlocksOf(i) \subseteq bb \cap DataLba
               /\ \A j, k \in 1..Direct : table[i].direct[j] # 0 /\ j # k => table[i].direct[j] # table[i].direct[k]
    <3>1. Holds(table[i], bb)
      BY <2>3 DEF GoodFile
    <3> QED
      BY <3>1 DEF Holds, BlocksOf
  <2> QED
    BY <2>2, <2>4, <2>5 DEF FilesDisjoint
<1> QED
  BY <1>1, FsInvariance, PTL

(* While no call has been cut short, the bitmaps mark exactly what the     *)
(* directory reaches: mcsfs1_unlink gives everything back.                 *)
THEOREM NoLeak == Spec => []NothingLeaks
<1>1. FsInv => NothingLeaks
  <2> SUFFICES ASSUME FsInv, Mountable, pc = "idle", ~lossy
               PROVE  /\ ib = {0, RootIno} \cup NamedInos
                      /\ bb = MetaLba \cup UNION {BlocksOf(i) : i \in NamedInos}
    BY DEF NothingLeaks
  <2>1. Sound(ib, bb, table, dir) /\ ib \subseteq 0..MaxIno /\ bb \subseteq Lba
    BY DEF FsInv, Types
  <2>2. Exact(ib, bb, table, dir, {}, {})
    <3>1. ExtraInos = {} /\ ExtraBlocks = {}
      BY DEF ExtraInos, ExtraBlocks
    <3> QED
      BY <3>1 DEF FsInv
  <2>3. \A i : i \in NamedInos <=> \E s \in Slot : Named(dir, s) /\ i = dir[s].ino
    BY DEF NamedInos, Named
  <2>4. NamedInos \subseteq 0..MaxIno /\ {0, RootIno} \subseteq 0..MaxIno
    BY <2>1, <2>3, Numbers DEF Sound, GoodFile, RootIno
  <2>5. ib = {0, RootIno} \cup NamedInos
    BY <2>1, <2>2, <2>3, <2>4 DEF Exact
  <2>6. \A i : BlocksIn(table[i]) = BlocksOf(i)
    BY DEF BlocksIn, BlocksOf
  <2>7. \A i \in NamedInos : BlocksOf(i) \subseteq Lba
    <3> SUFFICES ASSUME NEW i \in NamedInos PROVE BlocksOf(i) \subseteq Lba
      OBVIOUS
    <3>1. Holds(table[i], bb)
      BY <2>1, <2>3 DEF Sound, GoodFile
    <3> QED
      BY <3>1, Addresses DEF Holds, BlocksOf
  <2>8. ASSUME NEW b PROVE b \in bb <=> b \in MetaLba \cup UNION {BlocksOf(i) : i \in NamedInos}
    <3>1. b \in UNION {BlocksOf(i) : i \in NamedInos} <=> \E s \in Slot : Named(dir, s) /\ b \in BlocksIn(table[dir[s].ino])
      BY <2>3, <2>6
    <3>2. b \in MetaLba \cup UNION {BlocksOf(i) : i \in NamedInos} => b \in Lba
      BY <2>7, Addresses
    <3> QED
      BY <2>1, <2>2, <3>1, <3>2 DEF Exact
  <2> QED
    BY <2>5, <2>8
<1> QED
  BY <1>1, FsInvariance, PTL

-----------------------------------------------------------------------------
(* What a read returns. *)

(* The entries named n are the same in D and E. *)
SameName(D, E, n) == \A s \in Slot : /\ (Named(E, s) /\ E[s].name = n) <=> (Named(D, s) /\ D[s].name = n)
                                     /\ Named(D, s) /\ D[s].name = n => E[s].ino = D[s].ino

(* So are the inodes of the others, and their blocks. *)
SameFile(D, T, U, d, e, n) ==
  \A s \in Slot : IsFirst(D, s, n) =>
    /\ U[D[s].ino] = T[D[s].ino]
    /\ \A j \in 1..T[D[s].ino].size : e[T[D[s].ino].direct[j]] = d[T[D[s].ino].direct[j]]

(* Then a read returns the same. *)
LEMMA BackKept ==
  ASSUME NEW c, NEW D, NEW E, NEW T, NEW U, NEW d, NEW e, NEW n, Back(c, D, T, d, n),
         SameName(D, E, n), SameFile(D, T, U, d, e, n)
  PROVE  Back(c, E, U, e, n)
<1>1. CASE c = Absent /\ \A s \in Slot : ~(Named(D, s) /\ D[s].name = n)
  BY <1>1 DEF Back, SameName
<1>2. CASE /\ c \in Contents \cup {<<>>}
           /\ \E s \in Slot : IsFirst(D, s, n) /\ Shows(T[D[s].ino], d, T[D[s].ino].size, c)
  <2>1. PICK s \in Slot : IsFirst(D, s, n) /\ Shows(T[D[s].ino], d, T[D[s].ino].size, c)
    BY <1>2
  <2>2. IsFirst(E, s, n) /\ E[s].ino = D[s].ino
    BY <2>1 DEF IsFirst, SameName
  <2>3. Shows(U[D[s].ino], e, U[D[s].ino].size, c)
    BY <2>1 DEF Shows, SameFile
  <2> QED
    BY <1>2, <2>2, <2>3 DEF Back
<1> QED
  BY <1>1, <1>2 DEF Back

(* Inodes no entry names do not matter. *)
LEMMA AllBackSame ==
  ASSUME NEW E, NEW D, NEW T, NEW U, NEW d, AllBack(E, D, T, d), SameFiles(T, U, D)
  PROVE  AllBack(E, D, U, d)
<1>1. ASSUME NEW n \in Names, E[n] # Torn PROVE Back(E[n], D, U, d, n)
  <2>1. SameName(D, D, n)
    BY DEF SameName
  <2>2. SameFile(D, T, U, d, d, n)
    BY DEF SameFile, SameFiles, IsFirst
  <2>3. Back(E[n], D, T, d, n)
    BY <1>1 DEF AllBack
  <2> QED
    BY <2>1, <2>2, <2>3, BackKept
<1> QED
  BY <1>1 DEF AllBack

(* A step that leaves the files alone and is not inside write or unlink's  *)
(* first write.                                                            *)
LEMMA ReadSteps ==
  ASSUME ReadInv, super' = super, table'[RootIno] = table[RootIno], dir' = dir, data' = data, expect' = expect,
         SameFiles(table, table', dir), pc' \notin WritePcs, pc' # "unlink_dirent"
  PROVE  ReadInv'
<1>1. Mountable' <=> Mountable
  BY DEF Mountable
<1>2. Mountable => AllBack(expect, dir, table', data)
  BY AllBackSame DEF ReadInv
<1> QED
  BY <1>1, <1>2 DEF ReadInv, WritePcs

(* It holds at the start. *)
LEMMA InitRead == Init => ReadInv
BY DEF Init, ReadInv, Mountable, WritePcs

(* Without names of the full length the first entry that has the name is   *)
(* the one find_dirent returns.                                            *)
LEMMA FindIs ==
  ASSUME LongNames = {}, NEW n \in Names, NEW z \in BOOLEAN
  PROVE  FindDirent(n, z) = {s \in Slot : IsFirst(dir, s, n)}
BY DEF FindDirent, Matches, IsFirst, Named

(* mcsfs1_write and mcsfs1_unlink work on that entry. *)
LEMMA CallsRead ==
  ASSUME LongNames = {}, FsInv, ReadInv, Calls
  PROVE  ReadInv'
<1>1. CASE \E n \in Names, z \in BOOLEAN : CallCreate(n, z)
  BY <1>1, ReadSteps DEF CallCreate, Start, SameFiles, WritePcs
<1>2. CASE Mount
  BY <1>2, ReadSteps DEF Mount, SameFiles, WritePcs
<1>3. CASE CallFormat
  <2>1. AllBack(expect', dir', table', data')
    BY <1>3 DEF CallFormat, AllBack
  <2> QED
    BY <1>3, <2>1 DEF ReadInv, CallFormat, WritePcs
<1>4. ASSUME NEW n \in Names, NEW z \in BOOLEAN, NEW c \in Contents, CallWrite(n, c, z) PROVE ReadInv'
  <2>1. PICK s \in FindDirent(n, z) : Start("alloc", WriteOp(n, dir[s].ino, table[dir[s].ino], c))
    BY <1>4 DEF CallWrite, WriteOp
  <2>2. s \in Slot /\ IsFirst(dir, s, n)
    BY <2>1, FindIs
  <2>3. pc' = "alloc" /\ UNCHANGED <<super, table, dir, data, expect>> /\ op' = WriteOp(n, dir[s].ino, table[dir[s].ino], c)
    BY <2>1 DEF Start
  <2>4. op'.name = n /\ op'.ino = dir[s].ino
    BY <2>3 DEF WriteOp, NoOp
  <2>5. Mountable' <=> Mountable
    BY <2>3 DEF Mountable
  <2>6. Mountable' => AllBack(expect', dir', table', data')
    BY <2>3, <2>5 DEF ReadInv
  <2> QED
    BY <2>2, <2>3, <2>4, <2>6 DEF ReadInv, WritePcs
<1>5. ASSUME NEW n \in Names, NEW z \in BOOLEAN, CallUnlink(n, z) PROVE ReadInv'
  <2>1. PICK s \in FindDirent(n, z) : Start("unlink_dirent", EntryOp(n, s, dir[s].ino, table[dir[s].ino]))
    BY <1>5 DEF CallUnlink, EntryOp
  <2>2. s \in Slot /\ IsFirst(dir, s, n)
    BY <2>1, FindIs
  <2>3. /\ pc' = "unlink_dirent" /\ UNCHANGED <<super, table, dir, data, expect>>
        /\ op' = EntryOp(n, s, dir[s].ino, table[dir[s].ino])
    BY <2>1 DEF Start
  <2>4. op'.name = n /\ op'.slot = s
    BY <2>3 DEF EntryOp, NoOp
  <2>5. Mountable' <=> Mountable
    BY <2>3 DEF Mountable
  <2>6. Mountable' => AllBack(expect', dir', table', data')
    BY <2>3, <2>5 DEF ReadInv
  <2> QED
    BY <2>2, <2>3, <2>4, <2>6 DEF ReadInv, WritePcs
<1> QED
  BY <1>1, <1>2, <1>3, <1>4, <1>5 DEF Calls

(* mcsfs1_format leaves no disk to mount, then an empty one. *)
LEMMA FormatRead ==
  ASSUME FsInv, ReadInv, ZeroBlock \/ FormatSuper \/ FormatInodeBitmap \/ FormatBlockBitmap \/ FormatRoot
  PROVE  ReadInv'
<1>1. pc' \notin WritePcs /\ pc' # "unlink_dirent"
  BY DEF ZeroBlock, FormatSuper, FormatInodeBitmap, FormatBlockBitmap, FormatRoot, At, Last, WritePcs
<1>2. CASE ZeroBlock
  <2>1. ~super'
    <3>1. op.i \in 0..LastBlk /\ (op.i > 0 => ~super)
      BY <1>2 DEF ZeroBlock, At, FsInv, Formatting
    <3>2. op.i = 0 \/ op.i > 0
      BY <3>1, Numbers
    <3> QED
      BY <1>2, <3>1, <3>2 DEF ZeroBlock
  <2> QED
    BY <1>1, <2>1 DEF ReadInv, Mountable, WritePcs
<1>3. CASE FormatSuper \/ FormatInodeBitmap \/ FormatBlockBitmap
  <2>1. NoInodes /\ table' = table
    BY <1>3 DEF FormatSuper, FormatInodeBitmap, FormatBlockBitmap, At, FsInv, Formatting
  <2>2. ~Mountable'
    BY <2>1, NoRoot DEF Mountable
  <2> QED
    BY <1>1, <2>2 DEF ReadInv, WritePcs
<1>4. CASE FormatRoot
  <2>1. NoEntries /\ dir' = dir /\ expect' = [n \in Names |-> Absent]
    BY <1>4 DEF FormatRoot, Last, FsInv, Formatting
  <2>2. AllBack(expect', dir', table', data')
    BY <2>1 DEF AllBack, Back, NoEntries
  <2> QED
    BY <1>1, <2>2 DEF ReadInv, WritePcs
<1> QED
  BY <1>2, <1>3, <1>4

(* mcsfs1_create up to its last write changes no file. *)
LEMMA CreateRead ==
  ASSUME FsInv, ReadInv, CreateInodeBitmap \/ CreateBlockBitmap \/ CreateInode
  PROVE  ReadInv'
<1>1. /\ pc \in CreatePcs /\ pc' \in CreatePcs
      /\ super' = super /\ dir' = dir /\ data' = data /\ expect' = expect
      /\ (table' = table \/ table' = [table EXCEPT ![op.ino] = op.inode])
  BY DEF CreateInodeBitmap, CreateBlockBitmap, CreateInode, At, CreatePcs
<1>2. Creating /\ pc \in CallPcs /\ pc' \notin WritePcs /\ pc' # "unlink_dirent"
  BY <1>1 DEF FsInv, InCall, CallPcs, CreatePcs, WritePcs
<1>3. Types /\ op.ino \in 2..MaxIno /\ \A s \in Slot : dir[s].ino # op.ino
  BY <1>2 DEF FsInv, Creating
<1>4. table \in [Ino -> Inode] /\ RootIno \in Ino /\ op.ino # RootIno
  BY <1>3, Numbers DEF Types, Ino, RootIno
<1>5. SameFiles(table, table', dir) /\ table'[RootIno] = table[RootIno]
  <2>1. CASE table' = table
    BY <2>1 DEF SameFiles
  <2>2. CASE table' = [table EXCEPT ![op.ino] = op.inode]
    <3>1. \A s \in Slot : table'[dir[s].ino] = table[dir[s].ino]
      BY <1>3, <1>4, <2>2
    <3> QED
      BY <1>4, <2>2, <3>1 DEF SameFiles
  <2> QED
    BY <1>1, <2>1, <2>2
<1> QED
  BY <1>1, <1>2, <1>5, ReadSteps

(* Its last write makes an empty file. *)
LEMMA CreateDirentRead == ASSUME FsInv, ReadInv, CreateDirent PROVE ReadInv'
<1> DEFINE e == [ino |-> op.ino, name |-> op.name]
<1>1. /\ pc = "create_dirent" /\ pc' = "idle" /\ dir' = [dir EXCEPT ![op.slot] = e]
      /\ expect' = [expect EXCEPT ![op.name] = IF Doubled(op.name, op.slot) THEN Torn ELSE <<>>]
      /\ super' = super /\ table' = table /\ data' = data
  BY DEF CreateDirent, Last
<1>2. Creating /\ pc \in CallPcs
  BY <1>1 DEF FsInv, InCall, CallPcs, CreatePcs
<1>3. Types /\ Mountable
  BY <1>2, CallFacts DEF Mountable
<1>4. /\ op.name \in Names /\ ~Named(dir, op.slot) /\ op.slot \in Slot /\ op.ino # 0
      /\ table[op.ino] = op.inode /\ DOMAIN expect = Names
      /\ \E b \in DataLba : op.inode = NewInode(b)
  BY <1>1, <1>2, <1>3, Numbers DEF Creating, Types, Op
<1>5. e.ino = op.ino /\ e.name = op.name
  OBVIOUS
<1> HIDE DEF e
<1>6. \A r \in Slot : dir'[r] = IF r = op.slot THEN e ELSE dir[r]
  BY <1>1, <1>3 DEF Types
<1>7. ASSUME NEW n \in Names, expect'[n] # Torn PROVE Back(expect'[n], dir', table', data', n)
  <2>1. CASE n = op.name
    <3>1. ~Doubled(n, op.slot) /\ expect'[n] = <<>>
      BY <1>1, <1>4, <1>7, <2>1
    <3>2. IsFirst(dir', op.slot, n)
      <4>1. \A r \in Slot : r < op.slot => r # op.slot
        BY <1>4, Numbers DEF Slot
      <4>2. \A r \in Slot : r # op.slot => ~(Named(dir', r) /\ dir'[r].name = n)
        BY <1>6, <3>1 DEF Doubled, Named
      <4>3. Named(dir', op.slot) /\ dir'[op.slot].name = n
        BY <1>4, <1>5, <1>6, <2>1 DEF Named
      <4> QED
        BY <4>1, <4>2, <4>3 DEF IsFirst
    <3>3. dir'[op.slot].ino = op.ino /\ table[op.ino].size = 0
      BY <1>4, <1>5, <1>6, NewIs
    <3>4. Shows(table[op.ino], data, 0, <<>>)
      BY DEF Shows
    <3> QED
      BY <1>1, <1>4, <3>1, <3>2, <3>3, <3>4 DEF Back
  <2>2. CASE n # op.name
    <3>1. expect'[n] = expect[n]
      BY <1>1, <1>4, <2>2
    <3>2. SameName(dir, dir', n)
      BY <1>4, <1>5, <1>6, <2>2 DEF SameName, Named
    <3>3. SameFile(dir, table, table', data, data', n)
      BY <1>1 DEF SameFile
    <3>4. Back(expect[n], dir, table, data, n)
      BY <1>3, <1>7, <3>1 DEF ReadInv, AllBack
    <3> QED
      BY <3>1, <3>2, <3>3, <3>4, BackKept
  <2> QED
    BY <2>1, <2>2
<1> QED
  BY <1>1, <1>7 DEF ReadInv, AllBack, WritePcs

(* The allocations of mcsfs1_write change no file. *)
LEMMA AllocRead ==
  ASSUME FsInv, ReadInv, AllocDataBlock \/ KeepDataBlock \/ AllocDone
  PROVE  ReadInv'
<1>1. /\ pc = "alloc" /\ (pc' = "alloc" \/ pc' = "write_data")
      /\ super' = super /\ dir' = dir /\ data' = data /\ expect' = expect /\ table' = table
      /\ (op' = GrowOp(op, Min(FreeBlks)) \/ op' = NextOp(op, op.i + 1) \/ op' = NextOp(op, 1))
      /\ (pc' = "write_data" => op' = NextOp(op, 1))
  BY DEF AllocDataBlock, KeepDataBlock, AllocDone, At, NextOp, GrowOp
<1>2. op'.name = op.name /\ op'.ino = op.ino /\ (pc' = "write_data" => op'.i = 1)
  <2>1. op \in Op
    BY DEF FsInv, Types
  <2> QED
    BY <1>1, <2>1 DEF Op, NextOp, GrowOp
<1>3. Mountable' <=> Mountable
  BY <1>1 DEF Mountable
<1>4. Mountable' => AllBack(expect', dir', table', data')
  BY <1>1, <1>3 DEF ReadInv
<1>5. \E s \in Slot : IsFirst(dir', s, op'.name) /\ dir'[s].ino = op'.ino
  BY <1>1, <1>2 DEF ReadInv, WritePcs
<1>6. pc' = "write_data" => /\ \A j \in 1..Len0' : ~(j < op'.i)
                            /\ ~(op'.i > 1)
  BY <1>2
<1> QED
  BY <1>1, <1>4, <1>5, <1>6 DEF ReadInv, WritePcs

(* A data block is written into the file of the call only. *)
LEMMA WriteDataRead == ASSUME FsInv, ReadInv, WriteData PROVE ReadInv'
<1> DEFINE d == op.inode.direct[op.i]
           v == IF op.i <= Len0 THEN op.content[op.i] ELSE Zero
<1>1. /\ pc = "write_data" /\ pc' = (IF op.i = BlocksNeeded(Len0) THEN "write_inode" ELSE "write_data")
      /\ super' = super /\ dir' = dir /\ table' = table /\ data' = [data EXCEPT ![d] = v]
      /\ op' = NextOp(op, op.i + 1) /\ expect' = [expect EXCEPT ![op.name] = Torn]
  BY DEF WriteData, At, NextOp, Len0
<1>2. pc \in WritePcs
  BY <1>1 DEF WritePcs
<1>3. /\ Writing /\ op \in Op /\ Types /\ Sound(ib, bb, table, dir) /\ pc \in CallPcs
      /\ Len0 \in Nat /\ BlocksNeeded(Len0) \in 1..Direct /\ Len0 <= BlocksNeeded(Len0)
  BY <1>2, WriteFacts
<1>4. /\ op.i \in 1..BlocksNeeded(Len0) /\ Reaches(op.inode, Len0) /\ Holds(op.inode, bb)
      /\ Apart(table, dir, op.inode, op.ino) /\ op.name \in Names
  BY <1>1, <1>3 DEF Writing
<1>5. op.i \in Nat /\ op.i \in 1..Direct
  BY <1>3, <1>4, Numbers
<1>6. d # 0 /\ d \in DataLba /\ DOMAIN data = DataLba /\ DOMAIN expect = Names
  BY <1>3, <1>4, <1>5 DEF Holds, Reaches, Types
<1>7. /\ op'.name = op.name /\ op'.ino = op.ino /\ op'.inode = op.inode /\ op'.content = op.content
      /\ op'.i = op.i + 1 /\ Len0' = Len0
  BY <1>1, <1>3, <1>5, NextOpIs DEF Len0
<1>8. \A b \in DataLba : data'[b] = IF b = d THEN v ELSE data[b]
  BY <1>1, <1>6
<1>9. PICK s \in Slot : IsFirst(dir, s, op.name) /\ dir[s].ino = op.ino
  BY <1>2 DEF ReadInv
<1>10. Mountable
  BY <1>3, CallFacts DEF Mountable
<1>11. expect'[op.name] = Torn /\ \A n \in Names : n # op.name => expect'[n] = expect[n]
  BY <1>1, <1>4, <1>6
<1> HIDE DEF v
<1>12. ASSUME NEW n \in Names, expect'[n] # Torn PROVE Back(expect'[n], dir', table', data', n)
  <2>1. n # op.name /\ expect'[n] = expect[n]
    BY <1>11, <1>12
  <2>2. SameName(dir, dir', n)
    BY <1>1 DEF SameName
  <2>3. SameFile(dir, table, table', data, data', n)
    <3> SUFFICES ASSUME NEW r \in Slot, IsFirst(dir, r, n), NEW j \in 1..table[dir[r].ino].size
                 PROVE  data'[table[dir[r].ino].direct[j]] = data[table[dir[r].ino].direct[j]]
      BY <1>1 DEF SameFile
    <3>1. r # s /\ Named(dir, r) /\ dir[r].ino # op.ino
      BY <1>3, <1>9, <2>1 DEF IsFirst, Sound
    <3>2. GoodFile(ib, bb, table, dir, r) /\ dir[r].ino \in Ino
      BY <1>3, <3>1, Numbers DEF Sound, GoodFile, Ino
    <3>3. table[dir[r].ino].size \in 0..Direct
      BY <1>3, <3>2 DEF Types, Inode
    <3>4. j \in 1..Direct /\ j \in 1..BlocksNeeded(table[dir[r].ino].size)
      BY <3>3, Numbers DEF BlocksNeeded
    <3>5. table[dir[r].ino].direct[j] # d
      BY <1>4, <1>5, <1>6, <3>1, <3>4 DEF Apart
    <3>6. table[dir[r].ino].direct[j] \in DataLba
      BY <3>2, <3>4 DEF GoodFile, Holds, Reaches
    <3> QED
      BY <1>8, <3>5, <3>6
  <2>4. Back(expect[n], dir, table, data, n)
    BY <1>10, <1>12, <2>1 DEF ReadInv, AllBack
  <2> QED
    BY <2>1, <2>2, <2>3, <2>4, BackKept
<1>13. ASSUME NEW j \in 1..Len0, j < op.i + 1 PROVE data'[op.inode.direct[j]] = op.content[j]
  <2>1. j \in 1..Direct /\ j \in 1..BlocksNeeded(Len0)
    BY <1>3, Numbers
  <2>2. op.inode.direct[j] \in DataLba /\ op.inode.direct[j] # 0
    BY <1>4, <2>1 DEF Holds, Reaches
  <2>3. CASE j = op.i
    <3>1. v = op.content[j]
      BY <1>3, <1>5, <2>3 DEF v
    <3> QED
      BY <1>8, <2>2, <2>3, <3>1
  <2>4. CASE j # op.i
    <3>1. j < op.i
      BY <1>3, <1>5, <1>13, <2>4
    <3>2. op.inode.direct[j] # d
      BY <1>4, <1>5, <2>1, <2>2, <2>4 DEF Holds
    <3>3. data[op.inode.direct[j]] = op.content[j]
      BY <1>1, <3>1 DEF ReadInv
    <3> QED
      BY <1>8, <2>2, <3>2, <3>3
  <2> QED
    BY <2>3, <2>4
<1>14. ASSUME NEW j \in 1..Len0, pc' = "write_inode" PROVE j < op.i + 1
  BY <1>1, <1>3, <1>4, <1>5, <1>14
<1>15. AllBack(expect', dir', table', data')
  BY <1>12 DEF AllBack
<1>16. \E r \in Slot : IsFirst(dir', r, op'.name) /\ dir'[r].ino = op'.ino
  BY <1>1, <1>7, <1>9
<1>17. \A j \in 1..Len0' : (pc' = "write_data" => j < op'.i) => data'[op'.inode.direct[j]] = op'.content[j]
  BY <1>1, <1>7, <1>13, <1>14
<1>18. expect'[op'.name] = Torn /\ pc' # "unlink_dirent"
  BY <1>1, <1>7, <1>11
<1> QED
  BY <1>15, <1>16, <1>17, <1>18 DEF ReadInv

(* The inode makes the new content visible. *)
LEMMA WriteInodeRead == ASSUME FsInv, ReadInv, WriteInode PROVE ReadInv'
<1> DEFINE m == Resized(op.inode, Len0)
<1>1. /\ pc = "write_inode" /\ pc' = "idle"
      /\ super' = super /\ dir' = dir /\ data' = data
      /\ table' = [table EXCEPT ![op.ino] = m] /\ expect' = [expect EXCEPT ![op.name] = op.content]
  BY DEF WriteInode, Last, Resized, Len0
<1>2. pc \in WritePcs
  BY <1>1 DEF WritePcs
<1>3. /\ Writing /\ op \in Op /\ Types /\ Sound(ib, bb, table, dir) /\ pc \in CallPcs
      /\ Len0 \in 0..Direct /\ op.ino \in Ino
  BY <1>2, WriteFacts
<1>4. op.inode \in Inode /\ op.name \in Names /\ op.content \in Contents /\ DOMAIN expect = Names /\ table \in [Ino -> Inode]
  BY <1>3 DEF Op, Writing, Types
<1>5. m.size = Len0 /\ m.direct = op.inode.direct
  BY <1>3, <1>4, ResizedIs
<1> HIDE DEF m
<1>6. PICK s \in Slot : IsFirst(dir, s, op.name) /\ dir[s].ino = op.ino
  BY <1>2 DEF ReadInv
<1>7. Mountable
  BY <1>3, CallFacts DEF Mountable
<1>8. ASSUME NEW n \in Names, expect'[n] # Torn PROVE Back(expect'[n], dir', table', data', n)
  <2>1. CASE n = op.name
    <3>1. expect'[n] = op.content /\ table'[op.ino] = m
      BY <1>1, <1>3, <1>4, <2>1
    <3>2. \A j \in 1..Len0 : data[op.inode.direct[j]] = op.content[j]
      BY <1>1 DEF ReadInv
    <3>3. Shows(m, data, Len0, op.content)
      BY <1>5, <3>2 DEF Shows, Len0
    <3> QED
      BY <1>1, <1>4, <1>5, <1>6, <2>1, <3>1, <3>3 DEF Back
  <2>2. CASE n # op.name
    <3>1. expect'[n] = expect[n]
      BY <1>1, <1>4, <2>2
    <3>2. SameName(dir, dir', n)
      BY <1>1 DEF SameName
    <3>3. SameFile(dir, table, table', data, data', n)
      <4>1. ASSUME NEW r \in Slot, IsFirst(dir, r, n) PROVE table'[dir[r].ino] = table[dir[r].ino]
        <5>1. Named(dir, r) /\ dir[r].ino # op.ino
          BY <1>3, <1>6, <2>2, <4>1 DEF IsFirst, Sound
        <5> QED
          BY <1>1, <1>4, <5>1
      <4> QED
        BY <1>1, <4>1 DEF SameFile
    <3>4. Back(expect[n], dir, table, data, n)
      BY <1>7, <1>8, <3>1 DEF ReadInv, AllBack
    <3> QED
      BY <3>1, <3>2, <3>3, <3>4, BackKept
  <2> QED
    BY <2>1, <2>2
<1> QED
  BY <1>1, <1>8 DEF ReadInv, AllBack, WritePcs

(* mcsfs1_unlink takes its file away with its first write. *)
LEMMA UnlinkDirentRead == ASSUME FsInv, ReadInv, UnlinkDirent PROVE ReadInv'
<1>1. /\ pc = "unlink_dirent" /\ pc' = "unlink_ib" /\ dir' = [dir EXCEPT ![op.slot] = FreeDirent]
      /\ expect' = [expect EXCEPT ![op.name] = IF Doubled(op.name, op.slot) THEN Torn ELSE Absent]
      /\ super' = super /\ table' = table /\ data' = data
  BY DEF UnlinkDirent, At
<1>2. pc \in UnlinkPcs
  BY <1>1 DEF UnlinkPcs
<1>3. Unlinking /\ Types /\ op.slot \in Slot /\ pc \in CallPcs
  BY <1>2, UnlinkFacts
<1>4. Mountable /\ op.name \in Names /\ IsFirst(dir, op.slot, op.name) /\ DOMAIN expect = Names
  BY <1>1, <1>3, CallFacts DEF Mountable, Unlinking, ReadInv, Types
<1>5. \A r \in Slot : dir'[r] = IF r = op.slot THEN FreeDirent ELSE dir[r]
  BY <1>1, <1>3 DEF Types
<1>6. ~Named(dir', op.slot)
  BY <1>3, <1>5, Constants DEF Named
<1>7. ASSUME NEW n \in Names, expect'[n] # Torn PROVE Back(expect'[n], dir', table', data', n)
  <2>1. CASE n = op.name
    <3>1. ~Doubled(n, op.slot) /\ expect'[n] = Absent
      BY <1>1, <1>4, <1>7, <2>1
    <3>2. \A r \in Slot : ~(Named(dir', r) /\ dir'[r].name = n)
      BY <1>5, <1>6, <3>1 DEF Doubled, Named
    <3> QED
      BY <3>1, <3>2 DEF Back
  <2>2. CASE n # op.name
    <3>1. expect'[n] = expect[n]
      BY <1>1, <1>4, <2>2
    <3>2. SameName(dir, dir', n)
      BY <1>4, <1>5, <1>6, <2>2 DEF SameName, Named, IsFirst
    <3>3. SameFile(dir, table, table', data, data', n)
      BY <1>1 DEF SameFile
    <3>4. Back(expect[n], dir, table, data, n)
      BY <1>4, <1>7, <3>1 DEF ReadInv, AllBack
    <3> QED
      BY <3>1, <3>2, <3>3, <3>4, BackKept
  <2> QED
    BY <2>1, <2>2
<1> QED
  BY <1>1, <1>7 DEF ReadInv, AllBack, WritePcs

(* The rest of it changes no file. *)
LEMMA UnlinkRead ==
  ASSUME FsInv, ReadInv, UnlinkInodeBitmap \/ UnlinkBlockBitmap \/ UnlinkInode
  PROVE  ReadInv'
<1>1. /\ pc \in UnlinkPcs /\ pc # "unlink_dirent" /\ pc' \notin WritePcs /\ pc' # "unlink_dirent"
      /\ super' = super /\ dir' = dir /\ data' = data /\ expect' = expect
      /\ (table' = table \/ table' = [table EXCEPT ![op.ino] = FreeInode])
  BY DEF UnlinkInodeBitmap, UnlinkBlockBitmap, UnlinkInode, At, Last, UnlinkPcs, WritePcs
<1>2. /\ (\A s \in Slot : dir[s].ino # op.ino) /\ table \in [Ino -> Inode]
      /\ RootIno \in Ino /\ op.ino # RootIno
  BY <1>1, UnlinkFacts DEF Unlinking, Types
<1>3. SameFiles(table, table', dir) /\ table'[RootIno] = table[RootIno]
  <2>1. CASE table' = table
    BY <2>1 DEF SameFiles
  <2>2. CASE table' = [table EXCEPT ![op.ino] = FreeInode]
    <3>1. \A s \in Slot : table'[dir[s].ino] = table[dir[s].ino]
      BY <1>2, <2>2
    <3> QED
      BY <1>2, <2>2, <3>1 DEF SameFiles
  <2> QED
    BY <1>1, <2>1, <2>2
<1> QED
  BY <1>1, <1>3, ReadSteps

(* Every step keeps it. *)
LEMMA NextRead ==
  ASSUME LongNames = {}
  PROVE  FsInv /\ ReadInv /\ [Next]_vars => ReadInv'
<1> SUFFICES ASSUME FsInv, ReadInv, [Next]_vars PROVE ReadInv'
  OBVIOUS
<1>1. CASE Calls
  BY <1>1, CallsRead
<1>2. CASE ZeroBlock \/ FormatSuper \/ FormatInodeBitmap \/ FormatBlockBitmap \/ FormatRoot
  BY <1>2, FormatRead
<1>3. CASE CreateInodeBitmap \/ CreateBlockBitmap \/ CreateInode \/ CreateDirent
  BY <1>3, CreateRead, CreateDirentRead
<1>4. CASE AllocDataBlock \/ KeepDataBlock \/ AllocDone \/ WriteData \/ WriteInode
  BY <1>4, AllocRead, WriteDataRead, WriteInodeRead
<1>5. CASE UnlinkDirent \/ UnlinkInodeBitmap \/ UnlinkBlockBitmap \/ UnlinkInode
  BY <1>5, UnlinkDirentRead, UnlinkRead
<1>6. CASE AllocFails \/ DeviceError \/ Crash
  BY <1>6, ReadSteps DEF AllocFails, DeviceError, Crash, SameFiles, WritePcs
<1>7. CASE UNCHANGED vars
  <2>1. (Mountable' <=> Mountable) /\ Len0' = Len0 /\ AllBack(expect', dir', table', data') = AllBack(expect, dir, table, data)
    BY <1>7 DEF vars, Mountable, Len0
  <2> QED
    BY <1>7, <2>1 DEF vars, ReadInv
<1> QED
  BY <1>1, <1>2, <1>3, <1>4, <1>5, <1>6, <1>7 DEF Next, Writes

(* A content is the function its elements make. *)
LEMMA ContentIs ==
  ASSUME NEW c \in Contents \cup {<<>>}
  PROVE  c = [j \in 1..Len(c) |-> c[j]]
<1>1. CASE c \in Contents
  <2>1. c \in Seq({c[i] : i \in 1..Len(c)})
    BY <1>1, Mcsfs1Assumption, Zenon
  <2> QED
    BY <2>1
<1>2. CASE c = <<>>
  BY <1>2
<1> QED
  BY <1>1, <1>2

(* mcsfs1_read returns what the last mcsfs1_write put there, after any     *)
(* power loss and whatever other files go through, for names shorter than  *)
(* the name field.                                                         *)
THEOREM ReadBack == ASSUME LongNames = {} PROVE Spec => []FilesReadBack
<1>1. FsInv /\ ReadInv => FilesReadBack
  <2> SUFFICES ASSUME FsInv, ReadInv, Mountable, NEW n \in Names, NEW z \in BOOLEAN, expect[n] # Torn
               PROVE  ReadFile(n, z) = expect[n]
    BY DEF FilesReadBack
  <2>1. Back(expect[n], dir, table, data, n) /\ Sound(ib, bb, table, dir) /\ Types
    BY DEF ReadInv, AllBack, FsInv
  <2>2. FindDirent(n, z) = {s \in Slot : IsFirst(dir, s, n)}
    BY FindIs
  <2>3. CASE expect[n] = Absent /\ \A s \in Slot : ~(Named(dir, s) /\ dir[s].name = n)
    <3>1. FindDirent(n, z) = {}
      BY <2>2, <2>3 DEF IsFirst
    <3> QED
      BY <2>3, <3>1 DEF ReadFile
  <2>4. ASSUME expect[n] \in Contents \cup {<<>>}, NEW s \in Slot, IsFirst(dir, s, n),
               Shows(table[dir[s].ino], data, table[dir[s].ino].size, expect[n])
        PROVE  ReadFile(n, z) = expect[n]
    <3> DEFINE m == table[dir[s].ino]
    <3>1. FindDirent(n, z) = {s}
      <4>1. \A r \in Slot : IsFirst(dir, r, n) => ~(r < s) /\ ~(s < r)
        BY <2>4 DEF IsFirst
      <4>2. \A r \in Slot : IsFirst(dir, r, n) => r = s
        BY <4>1, Numbers DEF Slot
      <4> QED
        BY <2>2, <2>4, <4>2
    <3>2. (CHOOSE r \in FindDirent(n, z) : TRUE) = s
      BY <3>1
    <3>3. ReadFile(n, z) = [j \in 1..m.size |-> IF m.direct[j] \in DataLba THEN data[m.direct[j]] ELSE Torn]
      BY <3>1, <3>2 DEF ReadFile
    <3>4. GoodFile(ib, bb, table, dir, s) /\ dir[s].ino \in Ino
      BY <2>1, <2>4, Numbers DEF Sound, GoodFile, IsFirst, Ino
    <3>5. m.size \in 0..Direct /\ Holds(m, bb) /\ Reaches(m, m.size)
      BY <2>1, <3>4 DEF Types, Inode, GoodFile
    <3>6. Len(expect[n]) = m.size /\ \A j \in 1..m.size : data[m.direct[j]] = expect[n][j]
      BY <2>4 DEF Shows
    <3> HIDE DEF m
    <3>7. \A j \in 1..m.size : m.direct[j] \in DataLba
      <4>1. 1..m.size \subseteq 1..Direct /\ 1..m.size \subseteq 1..BlocksNeeded(m.size)
        BY <3>5, Numbers DEF BlocksNeeded
      <4> QED
        BY <3>5, <4>1 DEF Holds, Reaches
    <3>8. ReadFile(n, z) = [j \in 1..m.size |-> expect[n][j]]
      BY <3>3, <3>6, <3>7
    <3> QED
      BY <2>4, <3>6, <3>8, ContentIs
  <2> QED
    BY <2>1, <2>3, <2>4 DEF Back
<1>2. FsInv /\ ReadInv /\ [Next]_vars => ReadInv'
  BY NextRead
<1> QED
  BY <1>1, <1>2, InitRead, FsInvariance, PTL DEF Spec
=============================================================================
