-------------------------------- MODULE Vfs --------------------------------
(***************************************************************************)
(* kernel/vfs: descriptor tables of processes (fd.c) over a RAM file       *)
(* system whose files live side by side in one arena (ramfs.c).  A call    *)
(* runs to its end before another starts: the kernel does not preempt it.  *)
(*                                                                         *)
(* The code checks neither the capacity of a file nor the end of the arena *)
(* nor a position given to lseek.  The actions are the handlers as they    *)
(* are; in Next callers seek wherever they like, and keep to Fits and      *)
(* Within where they write.                                                *)
(* Fields of an unused descriptor are never read and are not kept.         *)
(***************************************************************************)
EXTENDS Integers, Sequences

CONSTANTS Proc,        \* processes
          Fd,          \* descriptors of a process, numbers from 0
          Root,        \* the path "/"
          Names,       \* the other absolute paths
          Stored(_),   \* a name after the copy into MCS_MAX_NAME - 1 bytes
          Byte, Buffers, MaxLen,
          SizeT,       \* numbers that a size_t holds
          Positions,   \* arguments of lseek, as a size_t
          AsInt(_),    \* a size_t cast to an int
          MaxNodes,    \* MCS_MAX_NODES
          Capacity,    \* data_capacity of a new file
          ArenaBytes,  \* MCS_RAMFS_DATA_BYTES
          Closed       \* a descriptor that is not in use

ASSUME VfsAssumption ==
  /\ Fd \subseteq Nat /\ Root \notin Names
  /\ 0 \in Byte /\ Buffers \subseteq Seq(Byte)
  /\ MaxNodes \in Nat /\ Capacity \in Nat /\ ArenaBytes \in Nat /\ MaxLen \in Nat
  /\ SizeT \in Nat /\ Capacity < SizeT /\ ArenaBytes <= SizeT
  /\ Positions \subseteq 0..(SizeT - 1)
  /\ Closed \notin [node : Nat, offset : Nat] \cup [file : Nat, pos : Nat]

VARIABLES nodes,      \* fs->nodes up to node_count, the root first
          data,       \* the arena
          data_used,
          files,      \* the descriptor tables
          answer,     \* what the last call returned
          strayed     \* descriptors behind the end of their file since a seek

vars == <<nodes, data, data_used, files, answer, strayed>>

(* The answers of the calls. *)
Ok(n) == [rc |-> "OK", n |-> n]
Got(s) == [rc |-> "OK", n |-> Len(s), bytes |-> s]
Err(e) == [rc |-> e]

(* mcs_ramfs_init and mcs_fd_table_init on zeroed memory. *)
NoFds == [d \in Fd |-> Closed]

Init == /\ nodes = <<[name |-> Root, size |-> 0, data_offset |-> 0, data_capacity |-> 0]>>
        /\ data = [a \in 0..(ArenaBytes - 1) |-> 0]
        /\ data_used = 0
        /\ files = [p \in Proc |-> NoFds]
        /\ answer = Ok(0)
        /\ strayed = {}

fs == <<nodes, data, data_used>>

FdTableInit(p) == /\ files' = [files EXCEPT ![p] = NoFds]
                  /\ answer' = Ok(0)
                  /\ UNCHANGED fs

-----------------------------------------------------------------------------
(* The RAM file system. *)

Least(S) == CHOOSE x \in S : \A y \in S : x <= y

(* mcs_ramfs_lookup compares whole names, so it never finds one that the   *)
(* copy cut short.                                                         *)
Lookup(n) == {i \in DOMAIN nodes : nodes[i].name = n}

(* Mutant: the next file starts one byte early. *)
NewOffsetMutant == data_used + Capacity - 1
NewOffset == data_used + Capacity

(* mcs_ramfs_create_file, with contents of this size to come. *)
CreateFile(n, size) == /\ Len(nodes) < MaxNodes
                       /\ nodes' = Append(nodes, [name |-> Stored(n), size |-> size,
                                                  data_offset |-> data_used,
                                                  data_capacity |-> Capacity])
                       /\ data_used' = NewOffset

(* The loop that copies w into the arena; what lies behind the arena is    *)
(* not modelled.                                                           *)
Stores(start, w) == data' = [a \in DOMAIN data |-> IF a \in start..(start + Len(w) - 1)
                                                     THEN w[a - start + 1] ELSE data[a]]

(* mcs_ramfs_seed_file *)
SeedFile(n, w) == /\ CreateFile(n, Len(w))
                  /\ Stores(data_used, w)
                  /\ answer' = Ok(0)
                  /\ UNCHANGED files

SeedFails(n) == /\ Len(nodes) >= MaxNodes
                /\ answer' = Err("ENOSPC")
                /\ UNCHANGED <<fs, files>>

-----------------------------------------------------------------------------
(* mcs_sys_open *)

FreeFds(p) == {d \in Fd : files[p][d] = Closed}

OpenFd(p, i) == LET d == Least(FreeFds(p))
                IN  /\ files' = [files EXCEPT ![p][d] = [node |-> i, offset |-> 0]]
                    /\ answer' = Ok(d)

Open(p, n) == /\ FreeFds(p) # {}
              /\ Lookup(n) # {}
              /\ OpenFd(p, Least(Lookup(n)))
              /\ UNCHANGED fs

OpenCreates(p, n) == /\ FreeFds(p) # {}
                     /\ Lookup(n) = {}
                     /\ CreateFile(n, 0)
                     /\ OpenFd(p, Len(nodes) + 1)
                     /\ UNCHANGED data

(* Mutant: the descriptor mcs_fd_alloc took is not given back. *)
OpenFailedMutant(p) ==
  files' = [files EXCEPT ![p][Least(FreeFds(p))] = [node |-> 0, offset |-> 0]]
OpenFailed(p) == UNCHANGED files

OpenFindsNothing(p, n, creat) == /\ FreeFds(p) # {}
                                 /\ Lookup(n) = {}
                                 /\ creat => Len(nodes) >= MaxNodes
                                 /\ OpenFailed(p)
                                 /\ answer' = Err("ENOENT")
                                 /\ UNCHANGED fs

OpenRefused(p) == /\ \/ answer' = Err("EINVAL")  \* a relative path
                     \/ FreeFds(p) = {} /\ answer' = Err("ENFILE")
                  /\ UNCHANGED <<fs, files>>

-----------------------------------------------------------------------------
(* Calls on a descriptor. *)

InUse(p, d) == files[p][d] # Closed
Node(p, d) == nodes[files[p][d].node]
Offset(p, d) == files[p][d].offset
Lesser(a, b) == IF a < b THEN a ELSE b

(* The subtraction of unsigned numbers wraps. *)
Avail(p, d) == (Node(p, d).size - Offset(p, d)) % SizeT

(* A descriptor that strayed may read what lies outside the arena: any     *)
(* bytes.                                                                  *)
Read(p, d, len) ==
  LET n == Lesser(len, Avail(p, d))
      at(i) == (Node(p, d).data_offset + Offset(p, d) + i - 1) % SizeT
  IN  /\ InUse(p, d)
      /\ \E bytes \in [1..n -> Byte] :
           /\ \A i \in 1..n : at(i) \in DOMAIN data => bytes[i] = data[at(i)]
           /\ answer' = Got(bytes)
      /\ files' = [files EXCEPT ![p][d].offset = (@ + n) % SizeT]
      /\ UNCHANGED fs

(* Mutant: a write does not grow its file. *)
GrownMutant(size, end) == size
Grown(size, end) == IF end > size THEN end ELSE size

Write(p, d, w) ==
  LET end == Offset(p, d) + Len(w)
  IN  /\ InUse(p, d)
      /\ Stores(Node(p, d).data_offset + Offset(p, d), w)
      /\ files' = [files EXCEPT ![p][d].offset = end]
      /\ nodes' = [nodes EXCEPT ![files[p][d].node].size = Grown(@, end)]
      /\ answer' = Ok(Len(w))
      /\ UNCHANGED data_used

(* mcs_sys_lseek ignores every whence but MCS_SEEK_SET. *)
Lseek(p, d, offset, whence) ==
  /\ InUse(p, d)
  /\ \/ /\ whence = "SET"
        /\ files' = [files EXCEPT ![p][d].offset = offset]
        /\ answer' = Ok(AsInt(offset))
     \/ /\ whence # "SET"
        /\ answer' = Ok(AsInt(Offset(p, d)))
        /\ UNCHANGED files
  /\ UNCHANGED fs

Close(p, d) == /\ InUse(p, d)
               /\ files' = [files EXCEPT ![p][d] = Closed]
               /\ answer' = Ok(0)
               /\ UNCHANGED fs

(* mcs_fd_get finds nothing. *)
BadFd(p, d) == /\ ~InUse(p, d)
               /\ answer' = Err("EBADF")
               /\ UNCHANGED <<fs, files>>

-----------------------------------------------------------------------------
(* The callers: boot code seeds new names with data that fits, and a write *)
(* stays inside the capacity of its file and inside the arena.             *)
Fits(n, w) == /\ Lookup(n) = {}
              /\ Len(w) <= Capacity /\ data_used + Len(w) <= ArenaBytes

Within(p, d, w) == /\ InUse(p, d)
                   /\ Offset(p, d) + Len(w) <= Node(p, d).data_capacity
                   /\ Node(p, d).data_offset + Offset(p, d) + Len(w) <= ArenaBytes

(* The calls but lseek. *)
Call == \/ \E n \in Names : SeedFails(n) \/ \E w \in Buffers : Fits(n, w) /\ SeedFile(n, w)
        \/ \E p \in Proc : \/ FdTableInit(p)
                           \/ \E n \in Names \cup {Root} : \/ Open(p, n) \/ OpenCreates(p, n)
                                                          \/ \E c \in BOOLEAN : OpenFindsNothing(p, n, c)
                           \/ OpenRefused(p)
        \/ \E p \in Proc, d \in Fd :
             \/ \E n \in 0..MaxLen : Read(p, d, n)
             \/ \E w \in Buffers : Within(p, d, w) /\ Write(p, d, w)
             \/ Close(p, d) \/ BadFd(p, d)

(* The descriptors behind the end of their file. *)
Behind == {x \in Proc \X Fd : /\ InUse(x[1], x[2]) /\ files[x[1]][x[2]].node \in DOMAIN nodes
                              /\ Offset(x[1], x[2]) > Node(x[1], x[2]).size}

Next == \/ Call /\ strayed' = strayed \cap Behind'
        \/ \E p \in Proc, d \in Fd, n \in Positions, whence \in {"SET", "CUR"} :
             Lseek(p, d, n, whence) /\ strayed' = (strayed \cup {<<p, d>>}) \cap Behind'

Spec == Init /\ [][Next]_vars

-----------------------------------------------------------------------------
(* Properties. *)

(* Every open descriptor names an existing node, whoever opened, wrote or  *)
(* closed the same file, and it is behind the end of the file only since a *)
(* call of lseek on it, which checks nothing, or a read after one: no      *)
(* other call brings a descriptor there, of this process or another.       *)
DescriptorsValid ==
  /\ \A p \in Proc, d \in Fd : InUse(p, d) => files[p][d].node \in DOMAIN nodes
  /\ Behind \subseteq strayed

(* A node as the bytes it stands for. *)
Contents(node) == [i \in 1..node.size |-> data[node.data_offset + i - 1]]

FileBytes == [i \in DOMAIN nodes |-> Contents(nodes[i])]

(* The descriptors as positions in files. *)
Handles == [p \in Proc |-> [d \in Fd |->
              IF InUse(p, d) THEN [file |-> files[p][d].node, pos |-> Offset(p, d)] ELSE Closed]]

Service == INSTANCE FileService WITH files <- FileBytes, fds <- Handles

(* Processes that keep to Within see files of their own bytes: no write,   *)
(* create, seed or failed open shows in another file or moves another      *)
(* descriptor, and a read inside the file returns what was written last.   *)
(* A read behind its end, where the subtraction in mcs_sys_read wraps, may *)
(* return any bytes, and a write there leaves any bytes in the gap.        *)
FileSpec == Service!Spec
=============================================================================
