----------------------------- MODULE VfsProofs -----------------------------
(***************************************************************************)
(* The descriptors and files of kernel/vfs, for any number of processes,   *)
(* descriptors, names and nodes, and files and arenas of any size.         *)
(***************************************************************************)
EXTENDS Vfs, SequenceTheorems, WellFoundedInduction, TLAPS

(* A descriptor in use, and a node. *)
Handle == [node : Nat, offset : Nat]
NodeNames == {Root} \cup {Stored(n) : n \in Names \cup {Root}}
RamNode == [name : NodeNames, size : Nat, data_offset : Nat, data_capacity : Nat]

VfsTypes == /\ nodes \in Seq(RamNode) /\ data_used \in Nat
            /\ data \in [0..(ArenaBytes - 1) -> Byte]
            /\ files \in [Proc -> [Fd -> Handle \cup {Closed}]]

(* Files lie one behind the other, each in its own part of the arena. *)
PlacedIn(N, used) ==
  /\ \A i \in 1..Len(N) : /\ N[i].size <= N[i].data_capacity
                          /\ N[i].data_capacity <= Capacity
                          /\ N[i].size # 0 => N[i].data_offset + N[i].size <= ArenaBytes
                          /\ N[i].data_offset + N[i].data_capacity <= used
  /\ \A i, j \in 1..Len(N) :
       i < j => N[i].data_offset + N[i].data_capacity <= N[j].data_offset

VfsInv == VfsTypes /\ PlacedIn(nodes, data_used) /\ DescriptorsValid

(* DescriptorsValid, of any nodes, tables and strayed descriptors. *)
ValidIn(N, F, X) == \A p \in Proc, d \in Fd : F[p][d] # Closed =>
                      /\ F[p][d].node \in 1..Len(N)
                      /\ <<p, d>> \in X \/ F[p][d].offset <= N[F[p][d].node].size

(* What a call leaves behind, if the descriptors in X may have strayed. *)
Kept(X) == VfsTypes' /\ PlacedIn(nodes', data_used') /\ ValidIn(nodes', files', X)

(* Numbers that are compared. *)
LEMMA Comparable ==
  ASSUME NEW N \in Seq(RamNode), NEW F \in [Proc -> [Fd -> Handle \cup {Closed}]],
         NEW p \in Proc, NEW d \in Fd, F[p][d] # Closed, F[p][d].node \in 1..Len(N)
  PROVE  F[p][d].offset \in Nat /\ N[F[p][d].node].size \in Nat
<1>1. F[p][d] \in Handle /\ N[F[p][d].node] \in RamNode
  OBVIOUS
<1> QED
  BY <1>1 DEF Handle, RamNode

(* It is the same. *)
LEMMA ValidIs ==
  ASSUME nodes \in Seq(RamNode), files \in [Proc -> [Fd -> Handle \cup {Closed}]], DescriptorsValid
  PROVE  ValidIn(nodes, files, strayed)
<1> SUFFICES ASSUME NEW p \in Proc, NEW d \in Fd, files[p][d] # Closed
             PROVE  /\ files[p][d].node \in 1..Len(nodes)
                    /\ <<p, d>> \in strayed \/ files[p][d].offset <= nodes[files[p][d].node].size
  BY DEF ValidIn
<1>1. files[p][d].node \in 1..Len(nodes) /\ DOMAIN nodes = 1..Len(nodes)
  BY DEF DescriptorsValid, InUse
<1>2. files[p][d].offset \in Nat /\ nodes[files[p][d].node].size \in Nat
  BY <1>1, Comparable
<1>3. CASE files[p][d].offset > nodes[files[p][d].node].size
  <2>1. <<p, d>> \in Proc \X Fd /\ <<p, d>>[1] = p /\ <<p, d>>[2] = d
    OBVIOUS
  <2>2. <<p, d>> \in Behind
    BY <1>1, <1>3, <2>1 DEF Behind, InUse, Offset, Node
  <2> QED
    BY <1>1, <2>2 DEF DescriptorsValid
<1> QED
  BY <1>1, <1>2, <1>3

(* Descriptors that a call leaves behind the end of their file are         *)
(* remembered.                                                             *)
LEMMA Remembered ==
  ASSUME NEW X, Kept(X), strayed' = X \cap Behind'
  PROVE  VfsInv'
<1>1. /\ nodes' \in Seq(RamNode) /\ files' \in [Proc -> [Fd -> Handle \cup {Closed}]]
      /\ DOMAIN nodes' = 1..Len(nodes')
  BY DEF Kept, VfsTypes
<1>2. \A p \in Proc, d \in Fd : InUse(p, d)' => files'[p][d].node \in DOMAIN nodes'
  BY <1>1 DEF Kept, ValidIn, InUse
<1>3. ASSUME NEW x \in Behind' PROVE x \in strayed'
  <2>1. PICK p \in Proc, d \in Fd : x = <<p, d>>
    BY DEF Behind
  <2>2. x[1] = p /\ x[2] = d
    BY <2>1
  <2>3. files'[p][d] # Closed /\ files'[p][d].offset > nodes'[files'[p][d].node].size
        /\ files'[p][d].node \in 1..Len(nodes')
    BY <1>1, <2>2 DEF Behind, InUse, Offset, Node
  <2>4. files'[p][d].offset \in Nat /\ nodes'[files'[p][d].node].size \in Nat
    BY <1>1, <2>3, Comparable
  <2>5. <<p, d>> \in X
    BY <2>3, <2>4 DEF Kept, ValidIn
  <2> QED
    BY <2>1, <2>5
<1>4. DescriptorsValid'
  BY <1>2, <1>3 DEF DescriptorsValid
<1> QED
  BY <1>4 DEF VfsInv, Kept

(* Sets of numbers have a least element. *)
LEMMA LeastIs ==
  ASSUME NEW S, S \subseteq Nat, S # {}
  PROVE  Least(S) \in S /\ \A y \in S : Least(S) <= y
<1>1. \E x \in S : \A y \in S : x <= y
  <2>1. IsWellFoundedOn(OpToRel(<, Nat), Nat)
    BY NatLessThanWellFounded
  <2>2. PICK x \in S : \A y \in S : ~(<<y, x>> \in OpToRel(<, Nat))
    BY <2>1, WFMin
  <2>3. ASSUME NEW y \in S PROVE x <= y
    <3>1. ~(y < x)
      BY <2>2 DEF OpToRel
    <3> QED
      BY <3>1
  <2> QED
    BY <2>3
<1> QED
  BY <1>1 DEF Least

(* A file is placed behind the others. *)
LEMMA Created ==
  ASSUME VfsTypes, PlacedIn(nodes, data_used), NEW n \in Names \cup {Root}, NEW size \in Nat,
         CreateFile(n, size), size <= Capacity, size # 0 => data_used + size <= ArenaBytes
  PROVE  /\ nodes' \in Seq(RamNode) /\ data_used' \in Nat /\ PlacedIn(nodes', data_used')
         /\ Len(nodes') = Len(nodes) + 1
         /\ \A i \in 1..Len(nodes) : nodes'[i] = nodes[i]
         /\ nodes'[Len(nodes) + 1].size = size
         /\ nodes'[Len(nodes) + 1].data_offset = data_used
<1> DEFINE new == [name |-> Stored(n), size |-> size, data_offset |-> data_used,
                   data_capacity |-> Capacity]
<1>1. new \in RamNode /\ nodes \in Seq(RamNode) /\ data_used \in Nat /\ Capacity \in Nat
  BY VfsAssumption DEF RamNode, NodeNames, VfsTypes
<1>2. new.size = size /\ new.data_offset = data_used /\ new.data_capacity = Capacity
  OBVIOUS
<1>3. nodes' = Append(nodes, new) /\ data_used' = data_used + Capacity
  BY DEF CreateFile, NewOffset
<1> HIDE DEF new
<1>4. /\ nodes' \in Seq(RamNode) /\ Len(nodes') = Len(nodes) + 1 /\ Len(nodes) \in Nat
      /\ \A i \in 1..Len(nodes) : nodes'[i] = nodes[i]
      /\ nodes'[Len(nodes) + 1] = new
  BY <1>1, <1>3
<1>5. \A i \in 1..Len(nodes) : nodes[i] \in RamNode
  BY <1>1
<1>6. \A i \in 1..Len(nodes) : /\ nodes[i].data_offset \in Nat /\ nodes[i].data_capacity \in Nat
                               /\ nodes[i].data_offset + nodes[i].data_capacity <= data_used
  BY <1>5 DEF RamNode, PlacedIn
<1>7. ASSUME NEW i \in 1..Len(nodes')
      PROVE  /\ nodes'[i].size <= nodes'[i].data_capacity
             /\ nodes'[i].data_capacity <= Capacity
             /\ nodes'[i].size # 0 => nodes'[i].data_offset + nodes'[i].size <= ArenaBytes
             /\ nodes'[i].data_offset + nodes'[i].data_capacity <= data_used'
  <2>1. CASE i \in 1..Len(nodes)
    <3>1. nodes'[i] = nodes[i] /\ data_used <= data_used'
      BY <1>1, <1>3, <1>4, <2>1
    <3> QED
      BY <1>1, <1>3, <1>6, <2>1, <3>1 DEF PlacedIn
  <2>2. CASE i = Len(nodes) + 1
    BY <1>1, <1>2, <1>3, <1>4, <2>2
  <2> QED
    BY <1>4, <2>1, <2>2
<1>8. ASSUME NEW i \in 1..Len(nodes'), NEW j \in 1..Len(nodes'), i < j
      PROVE  nodes'[i].data_offset + nodes'[i].data_capacity <= nodes'[j].data_offset
  <2>1. i \in 1..Len(nodes)
    BY <1>4, <1>8
  <2>2. CASE j \in 1..Len(nodes)
    BY <1>4, <1>8, <2>1, <2>2 DEF PlacedIn
  <2>3. CASE j = Len(nodes) + 1
    BY <1>2, <1>4, <1>6, <2>1, <2>3
  <2> QED
    BY <1>4, <2>2, <2>3
<1>9. PlacedIn(nodes', data_used')
  BY <1>7, <1>8 DEF PlacedIn
<1> QED
  BY <1>1, <1>2, <1>3, <1>4, <1>9

(* The arena holds bytes. *)
LEMMA StoresType ==
  ASSUME VfsTypes, NEW start \in Nat, NEW w \in Buffers, Stores(start, w)
  PROVE  /\ data' \in [0..(ArenaBytes - 1) -> Byte]
         /\ \A a \in 0..(ArenaBytes - 1) :
              data'[a] = IF a \in start..(start + Len(w) - 1) THEN w[a - start + 1] ELSE data[a]
<1>1. data \in [0..(ArenaBytes - 1) -> Byte] /\ w \in Seq(Byte) /\ Len(w) \in Nat
  BY VfsAssumption DEF VfsTypes
<1>2. \A a \in 0..(ArenaBytes - 1) :
        data'[a] = IF a \in start..(start + Len(w) - 1) THEN w[a - start + 1] ELSE data[a]
  BY <1>1 DEF Stores
<1>3. ASSUME NEW a \in 0..(ArenaBytes - 1) PROVE data'[a] \in Byte
  <2>1. CASE a \in start..(start + Len(w) - 1)
    <3>1. a - start + 1 \in 1..Len(w)
      BY <1>1, <2>1
    <3> QED
      BY <1>1, <1>2, <2>1, <3>1
  <2>2. CASE a \notin start..(start + Len(w) - 1)
    BY <1>1, <1>2, <2>2
  <2> QED
    BY <2>1, <2>2
<1>4. data' = [a \in 0..(ArenaBytes - 1) |-> data'[a]]
  BY <1>1 DEF Stores
<1> QED
  BY <1>2, <1>3, <1>4

(* One descriptor changes. *)
OneHandle(F, G, p, d, h) ==
  /\ G \in [Proc -> [Fd -> Handle \cup {Closed}]]
  /\ \A q \in Proc, e \in Fd : G[q][e] = IF q = p /\ e = d THEN h ELSE F[q][e]

(* An assignment to it does that. *)
LEMMA HandleSet ==
  ASSUME NEW F \in [Proc -> [Fd -> Handle \cup {Closed}]],
         NEW p \in Proc, NEW d \in Fd, NEW h \in Handle \cup {Closed}
  PROVE  OneHandle(F, [F EXCEPT ![p][d] = h], p, d, h)
BY DEF OneHandle

(* Only its offset does. *)
LEMMA OffsetSet ==
  ASSUME NEW g \in Handle, NEW n \in Nat
  PROVE  /\ [g EXCEPT !.offset = n] = [node |-> g.node, offset |-> n]
         /\ [node |-> g.node, offset |-> n] \in Handle
BY DEF Handle


-----------------------------------------------------------------------------
(* The invariant. *)

(* It holds at the start. *)
LEMMA InitVfs == Init => VfsInv
<1> SUFFICES ASSUME Init PROVE VfsInv
  OBVIOUS
<1> DEFINE r == [name |-> Root, size |-> 0, data_offset |-> 0, data_capacity |-> 0]
<1>1. r \in RamNode /\ r.size = 0 /\ r.data_offset = 0 /\ r.data_capacity = 0
  BY DEF RamNode, NodeNames
<1>2. nodes = <<r>> /\ data_used = 0
  BY DEF Init
<1> HIDE DEF r
<1>3. nodes \in Seq(RamNode) /\ Len(nodes) = 1 /\ nodes[1] = r
  BY <1>1, <1>2
<1>4. files = [p \in Proc |-> [d \in Fd |-> Closed]] /\ data = [a \in 0..(ArenaBytes - 1) |-> 0]
  BY DEF Init, NoFds
<1>5. VfsTypes
  BY <1>2, <1>3, <1>4, VfsAssumption DEF VfsTypes
<1>6. PlacedIn(nodes, data_used)
  <2>1. \A i \in 1..Len(nodes) : i = 1
    BY <1>3
  <2> QED
    BY <1>1, <1>2, <1>3, <2>1, VfsAssumption DEF PlacedIn
<1>7. \A p \in Proc, d \in Fd : ~InUse(p, d)
  BY <1>4 DEF InUse
<1>8. DescriptorsValid
  BY <1>7 DEF DescriptorsValid, Behind
<1> QED
  BY <1>5, <1>6, <1>8 DEF VfsInv

(* Steps that leave the file system alone and set one descriptor. *)
LEMMA HandleKeeps ==
  ASSUME VfsInv, UNCHANGED fs, NEW p \in Proc, NEW d \in Fd, NEW h \in Handle \cup {Closed},
         files' = [files EXCEPT ![p][d] = h], NEW X, strayed \subseteq X,
         h # Closed => h.node \in 1..Len(nodes) /\ (<<p, d>> \in X \/ h.offset <= nodes[h.node].size)
  PROVE  Kept(X)
<1>1. /\ files' \in [Proc -> [Fd -> Handle \cup {Closed}]]
      /\ \A q \in Proc, e \in Fd : files'[q][e] = IF q = p /\ e = d THEN h ELSE files[q][e]
  BY HandleSet DEF VfsInv, VfsTypes, OneHandle
<1>2. nodes' = nodes /\ data' = data /\ data_used' = data_used
  BY DEF fs
<1>3. ValidIn(nodes, files, strayed)
  BY ValidIs DEF VfsInv, VfsTypes
<1>4. ValidIn(nodes', files', X)
  BY <1>1, <1>2, <1>3 DEF ValidIn
<1>5. VfsTypes' /\ PlacedIn(nodes', data_used')
  BY <1>1, <1>2 DEF VfsInv, VfsTypes
<1> QED
  BY <1>4, <1>5 DEF Kept

(* What a descriptor in use and its node are. *)
LEMMA HandleFacts ==
  ASSUME VfsInv, NEW p \in Proc, NEW d \in Fd, InUse(p, d)
  PROVE  /\ files[p][d] \in Handle
         /\ files[p][d].node \in 1..Len(nodes) /\ Len(nodes) \in Nat
         /\ Node(p, d) = nodes[files[p][d].node] /\ Node(p, d) \in RamNode
         /\ Offset(p, d) \in Nat /\ (<<p, d>> \in strayed \/ Offset(p, d) <= Node(p, d).size)
         /\ Node(p, d).size \in Nat /\ Node(p, d).data_offset \in Nat /\ Node(p, d).data_capacity \in Nat
         /\ Node(p, d).size <= Node(p, d).data_capacity /\ Node(p, d).data_capacity <= Capacity
         /\ Offset(p, d) <= Node(p, d).size => Avail(p, d) = Node(p, d).size - Offset(p, d)
         /\ Avail(p, d) \in Nat
<1>1. ValidIn(nodes, files, strayed) /\ nodes \in Seq(RamNode) /\ PlacedIn(nodes, data_used)
  BY ValidIs DEF VfsInv, VfsTypes
<1>2. files[p][d] \in Handle
  BY DEF VfsInv, VfsTypes, InUse
<1>3. files[p][d].node \in 1..Len(nodes) /\ Len(nodes) \in Nat
  <2>1. files[p][d].node \in 1..Len(nodes)
    BY <1>1, Zenon DEF ValidIn, InUse
  <2> QED
    BY <1>1, <2>1
<1>4. Node(p, d) = nodes[files[p][d].node] /\ Node(p, d) \in RamNode
  BY <1>1, <1>3 DEF Node
<1>5. Offset(p, d) \in Nat /\ (<<p, d>> \in strayed \/ Offset(p, d) <= Node(p, d).size)
  BY <1>1, <1>2 DEF ValidIn, InUse, Offset, Node, Handle
<1>6. Node(p, d).size \in Nat /\ Node(p, d).data_offset \in Nat /\ Node(p, d).data_capacity \in Nat
  BY <1>4 DEF RamNode
<1>7. Node(p, d).size <= Node(p, d).data_capacity /\ Node(p, d).data_capacity <= Capacity
  BY <1>1, <1>3, <1>4 DEF PlacedIn
<1>8. Avail(p, d) = (Node(p, d).size - Offset(p, d)) % SizeT
      /\ Node(p, d).size - Offset(p, d) \in Int /\ SizeT \in Nat /\ SizeT > 0
  BY <1>5, <1>6, VfsAssumption DEF Avail
<1>9. Avail(p, d) \in Nat
  BY <1>8
<1>10. ASSUME Offset(p, d) <= Node(p, d).size PROVE Avail(p, d) = Node(p, d).size - Offset(p, d)
  <2> DEFINE x == Node(p, d).size - Offset(p, d)
  <2>1. x \in Nat /\ x < SizeT /\ SizeT \in Nat
    BY <1>5, <1>6, <1>7, <1>10, VfsAssumption
  <2>2. x % SizeT = x
    <3> HIDE DEF x
    <3> QED
      BY <2>1
  <2> QED
    BY <1>8, <2>2
<1> QED
  BY <1>2, <1>3, <1>4, <1>5, <1>6, <1>7, <1>9, <1>10

(* A write grows its node up to its end and puts bytes into the arena. *)
LEMMA WriteKeeps ==
  ASSUME VfsInv, NEW p \in Proc, NEW d \in Fd, NEW w \in Buffers, Within(p, d, w), Write(p, d, w)
  PROVE  /\ Kept(strayed)
         /\ LET k == files[p][d].node
                end == Offset(p, d) + Len(w)
            IN  /\ Len(nodes') = Len(nodes)
                /\ \A i \in 1..Len(nodes) :
                     /\ nodes'[i].data_offset = nodes[i].data_offset
                     /\ nodes'[i].size = IF i = k /\ end > nodes[k].size THEN end ELSE nodes[i].size
<1> DEFINE k == files[p][d].node
           end == Offset(p, d) + Len(w)
           new == IF end > nodes[k].size THEN end ELSE nodes[k].size
<1>0. /\ InUse(p, d) /\ end <= Node(p, d).data_capacity
      /\ Node(p, d).data_offset + Offset(p, d) + Len(w) <= ArenaBytes
  BY DEF Within
<1>1. /\ files[p][d] \in Handle /\ k \in 1..Len(nodes) /\ Len(nodes) \in Nat
      /\ Node(p, d) = nodes[k] /\ Node(p, d) \in RamNode
      /\ Offset(p, d) \in Nat
      /\ nodes[k].size \in Nat /\ nodes[k].data_offset \in Nat /\ nodes[k].data_capacity \in Nat
      /\ nodes[k].size <= nodes[k].data_capacity /\ nodes[k].data_capacity <= Capacity
  BY <1>0, HandleFacts
<1>2. nodes \in Seq(RamNode) /\ PlacedIn(nodes, data_used) /\ ValidIn(nodes, files, strayed)
      /\ data_used \in Nat /\ files \in [Proc -> [Fd -> Handle \cup {Closed}]]
  BY ValidIs DEF VfsInv, VfsTypes
<1>3. Len(w) \in Nat /\ end \in Nat /\ new \in Nat
  BY <1>1, VfsAssumption
<1>4. nodes' = [nodes EXCEPT ![k].size = new]
  BY DEF Write, Grown
<1>5. files' = [files EXCEPT ![p][d].offset = end] /\ data_used' = data_used
  BY DEF Write
<1>6. /\ files' \in [Proc -> [Fd -> Handle \cup {Closed}]]
      /\ \A q \in Proc, e \in Fd : files'[q][e] =
           IF q = p /\ e = d THEN [node |-> k, offset |-> end] ELSE files[q][e]
  <2> HIDE DEF end
  <2>1. /\ [files[p][d] EXCEPT !.offset = end] = [node |-> k, offset |-> end]
        /\ [node |-> k, offset |-> end] \in Handle
    BY <1>1, <1>3, OffsetSet
  <2>2. files' = [files EXCEPT ![p][d] = [node |-> k, offset |-> end]]
    BY <1>5, <2>1
  <2>3. OneHandle(files, files', p, d, [node |-> k, offset |-> end])
    BY <1>2, <2>1, <2>2, HandleSet
  <2> QED
    BY <2>3 DEF OneHandle
<1>7. data' \in [0..(ArenaBytes - 1) -> Byte]
  <2>1. Stores(Node(p, d).data_offset + Offset(p, d), w)
    BY DEF Write
  <2> QED
    BY <1>1, <2>1, StoresType DEF VfsInv
<1>8. new <= nodes[k].data_capacity /\ nodes[k].size <= new /\ end <= new
  BY <1>0, <1>1, <1>3
<1>9. new # 0 => nodes[k].data_offset + new <= ArenaBytes
  BY <1>0, <1>1, <1>2, <1>3 DEF PlacedIn
<1>10. k = files[p][d].node /\ end = Offset(p, d) + Len(w)
       /\ new = IF end > nodes[k].size THEN end ELSE nodes[k].size
  OBVIOUS
<1> HIDE DEF k, end, new
<1>11. nodes[k] \in RamNode /\ [nodes[k] EXCEPT !.size = new] \in RamNode
  BY <1>1, <1>3 DEF RamNode
<1>12. nodes' = [nodes EXCEPT ![k] = [nodes[k] EXCEPT !.size = new]]
  BY <1>4
<1>13. nodes' \in Seq(RamNode) /\ Len(nodes') = Len(nodes)
       /\ \A i \in 1..Len(nodes) : nodes'[i] = IF i = k THEN [nodes[k] EXCEPT !.size = new] ELSE nodes[i]
  BY <1>1, <1>2, <1>11, <1>12
<1>14. \A i \in 1..Len(nodes) : /\ nodes'[i].data_offset = nodes[i].data_offset
                                /\ nodes'[i].data_capacity = nodes[i].data_capacity
                                /\ nodes'[i].size = IF i = k THEN new ELSE nodes[i].size
  BY <1>1, <1>11, <1>13 DEF RamNode
<1>15. PlacedIn(nodes', data_used')
  BY <1>1, <1>2, <1>5, <1>8, <1>9, <1>13, <1>14 DEF PlacedIn
<1>16. ValidIn(nodes', files', strayed)
  <2> SUFFICES ASSUME NEW q \in Proc, NEW e \in Fd, files'[q][e] # Closed
               PROVE  /\ files'[q][e].node \in 1..Len(nodes')
                      /\ <<q, e>> \in strayed \/ files'[q][e].offset <= nodes'[files'[q][e].node].size
    BY DEF ValidIn
  <2>1. CASE q = p /\ e = d
    <3>1. files'[q][e].node = k /\ files'[q][e].offset = end
      BY <1>6, <2>1
    <3> QED
      BY <1>1, <1>8, <1>13, <1>14, <3>1
  <2>2. CASE ~(q = p /\ e = d)
    <3>1. files'[q][e] = files[q][e] /\ files[q][e] # Closed
      BY <1>6, <2>2
    <3>2. files[q][e] \in Handle
      BY <1>2, <3>1
    <3>3. /\ files[q][e].node \in 1..Len(nodes) /\ files[q][e].offset \in Nat
          /\ <<q, e>> \in strayed \/ files[q][e].offset <= nodes[files[q][e].node].size
      BY <1>2, <3>1, <3>2 DEF ValidIn, Handle
    <3>4. nodes[files[q][e].node].size \in Nat
      <4>1. nodes[files[q][e].node] \in RamNode
        BY <1>2, <3>3
      <4> QED
        BY <4>1 DEF RamNode
    <3>5. nodes[files[q][e].node].size <= nodes'[files[q][e].node].size
          /\ nodes'[files[q][e].node].size \in Nat
      BY <1>3, <1>8, <1>14, <3>3, <3>4
    <3> QED
      BY <1>13, <3>1, <3>3, <3>4, <3>5
  <2> QED
    BY <2>1, <2>2
<1>17. Kept(strayed)
  BY <1>5, <1>6, <1>7, <1>13, <1>15, <1>16, <1>2 DEF Kept, VfsTypes
<1>18. \A i \in 1..Len(nodes) :
         /\ nodes'[i].data_offset = nodes[i].data_offset
         /\ nodes'[i].size = IF i = k /\ end > nodes[k].size THEN end ELSE nodes[i].size
  BY <1>10, <1>14
<1> QED
  BY <1>13, <1>17, <1>18 DEF k, end

(* A file is created or seeded. *)
LEMMA CreateKeeps ==
  ASSUME VfsInv, NEW n \in Names \cup {Root}, NEW size \in Nat, CreateFile(n, size),
         size <= Capacity, size # 0 => data_used + size <= ArenaBytes,
         data' \in [0..(ArenaBytes - 1) -> Byte],
         files' \in [Proc -> [Fd -> Handle \cup {Closed}]],
         \A p \in Proc, d \in Fd :
           \/ files'[p][d] = files[p][d]
           \/ files'[p][d] = [node |-> Len(nodes) + 1, offset |-> 0]
  PROVE  Kept(strayed)
<1>1. /\ nodes' \in Seq(RamNode) /\ data_used' \in Nat /\ PlacedIn(nodes', data_used')
      /\ Len(nodes') = Len(nodes) + 1
      /\ \A i \in 1..Len(nodes) : nodes'[i] = nodes[i]
      /\ nodes'[Len(nodes) + 1].size = size
  BY Created DEF VfsInv
<1>2. ValidIn(nodes, files, strayed) /\ Len(nodes) \in Nat
  BY ValidIs DEF VfsInv, VfsTypes
<1>3. ValidIn(nodes', files', strayed)
  <2> SUFFICES ASSUME NEW q \in Proc, NEW e \in Fd, files'[q][e] # Closed
               PROVE  /\ files'[q][e].node \in 1..Len(nodes')
                      /\ <<q, e>> \in strayed \/ files'[q][e].offset <= nodes'[files'[q][e].node].size
    BY DEF ValidIn
  <2>1. CASE files'[q][e] = files[q][e]
    BY <1>1, <1>2, <2>1 DEF ValidIn
  <2>2. CASE files'[q][e] = [node |-> Len(nodes) + 1, offset |-> 0]
    <3>1. files'[q][e].node = Len(nodes) + 1 /\ files'[q][e].offset = 0
      BY <2>2
    <3> QED
      BY <1>1, <1>2, <3>1
  <2> QED
    BY <2>1, <2>2
<1> QED
  BY <1>1, <1>3 DEF Kept, VfsTypes

(* mcs_sys_open takes a free descriptor. *)
LEMMA Opened ==
  ASSUME VfsInv, NEW p \in Proc, FreeFds(p) # {}, NEW i \in Nat, OpenFd(p, i)
  PROVE  LET d == Least(FreeFds(p))
             h == [node |-> i, offset |-> 0]
         IN  /\ d \in Fd /\ files[p][d] = Closed
             /\ \A e \in Fd : files[p][e] = Closed => d <= e
             /\ h \in Handle
             /\ files' = [files EXCEPT ![p][d] = h] /\ answer' = Ok(d)
<1>1. FreeFds(p) \subseteq Fd /\ FreeFds(p) \subseteq Nat
  BY VfsAssumption DEF FreeFds
<1>2. Least(FreeFds(p)) \in FreeFds(p) /\ \A y \in FreeFds(p) : Least(FreeFds(p)) <= y
  BY <1>1, LeastIs
<1>3. [node |-> i, offset |-> 0] \in Handle
  BY DEF Handle
<1> QED
  BY <1>1, <1>2, <1>3 DEF OpenFd, FreeFds

(* A descriptor moves. *)
LEMMA Moved ==
  ASSUME VfsInv, NEW p \in Proc, NEW d \in Fd, InUse(p, d), NEW n \in Nat,
         files' = [files EXCEPT ![p][d].offset = n]
  PROVE  LET h == [node |-> files[p][d].node, offset |-> n]
         IN  h \in Handle /\ files' = [files EXCEPT ![p][d] = h]
<1> DEFINE h == [node |-> files[p][d].node, offset |-> n]
<1>1. files[p][d] \in Handle
  BY HandleFacts
<1>2. [files[p][d] EXCEPT !.offset = n] = h /\ h \in Handle
  BY <1>1, OffsetSet
<1>3. files' = [files EXCEPT ![p][d] = h]
  BY <1>2
<1> QED
  BY <1>2, <1>3

(* How many bytes a read takes inside the file, and that it stays there. *)
LEMMA ReadTakes ==
  ASSUME VfsInv, NEW p \in Proc, NEW d \in Fd, NEW len \in Nat, Read(p, d, len),
         Offset(p, d) <= Node(p, d).size
  PROVE  LET size == Node(p, d).size
             n == IF Offset(p, d) + len < size THEN len ELSE size - Offset(p, d)
         IN  /\ InUse(p, d) /\ n \in Nat /\ Offset(p, d) + n <= size
             /\ files' = [files EXCEPT ![p][d].offset = Offset(p, d) + n]
             /\ answer' = Got([i \in 1..n |-> data[Node(p, d).data_offset + Offset(p, d) + i - 1]])
<1> DEFINE size == Node(p, d).size
           off == Offset(p, d)
           base == Node(p, d).data_offset
           n == IF off + len < size THEN len ELSE size - off
<1>1. InUse(p, d)
  BY DEF Read
<1>2. /\ off \in Nat /\ size \in Nat /\ off <= size /\ Avail(p, d) = size - off
      /\ base \in Nat /\ size < SizeT /\ SizeT \in Nat
      /\ size # 0 => base + size <= ArenaBytes
  <2>1. /\ off \in Nat /\ size \in Nat /\ off <= size /\ Avail(p, d) = size - off /\ base \in Nat
        /\ size <= Node(p, d).data_capacity /\ Node(p, d).data_capacity <= Capacity
        /\ Node(p, d).data_capacity \in Nat
        /\ Node(p, d) = nodes[files[p][d].node] /\ files[p][d].node \in 1..Len(nodes)
    BY <1>1, HandleFacts
  <2>2. size # 0 => base + size <= ArenaBytes
    BY <2>1 DEF VfsInv, PlacedIn
  <2>3. size < SizeT /\ SizeT \in Nat
    <3> DEFINE cap == Node(p, d).data_capacity
    <3>1. size \in Nat /\ cap \in Nat /\ size <= cap /\ cap <= Capacity
      BY <2>1
    <3> HIDE DEF size, cap
    <3> QED
      BY <3>1, VfsAssumption
  <2> HIDE DEF size, off, base
  <2> QED
    BY <2>1, <2>2, <2>3
<1>3. Lesser(len, Avail(p, d)) = n /\ n \in Nat /\ off + n <= size
  <2>1. Lesser(len, size - off) = n
    <3> HIDE DEF size, off
    <3> QED
      BY <1>2 DEF Lesser
  <2> QED
    BY <1>2, <2>1
<1>4. PICK bytes \in [1..n -> Byte] :
        /\ \A i \in 1..n : (base + off + i - 1) % SizeT \in DOMAIN data
                            => bytes[i] = data[(base + off + i - 1) % SizeT]
        /\ answer' = Got(bytes)
  <2> HIDE DEF n
  <2> QED
    BY <1>3 DEF Read
<1>5. files' = [files EXCEPT ![p][d].offset = (Offset(p, d) + n) % SizeT]
  <2> HIDE DEF n
  <2> QED
    BY <1>3 DEF Read, Offset
<1> HIDE DEF n, size, off, base
<1>6. ASSUME NEW x \in Nat, x < SizeT PROVE x % SizeT = x
  BY <1>2, <1>6
<1>7. (off + n) % SizeT = off + n
  BY <1>2, <1>3, <1>6
<1>8. ASSUME NEW i \in 1..n PROVE bytes[i] = data[base + off + i - 1]
  <2>1. /\ base + off + i - 1 \in Nat /\ base + off + i - 1 < ArenaBytes
        /\ base + off + i - 1 \in 0..(ArenaBytes - 1) /\ base + off + i - 1 < SizeT
    BY <1>2, <1>3, VfsAssumption
  <2>2. (base + off + i - 1) % SizeT = base + off + i - 1
    BY <1>6, <2>1
  <2>3. DOMAIN data = 0..(ArenaBytes - 1)
    BY DEF VfsInv, VfsTypes
  <2> QED
    BY <1>4, <2>1, <2>2, <2>3
<1>9. bytes = [i \in 1..n |-> data[base + off + i - 1]]
  BY <1>8
<1> QED
  BY <1>1, <1>3, <1>4, <1>5, <1>7, <1>9 DEF n, size, off, base

(* A read behind the end takes any bytes. *)
LEMMA ReadStrays ==
  ASSUME VfsInv, NEW p \in Proc, NEW d \in Fd, NEW len \in Nat, Read(p, d, len)
  PROVE  \E m \in 0..len :
           /\ InUse(p, d) /\ (Offset(p, d) + m) % SizeT \in Nat
           /\ files' = [files EXCEPT ![p][d].offset = (Offset(p, d) + m) % SizeT]
           /\ \E bytes \in [1..m -> Byte] : answer' = Got(bytes)
<1> DEFINE m == Lesser(len, Avail(p, d))
<1>1. InUse(p, d)
  BY DEF Read
<1>2. Offset(p, d) \in Nat /\ Avail(p, d) \in Nat /\ SizeT \in Nat /\ SizeT > 0
  <2>1. SizeT \in Nat /\ SizeT > 0
    BY VfsAssumption
  <2> QED
    BY <1>1, <2>1, HandleFacts
<1>3. m \in 0..len
  BY <1>2 DEF Lesser
<1>4. \E bytes \in [1..m -> Byte] : answer' = Got(bytes)
  BY DEF Read
<1>5. files' = [files EXCEPT ![p][d].offset = (Offset(p, d) + m) % SizeT]
  BY DEF Read, Offset
<1> HIDE DEF m
<1>6. (Offset(p, d) + m) % SizeT \in Nat
  BY <1>2, <1>3
<1> QED
  BY <1>1, <1>3, <1>4, <1>5, <1>6

(* Every call but lseek keeps descriptors inside their files that were. *)
LEMMA CallKeeps ==
  ASSUME VfsInv, Call \/ UNCHANGED <<fs, files>>
  PROVE  Kept(strayed)
<1>0. nodes \in Seq(RamNode) /\ files \in [Proc -> [Fd -> Handle \cup {Closed}]] /\ ValidIn(nodes, files, strayed)
  BY ValidIs DEF VfsInv, VfsTypes
<1>1. ASSUME UNCHANGED fs, UNCHANGED files PROVE Kept(strayed)
  BY <1>0, <1>1 DEF fs, VfsInv, VfsTypes, Kept
<1>2. ASSUME NEW n \in Names, SeedFails(n) PROVE Kept(strayed)
  BY <1>1, <1>2 DEF SeedFails
<1>3. ASSUME NEW n \in Names, NEW w \in Buffers, Fits(n, w), SeedFile(n, w) PROVE Kept(strayed)
  <2>1. Len(w) \in Nat /\ Len(w) <= Capacity /\ data_used + Len(w) <= ArenaBytes
    BY <1>3, VfsAssumption DEF Fits
  <2>2. CreateFile(n, Len(w)) /\ Stores(data_used, w) /\ files' = files
    BY <1>3 DEF SeedFile
  <2>3. data' \in [0..(ArenaBytes - 1) -> Byte]
    BY <2>2, StoresType DEF VfsInv, VfsTypes
  <2> QED
    BY <1>0, <2>1, <2>2, <2>3, CreateKeeps
<1>4. ASSUME NEW p \in Proc, FdTableInit(p) PROVE Kept(strayed)
  <2>1. UNCHANGED fs /\ files' = [files EXCEPT ![p] = [d \in Fd |-> Closed]]
    BY <1>4 DEF FdTableInit, NoFds
  <2>2. files' \in [Proc -> [Fd -> Handle \cup {Closed}]]
    BY <1>0, <2>1
  <2>3. \A q \in Proc, e \in Fd : files'[q][e] = Closed \/ files'[q][e] = files[q][e]
    BY <1>0, <2>1
  <2>4. ValidIn(nodes', files', strayed)
    BY <1>0, <2>1, <2>3 DEF fs, ValidIn
  <2> QED
    BY <1>0, <2>1, <2>2, <2>4 DEF fs, VfsInv, VfsTypes, Kept
<1>5. ASSUME NEW p \in Proc, NEW n \in Names \cup {Root}, Open(p, n) PROVE Kept(strayed)
  <2> DEFINE i == Least(Lookup(n))
             d == Least(FreeFds(p))
             h == [node |-> i, offset |-> 0]
  <2>1. i \in 1..Len(nodes) /\ i \in Nat /\ nodes[i].size \in Nat
    <3>1. Lookup(n) \subseteq 1..Len(nodes) /\ Lookup(n) \subseteq Nat /\ Lookup(n) # {}
      BY <1>0, <1>5 DEF Lookup, Open
    <3>2. i \in 1..Len(nodes) /\ i \in Nat
      BY <3>1, LeastIs
    <3> HIDE DEF i
    <3>3. nodes[i] \in RamNode
      BY <1>0, <3>2
    <3> QED
      BY <3>2, <3>3 DEF RamNode
  <2> HIDE DEF i
  <2>2. d \in Fd /\ h \in Handle /\ files' = [files EXCEPT ![p][d] = h] /\ UNCHANGED fs
    BY <1>5, <2>1, Opened DEF Open, i
  <2>3. h.node = i /\ h.offset = 0
    OBVIOUS
  <2>4. h \in Handle \cup {Closed} /\ (h # Closed => h.node \in 1..Len(nodes) /\ h.offset <= nodes[h.node].size)
    BY <2>1, <2>2, <2>3
  <2> HIDE DEF h, d
  <2> QED
    BY <2>2, <2>4, HandleKeeps
<1>6. ASSUME NEW p \in Proc, NEW n \in Names \cup {Root}, OpenCreates(p, n) PROVE Kept(strayed)
  <2> DEFINE d == Least(FreeFds(p))
             h == [node |-> Len(nodes) + 1, offset |-> 0]
  <2>1. Len(nodes) + 1 \in Nat
    BY <1>0
  <2>2. d \in Fd /\ h \in Handle /\ files' = [files EXCEPT ![p][d] = h]
    BY <1>6, <2>1, Opened DEF OpenCreates
  <2> HIDE DEF d
  <2>3. OneHandle(files, files', p, d, h)
    BY <1>0, <2>2, HandleSet
  <2>4. CreateFile(n, 0) /\ data' = data
    BY <1>6 DEF OpenCreates
  <2>5. \A q \in Proc, e \in Fd : files'[q][e] = files[q][e] \/ files'[q][e] = h
    BY <2>3 DEF OneHandle
  <2>6. files' \in [Proc -> [Fd -> Handle \cup {Closed}]] /\ data' \in [0..(ArenaBytes - 1) -> Byte]
    BY <2>3, <2>4 DEF OneHandle, VfsInv, VfsTypes
  <2> QED
    BY <2>4, <2>5, <2>6, CreateKeeps, VfsAssumption
<1>7. ASSUME NEW p \in Proc, NEW n, NEW c, OpenFindsNothing(p, n, c) \/ OpenRefused(p) PROVE Kept(strayed)
  BY <1>1, <1>7 DEF OpenFindsNothing, OpenFailed, OpenRefused
<1>8. ASSUME NEW p \in Proc, NEW d \in Fd, InUse(p, d), UNCHANGED fs, NEW n \in Nat,
             <<p, d>> \in strayed \/ n <= Node(p, d).size, files' = [files EXCEPT ![p][d].offset = n]
      PROVE  Kept(strayed)
  <2> DEFINE h == [node |-> files[p][d].node, offset |-> n]
  <2>1. h \in Handle /\ files' = [files EXCEPT ![p][d] = h]
    BY <1>8, Moved
  <2>2. h.node \in 1..Len(nodes) /\ (<<p, d>> \in strayed \/ h.offset <= nodes[h.node].size)
    BY <1>8, HandleFacts
  <2> HIDE DEF h
  <2> QED
    BY <1>8, <2>1, <2>2, HandleKeeps
<1>9. ASSUME NEW p \in Proc, NEW d \in Fd, NEW n \in 0..MaxLen, Read(p, d, n) PROVE Kept(strayed)
  <2>1. n \in Nat /\ UNCHANGED fs /\ InUse(p, d)
    BY <1>9, VfsAssumption DEF Read
  <2>2. CASE Offset(p, d) <= Node(p, d).size
    <3> DEFINE size == Node(p, d).size
               k == IF Offset(p, d) + n < size THEN n ELSE size - Offset(p, d)
    <3>1. /\ k \in Nat /\ Offset(p, d) + k <= size
          /\ files' = [files EXCEPT ![p][d].offset = Offset(p, d) + k]
      BY <1>9, <2>1, <2>2, ReadTakes
    <3>2. Offset(p, d) \in Nat
      BY <2>1, HandleFacts
    <3> HIDE DEF k
    <3>3. Offset(p, d) + k \in Nat
      BY <3>1, <3>2
    <3> QED
      BY <1>8, <2>1, <3>1, <3>3
  <2>3. CASE ~(Offset(p, d) <= Node(p, d).size)
    <3>1. PICK m \in 0..n :
            /\ (Offset(p, d) + m) % SizeT \in Nat
            /\ files' = [files EXCEPT ![p][d].offset = (Offset(p, d) + m) % SizeT]
      BY <1>9, <2>1, ReadStrays
    <3>2. <<p, d>> \in strayed
      BY <2>1, <2>3, HandleFacts
    <3> QED
      BY <1>8, <2>1, <3>1, <3>2
  <2> QED
    BY <2>2, <2>3
<1>11. ASSUME NEW p \in Proc, NEW d \in Fd, Close(p, d) PROVE Kept(strayed)
  BY <1>11, HandleKeeps DEF Close
<1>12. ASSUME NEW p \in Proc, NEW d \in Fd, BadFd(p, d) PROVE Kept(strayed)
  BY <1>1, <1>12 DEF BadFd
<1>13. ASSUME NEW p \in Proc, NEW d \in Fd, NEW w \in Buffers, Within(p, d, w), Write(p, d, w)
       PROVE  Kept(strayed)
  BY <1>13, WriteKeeps
<1>14. CASE UNCHANGED <<fs, files>>
  BY <1>1, <1>14
<1> QED
  BY <1>2, <1>3, <1>4, <1>5, <1>6, <1>7, <1>9, <1>11, <1>12, <1>13, <1>14 DEF Call

(* lseek may leave its own descriptor anywhere. *)
LEMMA SeekKeeps ==
  ASSUME VfsInv, NEW p \in Proc, NEW d \in Fd, NEW n \in Positions, NEW whence, Lseek(p, d, n, whence)
  PROVE  Kept(strayed \cup {<<p, d>>})
<1>1. InUse(p, d) /\ UNCHANGED fs /\ n \in Nat
  BY VfsAssumption DEF Lseek
<1>2. CASE files' = [files EXCEPT ![p][d].offset = n]
  <2> DEFINE h == [node |-> files[p][d].node, offset |-> n]
  <2>1. h \in Handle /\ files' = [files EXCEPT ![p][d] = h]
    BY <1>1, <1>2, Moved
  <2>2. h.node \in 1..Len(nodes)
    BY <1>1, HandleFacts
  <2> HIDE DEF h
  <2> QED
    BY <1>1, <2>1, <2>2, HandleKeeps
<1>3. CASE files' = files
  <2>1. Kept(strayed)
    BY <1>1, <1>3, CallKeeps
  <2> QED
    BY <2>1 DEF Kept, ValidIn
<1> QED
  BY <1>2, <1>3 DEF Lseek

(* Every step keeps the invariant. *)
LEMMA NextVfs == VfsInv /\ [Next]_vars => VfsInv'
<1> SUFFICES ASSUME VfsInv, [Next]_vars PROVE VfsInv'
  OBVIOUS
<1>1. CASE Call /\ strayed' = strayed \cap Behind'
  BY <1>1, CallKeeps, Remembered
<1>2. ASSUME NEW p \in Proc, NEW d \in Fd, NEW n \in Positions, NEW whence, Lseek(p, d, n, whence),
             strayed' = (strayed \cup {<<p, d>>}) \cap Behind'
      PROVE  VfsInv'
  BY <1>2, SeekKeeps, Remembered
<1>3. CASE UNCHANGED vars
  BY <1>3 DEF vars, VfsInv, VfsTypes, DescriptorsValid, Behind, InUse, Offset, Node
<1> QED
  BY <1>1, <1>2, <1>3 DEF Next

(* The invariant of descriptors, nodes and the arena. *)
THEOREM VfsInvariance == Spec => []VfsInv
<1> QED
  BY InitVfs, NextVfs, PTL DEF Spec

(* Every open descriptor names an existing node, and is behind the end of  *)
(* its file only since a call of lseek on it: no read, write, open or      *)
(* close, of its own process or another, brings it there.                  *)
THEOREM Descriptors == Spec => []DescriptorsValid
<1>1. VfsInv => DescriptorsValid
  BY DEF VfsInv
<1> QED
  BY <1>1, VfsInvariance, PTL

-----------------------------------------------------------------------------
(* The refinement: the arena as files of their own bytes. *)

FileOf(N, D, i) == [k \in 1..N[i].size |-> D[N[i].data_offset + k - 1]]
BytesIn(N, D) == [i \in 1..Len(N) |-> FileOf(N, D, i)]
Shown(h) == IF h # Closed THEN [file |-> h.node, pos |-> h.offset] ELSE Closed
HandlesIn(F) == [p \in Proc |-> [d \in Fd |-> Shown(F[p][d])]]

(* Functions on an initial segment of the numbers are sequences. *)
LEMMA Segment ==
  ASSUME NEW S, NEW n \in Nat, NEW f \in [1..n -> S]
  PROVE  f \in Seq(S) /\ Len(f) = n /\ DOMAIN f = 1..n
BY SeqDef

(* What the mapping shows. *)
LEMMA MappedTo ==
  /\ nodes \in Seq(RamNode) => FileBytes = BytesIn(nodes, data)
  /\ nodes' \in Seq(RamNode) => FileBytes' = BytesIn(nodes', data')
  /\ Handles = HandlesIn(files)
  /\ Handles' = HandlesIn(files')
<1>1. ASSUME nodes \in Seq(RamNode) PROVE FileBytes = BytesIn(nodes, data)
  <2>1. DOMAIN nodes = 1..Len(nodes)
    BY <1>1
  <2> QED
    BY <2>1 DEF FileBytes, Contents, BytesIn, FileOf
<1>2. ASSUME nodes' \in Seq(RamNode) PROVE FileBytes' = BytesIn(nodes', data')
  <2>1. DOMAIN nodes' = 1..Len(nodes')
    BY <1>2
  <2> QED
    BY <2>1 DEF FileBytes, Contents, BytesIn, FileOf
<1>3. Handles = HandlesIn(files) /\ Handles' = HandlesIn(files')
  BY DEF Handles, HandlesIn, Shown, InUse, Offset
<1> QED
  BY <1>1, <1>2, <1>3

(* The contents of a file are bytes of the arena. *)
IsFile(N, D, i) ==
  /\ FileOf(N, D, i) \in Seq(Byte) /\ Len(FileOf(N, D, i)) = N[i].size
  /\ N[i].size \in Nat /\ N[i].data_offset \in Nat
  /\ \A k \in 1..N[i].size : /\ N[i].data_offset + k - 1 \in 0..(ArenaBytes - 1)
                             /\ FileOf(N, D, i)[k] = D[N[i].data_offset + k - 1]

(* They are, while files keep to their places. *)
LEMMA FileOfType ==
  ASSUME NEW N \in Seq(RamNode), NEW u, PlacedIn(N, u), NEW D \in [0..(ArenaBytes - 1) -> Byte],
         NEW i \in 1..Len(N)
  PROVE  IsFile(N, D, i)
<1>1. N[i] \in RamNode
  OBVIOUS
<1>2. N[i].size \in Nat /\ N[i].data_offset \in Nat
  BY <1>1 DEF RamNode
<1>3. N[i].size # 0 => N[i].data_offset + N[i].size <= ArenaBytes
  BY DEF PlacedIn
<1>4. \A k \in 1..N[i].size : N[i].data_offset + k - 1 \in 0..(ArenaBytes - 1)
  BY <1>2, <1>3, VfsAssumption
<1>5. FileOf(N, D, i) \in [1..N[i].size -> Byte]
      /\ \A k \in 1..N[i].size : FileOf(N, D, i)[k] = D[N[i].data_offset + k - 1]
  BY <1>4 DEF FileOf
<1> QED
  BY <1>2, <1>4, <1>5, Segment DEF IsFile

(* And all of them make a sequence of files. *)
LEMMA BytesType ==
  ASSUME NEW N \in Seq(RamNode), NEW u, PlacedIn(N, u), NEW D \in [0..(ArenaBytes - 1) -> Byte]
  PROVE  /\ BytesIn(N, D) \in Seq(Seq(Byte)) /\ Len(BytesIn(N, D)) = Len(N)
         /\ DOMAIN BytesIn(N, D) = 1..Len(N)
         /\ \A i \in 1..Len(N) : BytesIn(N, D)[i] = FileOf(N, D, i)
<1>1. \A i \in 1..Len(N) : FileOf(N, D, i) \in Seq(Byte)
  BY FileOfType DEF IsFile
<1>2. BytesIn(N, D) \in [1..Len(N) -> Seq(Byte)]
      /\ \A i \in 1..Len(N) : BytesIn(N, D)[i] = FileOf(N, D, i)
  BY <1>1 DEF BytesIn
<1>3. Len(N) \in Nat
  OBVIOUS
<1> QED
  BY <1>2, <1>3, Segment

(* Two files with the same bytes are equal. *)
LEMMA SameFile ==
  ASSUME NEW N \in Seq(RamNode), NEW u, PlacedIn(N, u), NEW D \in [0..(ArenaBytes - 1) -> Byte],
         NEW i \in 1..Len(N), NEW s \in Seq(Byte), Len(s) = N[i].size,
         \A k \in 1..N[i].size : D[N[i].data_offset + k - 1] = s[k]
  PROVE  FileOf(N, D, i) = s
<1>1. FileOf(N, D, i) \in Seq(Byte) /\ Len(FileOf(N, D, i)) = Len(s)
      /\ \A k \in 1..Len(s) : FileOf(N, D, i)[k] = s[k]
  BY FileOfType DEF IsFile
<1> QED
  BY <1>1, SeqEqual

(* A seeded file holds what was given and the others keep their bytes. *)
LEMMA AppendsBytes ==
  ASSUME VfsInv, VfsInv', NEW n \in Names \cup {Root}, NEW w \in Seq(Byte),
         CreateFile(n, Len(w)), Len(w) <= Capacity, Len(w) # 0 => data_used + Len(w) <= ArenaBytes,
         \A a \in 0..(ArenaBytes - 1) :
           data'[a] = IF a \in data_used..(data_used + Len(w) - 1) THEN w[a - data_used + 1] ELSE data[a]
  PROVE  BytesIn(nodes', data') = Append(BytesIn(nodes, data), w)
<1>1. /\ nodes \in Seq(RamNode) /\ nodes' \in Seq(RamNode)
      /\ data \in [0..(ArenaBytes - 1) -> Byte] /\ data' \in [0..(ArenaBytes - 1) -> Byte]
      /\ PlacedIn(nodes, data_used) /\ PlacedIn(nodes', data_used') /\ data_used \in Nat
  BY DEF VfsInv, VfsTypes
<1>0. Len(w) \in Nat
  OBVIOUS
<1>2. /\ Len(nodes') = Len(nodes) + 1 /\ Len(nodes) \in Nat
      /\ \A i \in 1..Len(nodes) : nodes'[i] = nodes[i]
      /\ nodes'[Len(nodes) + 1].size = Len(w) /\ nodes'[Len(nodes) + 1].data_offset = data_used
  <2> DEFINE size == Len(w)
  <2>1. /\ size \in Nat /\ CreateFile(n, size) /\ size <= Capacity /\ VfsTypes
        /\ size # 0 => data_used + size <= ArenaBytes
    BY <1>0 DEF VfsInv
  <2> HIDE DEF size
  <2>2. /\ Len(nodes') = Len(nodes) + 1
        /\ \A i \in 1..Len(nodes) : nodes'[i] = nodes[i]
        /\ nodes'[Len(nodes) + 1].size = size /\ nodes'[Len(nodes) + 1].data_offset = data_used
    BY <1>1, <2>1, Created
  <2> QED
    BY <1>1, <2>2 DEF size
<1> DEFINE A == BytesIn(nodes, data)
           B == BytesIn(nodes', data')
<1>3. /\ A \in Seq(Seq(Byte)) /\ Len(A) = Len(nodes) /\ \A i \in 1..Len(nodes) : A[i] = FileOf(nodes, data, i)
      /\ B \in Seq(Seq(Byte)) /\ Len(B) = Len(nodes) + 1
      /\ \A i \in 1..Len(nodes') : B[i] = FileOf(nodes', data', i)
  BY <1>1, <1>2, BytesType
<1> HIDE DEF A, B
<1>4. ASSUME NEW i \in 1..Len(nodes) PROVE B[i] = A[i]
  <2>1. /\ A[i] \in Seq(Byte) /\ Len(A[i]) = nodes[i].size /\ nodes[i].size \in Nat /\ nodes[i].data_offset \in Nat
        /\ \A k \in 1..nodes[i].size : /\ nodes[i].data_offset + k - 1 \in 0..(ArenaBytes - 1)
                                       /\ A[i][k] = data[nodes[i].data_offset + k - 1]
    <3>1. A[i] = FileOf(nodes, data, i)
      BY <1>3
    <3>2. IsFile(nodes, data, i)
      BY <1>1, FileOfType
    <3> QED
      BY <3>1, <3>2 DEF IsFile
  <2>2. nodes[i].data_offset + nodes[i].size <= data_used
    <3>1. nodes[i] \in RamNode
      BY <1>1
    <3>2. nodes[i].data_capacity \in Nat
      BY <3>1 DEF RamNode
    <3>3. /\ nodes[i].size <= nodes[i].data_capacity
          /\ nodes[i].data_offset + nodes[i].data_capacity <= data_used
      BY <1>1 DEF PlacedIn
    <3> QED
      BY <1>1, <2>1, <3>2, <3>3
  <2>3. \A k \in 1..nodes[i].size : data'[nodes[i].data_offset + k - 1] = A[i][k]
    <3> SUFFICES ASSUME NEW k \in 1..nodes[i].size
                 PROVE  data'[nodes[i].data_offset + k - 1] = A[i][k]
      OBVIOUS
    <3> DEFINE a == nodes[i].data_offset + k - 1
    <3>1. a \in 0..(ArenaBytes - 1) /\ a < data_used /\ A[i][k] = data[a]
      BY <1>1, <2>1, <2>2
    <3>2. a \notin data_used..(data_used + Len(w) - 1)
      BY <1>1, <3>1
    <3> HIDE DEF a
    <3>3. data'[a] = data[a]
      BY <3>1, <3>2
    <3> QED
      BY <3>1, <3>3 DEF a
  <2>4. i \in 1..Len(nodes') /\ nodes'[i] = nodes[i]
    BY <1>2
  <2>5. FileOf(nodes', data', i) = A[i]
    <3>1. /\ Len(A[i]) = nodes'[i].size
          /\ \A k \in 1..nodes'[i].size : data'[nodes'[i].data_offset + k - 1] = A[i][k]
      BY <2>1, <2>3, <2>4
    <3> QED
      BY <1>1, <2>1, <2>4, <3>1, SameFile
  <2> QED
    BY <1>3, <2>4, <2>5
<1>5. B[Len(nodes) + 1] = w
  <2> DEFINE i == Len(nodes) + 1
  <2>1. i \in 1..Len(nodes') /\ nodes'[i].size = Len(w) /\ nodes'[i].data_offset = data_used
    BY <1>2
  <2>2. \A k \in 1..Len(w) : data'[data_used + k - 1] = w[k]
    <3> SUFFICES ASSUME NEW k \in 1..Len(w) PROVE data'[data_used + k - 1] = w[k]
      OBVIOUS
    <3>1. /\ data_used + k - 1 \in 0..(ArenaBytes - 1) /\ data_used + k - 1 \in data_used..(data_used + Len(w) - 1)
          /\ (data_used + k - 1) - data_used + 1 = k
      BY <1>1, <1>2, VfsAssumption
    <3> QED
      BY <3>1
  <2> HIDE DEF i
  <2>3. FileOf(nodes', data', i) = w
    <3>1. /\ Len(w) = nodes'[i].size
          /\ \A k \in 1..nodes'[i].size : data'[nodes'[i].data_offset + k - 1] = w[k]
      BY <2>1, <2>2
    <3> QED
      BY <1>1, <2>1, <3>1, SameFile
  <2> QED
    BY <1>3, <2>1, <2>3 DEF i
<1>6. /\ Append(A, w) \in Seq(Seq(Byte)) /\ Len(Append(A, w)) = Len(nodes) + 1
      /\ \A i \in 1..Len(nodes) : Append(A, w)[i] = A[i]
      /\ Append(A, w)[Len(nodes) + 1] = w
  BY <1>3, AppendProperties
<1>7. \A i \in 1..Len(B) : B[i] = Append(A, w)[i]
  BY <1>2, <1>3, <1>4, <1>5, <1>6
<1>8. B = Append(A, w)
  BY <1>3, <1>6, <1>7, SeqEqual
<1> QED
  BY <1>8 DEF A, B

(* What Overwrite returns. *)
LEMMA Overwrites ==
  ASSUME NEW S, NEW s \in Seq(S), NEW n \in Nat, n <= Len(s), NEW w \in Seq(S)
  PROVE  LET m == IF n + Len(w) > Len(s) THEN n + Len(w) ELSE Len(s)
             o == Service!Overwrite(s, n, w)
         IN  /\ o \in Seq(S) /\ Len(o) = m
             /\ \A j \in 1..m : o[j] = IF j \in (n + 1)..(n + Len(w)) THEN w[j - n] ELSE s[j]
<1> DEFINE m == IF n + Len(w) > Len(s) THEN n + Len(w) ELSE Len(s)
           o == Service!Overwrite(s, n, w)
<1>1. Len(s) \in Nat /\ Len(w) \in Nat
  OBVIOUS
<1>2. m \in Nat
  BY <1>1
<1>3. /\ o = [j \in 1..m |-> o[j]]
      /\ \A j \in 1..m : o[j] = IF j \in (n + 1)..(n + Len(w)) THEN w[j - n] ELSE s[j]
  BY DEF Service!Overwrite
<1>4. ASSUME NEW j \in 1..m PROVE o[j] \in S
  <2>1. CASE j \in (n + 1)..(n + Len(w))
    <3>1. j - n \in 1..Len(w)
      BY <1>1, <2>1
    <3>2. w[j - n] \in S
      BY <3>1, ElementOfSeq
    <3> QED
      BY <1>3, <2>1, <3>2
  <2>2. CASE j \notin (n + 1)..(n + Len(w))
    <3>1. j \in 1..Len(s)
      BY <1>1, <2>2
    <3>2. s[j] \in S
      BY <3>1, ElementOfSeq
    <3> QED
      BY <1>3, <2>2, <3>2
  <2> QED
    BY <2>1, <2>2
<1>5. o \in Seq(S) /\ Len(o) = m
  <2> HIDE DEF m, o
  <2>1. o \in [1..m -> S]
    BY <1>3, <1>4
  <2> QED
    BY <1>2, <2>1, Segment
<1> QED
  BY <1>3, <1>5

(* A write changes the bytes of its own file, and those as Overwrite says, *)
(* with what the arena holds between the end and a write behind it.        *)
LEMMA WritesBytes ==
  ASSUME VfsInv, NEW p \in Proc, NEW d \in Fd, NEW w \in Buffers, Within(p, d, w), Write(p, d, w)
  PROVE  \E gap \in Service!Gaps(BytesIn(nodes, data)[files[p][d].node], Offset(p, d)) :
           BytesIn(nodes', data') = [BytesIn(nodes, data) EXCEPT
             ![files[p][d].node] = Service!Overwrite(@ \o gap, Offset(p, d), w)]
<1> DEFINE k == files[p][d].node
           off == Offset(p, d)
           len == Len(w)
           base == nodes[k].data_offset
           A == BytesIn(nodes, data)
           B == BytesIn(nodes', data')
           g == IF off > nodes[k].size THEN off - nodes[k].size ELSE 0
           gap == [j \in 1..g |-> data[base + nodes[k].size + j - 1]]
           full == A[k] \o gap
           o == Service!Overwrite(full, off, w)
<1>1. /\ Kept(strayed) /\ Len(nodes') = Len(nodes)
      /\ \A i \in 1..Len(nodes) :
           /\ nodes'[i].data_offset = nodes[i].data_offset
           /\ nodes'[i].size = IF i = k /\ off + len > nodes[k].size THEN off + len ELSE nodes[i].size
  BY WriteKeeps
<1>2. /\ nodes \in Seq(RamNode) /\ nodes' \in Seq(RamNode)
      /\ data \in [0..(ArenaBytes - 1) -> Byte] /\ data' \in [0..(ArenaBytes - 1) -> Byte]
      /\ PlacedIn(nodes, data_used) /\ PlacedIn(nodes', data_used')
  BY <1>1 DEF VfsInv, VfsTypes, Kept
<1>3. /\ k \in 1..Len(nodes) /\ Len(nodes) \in Nat /\ off \in Nat
      /\ nodes[k].size \in Nat /\ base \in Nat /\ Node(p, d) = nodes[k]
      /\ nodes[k].data_capacity \in Nat
  <2>1. InUse(p, d)
    BY DEF Write
  <2> QED
    BY <2>1, HandleFacts
<1>4. off + len <= nodes[k].data_capacity /\ base + off + len <= ArenaBytes
  BY <1>3 DEF Within
<1>5. w \in Seq(Byte) /\ len \in Nat
  BY VfsAssumption
<1>6. \A a \in 0..(ArenaBytes - 1) :
        data'[a] = IF a \in (base + off)..(base + off + len - 1) THEN w[a - (base + off) + 1] ELSE data[a]
  <2>1. Stores(base + off, w) /\ base + off \in Nat /\ VfsTypes
    BY <1>3 DEF Write, VfsInv
  <2> HIDE DEF k, off, base
  <2> QED
    BY <2>1, StoresType
<1>7. /\ A \in Seq(Seq(Byte)) /\ Len(A) = Len(nodes) /\ \A i \in 1..Len(nodes) : A[i] = FileOf(nodes, data, i)
  BY <1>2, BytesType
<1>8. /\ B \in Seq(Seq(Byte)) /\ Len(B) = Len(nodes) /\ \A i \in 1..Len(nodes) : B[i] = FileOf(nodes', data', i)
  BY <1>1, <1>2, BytesType
<1> HIDE DEF k, off, len, base, A, B
<1>13. base + nodes[k].size + g <= ArenaBytes \/ g = 0
  <2>1. CASE off > nodes[k].size
    <3>1. g = off - nodes[k].size /\ base + nodes[k].size + (off - nodes[k].size) = base + off
      BY <1>3, <2>1
    <3>2. base + off <= ArenaBytes
      BY <1>3, <1>4, <1>5, VfsAssumption
    <3> QED
      BY <3>1, <3>2
  <2>2. CASE ~(off > nodes[k].size)
    BY <2>2
  <2> QED
    BY <2>1, <2>2
<1>14. g \in Nat /\ off <= nodes[k].size + g /\ nodes[k].size + g \in Nat
       /\ (g # 0 => nodes[k].size + g = off)
  BY <1>3
<1>9. ASSUME NEW i \in 1..Len(nodes)
      PROVE  /\ A[i] \in Seq(Byte) /\ Len(A[i]) = nodes[i].size /\ nodes[i].size \in Nat /\ nodes[i].data_offset \in Nat
             /\ \A j \in 1..nodes[i].size : /\ nodes[i].data_offset + j - 1 \in 0..(ArenaBytes - 1)
                                            /\ A[i][j] = data[nodes[i].data_offset + j - 1]
  <2>1. A[i] = FileOf(nodes, data, i)
    BY <1>7
  <2>2. IsFile(nodes, data, i)
    BY <1>2, FileOfType
  <2> QED
    BY <2>1, <2>2 DEF IsFile
<1>10. ASSUME NEW i \in 1..Len(nodes), i # k PROVE B[i] = A[i]
  <2>1. nodes[i].data_capacity \in Nat
    <3>1. nodes[i] \in RamNode
      BY <1>2
    <3> QED
      BY <3>1 DEF RamNode
  <2>2. nodes[i].size <= nodes[i].data_capacity
    BY <1>2 DEF PlacedIn
  <2>3. \/ nodes[i].data_offset + nodes[i].data_capacity <= base
        \/ base + nodes[k].data_capacity <= nodes[i].data_offset
    <3>1. CASE i < k
      BY <1>2, <1>3, <3>1 DEF PlacedIn, base
    <3>2. CASE k < i
      BY <1>2, <1>3, <3>2 DEF PlacedIn, base
    <3> QED
      BY <1>3, <1>10, <3>1, <3>2
  <2>4. ASSUME NEW j \in 1..nodes[i].size PROVE data'[nodes[i].data_offset + j - 1] = A[i][j]
    <3> DEFINE a == nodes[i].data_offset + j - 1
    <3>1. a \in 0..(ArenaBytes - 1) /\ A[i][j] = data[a]
      BY <1>9
    <3>2. a \notin (base + off)..(base + off + len - 1)
      <4>1. nodes[i].size \in Nat /\ nodes[i].data_offset \in Nat /\ j \in Nat /\ 1 <= j /\ j <= nodes[i].size
        BY <1>9
      <4>2. CASE nodes[i].data_offset + nodes[i].data_capacity <= base
        <5>1. a < base
          BY <1>3, <2>1, <2>2, <4>1, <4>2
        <5> HIDE DEF a
        <5> QED
          BY <1>3, <3>1, <5>1
      <4>3. CASE base + nodes[k].data_capacity <= nodes[i].data_offset
        <5>1. base + (off + len) <= a
          BY <1>3, <1>4, <1>5, <4>1, <4>3
        <5> HIDE DEF a
        <5> QED
          BY <1>3, <1>5, <3>1, <5>1
      <4> QED
        BY <2>3, <4>2, <4>3
    <3> HIDE DEF a
    <3>3. data'[a] = data[a]
      BY <1>6, <3>1, <3>2
    <3> QED
      BY <3>1, <3>3 DEF a
  <2>5. /\ i \in 1..Len(nodes') /\ Len(A[i]) = nodes'[i].size /\ A[i] \in Seq(Byte)
        /\ \A j \in 1..nodes'[i].size : data'[nodes'[i].data_offset + j - 1] = A[i][j]
    BY <1>1, <1>9, <1>10, <2>4
  <2>6. FileOf(nodes', data', i) = A[i]
    BY <1>2, <2>5, SameFile
  <2> QED
    BY <1>8, <2>6
<1>16. gap \in [1..g -> Byte] /\ \A j \in 1..g : /\ base + nodes[k].size + j - 1 \in 0..(ArenaBytes - 1)
                                                  /\ gap[j] = data[base + nodes[k].size + j - 1]
  <2>1. \A j \in 1..g : base + nodes[k].size + j - 1 \in 0..(ArenaBytes - 1)
    <3> DEFINE z == nodes[k].size
    <3>1. z \in Nat /\ base \in Nat /\ g \in Nat /\ (base + z + g <= ArenaBytes \/ g = 0) /\ ArenaBytes \in Nat
      BY <1>3, <1>13, <1>14, VfsAssumption
    <3> HIDE DEF g, z
    <3>2. \A j \in 1..g : base + z + j - 1 \in 0..(ArenaBytes - 1)
      BY <3>1
    <3> QED
      BY <3>2 DEF z
  <2> HIDE DEF g
  <2> QED
    BY <1>2, <2>1
<1>15. /\ full \in Seq(Byte) /\ Len(full) = nodes[k].size + g
       /\ \A j \in 1..(nodes[k].size + g) : /\ base + j - 1 \in 0..(ArenaBytes - 1)
                                            /\ full[j] = data[base + j - 1]
  <2> HIDE DEF g, gap
  <2>1. gap \in Seq(Byte) /\ Len(gap) = g
    BY <1>14, <1>16, Segment
  <2>2. A[k] \in Seq(Byte) /\ Len(A[k]) = nodes[k].size
    BY <1>3, <1>9
  <2>3. /\ full \in Seq(Byte) /\ Len(full) = nodes[k].size + g
        /\ \A j \in 1..(nodes[k].size + g) :
             full[j] = IF j <= nodes[k].size THEN A[k][j] ELSE gap[j - nodes[k].size]
    <3> DEFINE old == A[k]
    <3>1. old \in Seq(Byte) /\ Len(old) = nodes[k].size
      BY <2>2
    <3>2. full = old \o gap
      OBVIOUS
    <3> HIDE DEF old, full
    <3>3. /\ old \o gap \in Seq(Byte) /\ Len(old \o gap) = Len(old) + Len(gap)
          /\ \A j \in 1..(Len(old) + Len(gap)) :
               (old \o gap)[j] = IF j <= Len(old) THEN old[j] ELSE gap[j - Len(old)]
      BY <2>1, <3>1, ConcatProperties
    <3> QED
      BY <2>1, <3>1, <3>2, <3>3 DEF old
  <2>4. ASSUME NEW j \in 1..(nodes[k].size + g)
        PROVE  base + j - 1 \in 0..(ArenaBytes - 1) /\ full[j] = data[base + j - 1]
    <3>1. CASE j <= nodes[k].size
      <4>1. j \in 1..nodes[k].size
        BY <1>3, <3>1
      <4> QED
        BY <1>3, <1>9, <2>3, <3>1, <4>1 DEF base
    <3>2. CASE ~(j <= nodes[k].size)
      <4>1. j - nodes[k].size \in 1..g /\ base + nodes[k].size + (j - nodes[k].size) - 1 = base + j - 1
        BY <1>3, <1>14, <3>2
      <4> QED
        BY <1>16, <2>3, <3>2, <4>1
    <3> QED
      BY <3>1, <3>2
  <2> QED
    BY <2>3, <2>4
<1> HIDE DEF g, gap
<1>11. B[k] = o
  <2> DEFINE m == IF off + len > nodes[k].size THEN off + len ELSE nodes[k].size
             f == IF off + len > Len(full) THEN off + len ELSE Len(full)
  <2>1. full \in Seq(Byte) /\ Len(full) = nodes[k].size + g
    BY <1>15
  <2>0. off <= Len(full)
    BY <1>14, <2>1
  <2> HIDE DEF full
  <2>2. /\ o \in Seq(Byte) /\ Len(o) = f
        /\ \A j \in 1..f : o[j] = IF j \in (off + 1)..(off + len) THEN w[j - off] ELSE full[j]
    BY <1>3, <1>5, <2>0, <2>1, Overwrites DEF len
  <2>7. f = m
    BY <1>3, <1>5, <1>14, <2>1
  <2> HIDE DEF o, f, g
  <2>3. ASSUME NEW j \in 1..m PROVE data'[base + j - 1] = o[j]
    <3> DEFINE a == base + j - 1
    <3>1. CASE j \in (off + 1)..(off + len)
      <4>1. /\ a \in 0..(ArenaBytes - 1) /\ a \in (base + off)..(base + off + len - 1)
            /\ a - (base + off) + 1 = j - off
        BY <1>3, <1>4, <1>5, <3>1, VfsAssumption
      <4> HIDE DEF a
      <4>2. data'[a] = w[j - off]
        BY <1>6, <4>1
      <4> QED
        BY <2>2, <2>7, <3>1, <4>2 DEF a
    <3>2. CASE j \notin (off + 1)..(off + len)
      <4>1. j \in 1..nodes[k].size \/ j \in 1..off
        BY <1>3, <1>5, <3>2
      <4>5. j \in 1..(nodes[k].size + g)
        BY <1>3, <1>14, <4>1
      <4>2. a \in 0..(ArenaBytes - 1) /\ full[j] = data[a]
        BY <1>15, <4>5
      <4>3. a \notin (base + off)..(base + off + len - 1)
        BY <1>3, <1>5, <3>2
      <4> HIDE DEF a
      <4>4. data'[a] = data[a]
        BY <1>6, <4>2, <4>3
      <4> QED
        BY <2>2, <2>7, <3>2, <4>2, <4>4 DEF a
    <3> QED
      BY <3>1, <3>2
  <2>4. nodes'[k].size = m /\ nodes'[k].data_offset = base
    BY <1>1, <1>3 DEF base
  <2> HIDE DEF m
  <2>5. /\ k \in 1..Len(nodes') /\ Len(o) = nodes'[k].size
        /\ \A j \in 1..nodes'[k].size : data'[nodes'[k].data_offset + j - 1] = o[j]
    BY <1>1, <1>3, <2>2, <2>3, <2>4, <2>7
  <2>6. FileOf(nodes', data', k) = o
    BY <1>2, <2>2, <2>5, SameFile
  <2> QED
    BY <1>3, <1>8, <2>6
<1>12. B = [A EXCEPT ![k] = o]
  <2>1. o \in Seq(Byte)
    <3>1. B[k] \in Seq(Byte)
      BY <1>3, <1>8, ElementOfSeq
    <3> QED
      BY <1>11, <3>1
  <2> HIDE DEF o
  <2>2. /\ [A EXCEPT ![k] = o] \in Seq(Seq(Byte)) /\ Len([A EXCEPT ![k] = o]) = Len(nodes)
        /\ \A i \in 1..Len(nodes) : [A EXCEPT ![k] = o][i] = IF i = k THEN o ELSE A[i]
    BY <1>3, <1>7, <2>1, ExceptSeq
  <2>3. \A i \in 1..Len(B) : B[i] = [A EXCEPT ![k] = o][i]
    BY <1>8, <1>10, <1>11, <2>2
  <2> QED
    BY <1>8, <2>2, <2>3, SeqEqual
<1>17. gap \in Service!Gaps(A[k], off)
  <2>1. Len(A[k]) = nodes[k].size
    BY <1>3, <1>9
  <2>2. gap \in [1..g -> Byte]
    BY <1>16
  <2> QED
    BY <2>1, <2>2 DEF Service!Gaps, g
<1>18. B = [A EXCEPT ![k] = Service!Overwrite(@ \o gap, off, w)]
  BY <1>12
<1> QED
  BY <1>17, <1>18 DEF A, B, k, off

(* A descriptor in use shows as a position in a file. *)
LEMMA ShownIs ==
  ASSUME NEW h \in Handle
  PROVE  /\ h # Closed /\ Shown(h) = [file |-> h.node, pos |-> h.offset]
         /\ Shown(h) # Closed /\ Shown(h).file = h.node /\ Shown(h).pos = h.offset
<1>1. [file |-> h.node, pos |-> h.offset] \in [file : Nat, pos : Nat]
  BY DEF Handle
<1>2. h # Closed /\ [file |-> h.node, pos |-> h.offset] # Closed
  BY <1>1, VfsAssumption DEF Handle
<1> QED
  BY <1>2 DEF Shown

(* A table with one descriptor set. *)
SetFd(F, p, d, h) == [F EXCEPT ![p][d] = h]

(* One descriptor set is one position set. *)
LEMMA ShownSet ==
  ASSUME NEW F \in [Proc -> [Fd -> Handle \cup {Closed}]],
         NEW p \in Proc, NEW d \in Fd, NEW h \in Handle \cup {Closed}
  PROVE  HandlesIn(SetFd(F, p, d, h)) = SetFd(HandlesIn(F), p, d, Shown(h))
<1> DEFINE G == [F EXCEPT ![p][d] = h]
           L == HandlesIn(G)
           R == [HandlesIn(F) EXCEPT ![p][d] = Shown(h)]
<1>1. \A q \in Proc, e \in Fd : G[q][e] = IF q = p /\ e = d THEN h ELSE F[q][e]
  BY HandleSet DEF OneHandle
<1> HIDE DEF G
<1>2. L = [q \in Proc |-> [e \in Fd |-> L[q][e]]]
      /\ \A q \in Proc, e \in Fd : L[q][e] = Shown(G[q][e])
  BY DEF HandlesIn
<1>3. R = [q \in Proc |-> [e \in Fd |-> R[q][e]]]
      /\ \A q \in Proc, e \in Fd : R[q][e] = IF q = p /\ e = d THEN Shown(h) ELSE Shown(F[q][e])
  BY DEF HandlesIn
<1> HIDE DEF L, R
<1>4. \A q \in Proc, e \in Fd : L[q][e] = R[q][e]
  BY <1>1, <1>2, <1>3
<1>5. L = R
  BY <1>2, <1>3, <1>4
<1> QED
  BY <1>5 DEF L, R, G, SetFd

(* What a process sees of its descriptor. *)
LEMMA HandleShows ==
  ASSUME VfsInv, NEW p \in Proc, NEW d \in Fd
  PROVE  /\ Handles[p][d] = Shown(files[p][d])
         /\ ~InUse(p, d) => Handles[p][d] = Closed
         /\ InUse(p, d) => /\ Handles[p][d] # Closed
                           /\ Handles[p][d].file = files[p][d].node /\ Handles[p][d].pos = Offset(p, d)
<1>1. Handles[p][d] = Shown(files[p][d])
  BY MappedTo DEF HandlesIn
<1>2. ASSUME InUse(p, d)
      PROVE  /\ Handles[p][d] # Closed
             /\ Handles[p][d].file = files[p][d].node /\ Handles[p][d].pos = Offset(p, d)
  <2>1. files[p][d] \in Handle
    BY <1>2, HandleFacts
  <2> QED
    BY <1>1, <2>1, ShownIs DEF Offset
<1>3. ~InUse(p, d) => Handles[p][d] = Closed
  BY <1>1 DEF Shown, InUse
<1> QED
  BY <1>1, <1>2, <1>3

(* A descriptor that moves is a position that moves. *)
LEMMA PositionSet ==
  ASSUME VfsInv, NEW p \in Proc, NEW d \in Fd, InUse(p, d), NEW n \in Nat,
         files' = [files EXCEPT ![p][d].offset = n]
  PROVE  Handles' = [Handles EXCEPT ![p][d].pos = n]
<1> DEFINE h == [node |-> files[p][d].node, offset |-> n]
<1>1. h \in Handle /\ files' = [files EXCEPT ![p][d] = h]
  BY Moved
<1>2. h.node = files[p][d].node /\ h.offset = n
  OBVIOUS
<1> HIDE DEF h
<1>3. files \in [Proc -> [Fd -> Handle \cup {Closed}]]
  BY DEF VfsInv, VfsTypes
<1>4. Handles' = [Handles EXCEPT ![p][d] = Shown(h)]
  <2>0. h \in Handle \cup {Closed}
    BY <1>1
  <2>1. HandlesIn(SetFd(files, p, d, h)) = SetFd(HandlesIn(files), p, d, Shown(h))
    BY <1>3, <2>0, ShownSet
  <2>2. Handles = HandlesIn(files) /\ Handles' = HandlesIn(files')
    BY MappedTo
  <2> QED
    BY <1>1, <2>1, <2>2 DEF SetFd
<1>5. Shown(h) = [file |-> files[p][d].node, pos |-> n]
  BY <1>1, <1>2, ShownIs
<1>6. Handles[p][d] = [file |-> files[p][d].node, pos |-> Offset(p, d)]
  <2>1. files[p][d] \in Handle
    BY HandleFacts
  <2> QED
    BY <2>1, ShownIs, HandleShows DEF Offset
<1>7. [Handles[p][d] EXCEPT !.pos = n] = [file |-> files[p][d].node, pos |-> n]
  BY <1>6
<1> QED
  BY <1>4, <1>5, <1>7

(* The answers are the same. *)
LEMMA SameAnswers ==
  /\ \A n : Service!Ok(n) = Ok(n) /\ Service!Got(n) = Got(n) /\ Service!Err(n) = Err(n)
BY DEF Ok, Got, Err, Service!Ok, Service!Got, Service!Err

(* What the mapping shows of the files. *)
LEMMA FilesShown ==
  ASSUME VfsInv
  PROVE  /\ FileBytes = BytesIn(nodes, data) /\ FileBytes \in Seq(Seq(Byte))
         /\ Len(FileBytes) = Len(nodes) /\ DOMAIN FileBytes = 1..Len(nodes)
         /\ \A i \in 1..Len(nodes) : FileBytes[i] = FileOf(nodes, data, i) /\ IsFile(nodes, data, i)
<1>1. /\ nodes \in Seq(RamNode) /\ data \in [0..(ArenaBytes - 1) -> Byte] /\ PlacedIn(nodes, data_used)
  BY DEF VfsInv, VfsTypes
<1>2. \A i \in 1..Len(nodes) : IsFile(nodes, data, i)
  BY <1>1, FileOfType
<1> QED
  BY <1>1, <1>2, BytesType, MappedTo

(* A read inside its file returns the bytes of the file. *)
LEMMA ReadShown ==
  ASSUME VfsInv, NEW p \in Proc, NEW d \in Fd, NEW len \in Nat, Read(p, d, len),
         Offset(p, d) <= Node(p, d).size
  PROVE  Service!Read(p, d, len)
<1> DEFINE k == files[p][d].node
           off == Offset(p, d)
           size == Node(p, d).size
           n == IF off + len < size THEN len ELSE size - off
           s == FileBytes[k]
           got == Service!Taken(s, off, len)
           out == [i \in 1..n |-> data[Node(p, d).data_offset + off + i - 1]]
<1>1. /\ InUse(p, d) /\ n \in Nat /\ off + n <= size
      /\ files' = [files EXCEPT ![p][d].offset = off + n] /\ answer' = Got(out)
  BY ReadTakes
<1>2. /\ k \in 1..Len(nodes) /\ off \in Nat /\ off <= size /\ size \in Nat
      /\ Node(p, d) = nodes[k] /\ Node(p, d).data_offset \in Nat
  BY <1>1, HandleFacts
<1>3. s = FileOf(nodes, data, k) /\ IsFile(nodes, data, k)
  BY <1>2, FilesShown
<1>4. /\ s \in Seq(Byte) /\ Len(s) = size
      /\ \A j \in 1..size : /\ Node(p, d).data_offset + j - 1 \in 0..(ArenaBytes - 1)
                            /\ s[j] = data[Node(p, d).data_offset + j - 1]
  <2> HIDE DEF s, k
  <2> QED
    BY <1>2, <1>3 DEF IsFile
<1>5. off + n = IF off + len < size THEN off + len ELSE size
  BY <1>2
<1>6. got = SubSeq(s, off + 1, off + n)
  <2> HIDE DEF s, size, n, off
  <2> QED
    BY <1>4, <1>5 DEF Service!Taken
<1> HIDE DEF k, off, size, s, got
<1>7. /\ got \in Seq(Byte) /\ Len(got) = n /\ \A i \in 1..n : got[i] = s[off + i]
  <2> HIDE DEF n
  <2>1. \A j \in (off + 1)..(off + n) : s[j] \in Byte
    BY <1>1, <1>2, <1>4, ElementOfSeq
  <2>2. off + 1 \in Int /\ off + n \in Int /\ (off + n) - (off + 1) + 1 = n
    BY <1>1, <1>2
  <2>3. /\ SubSeq(s, off + 1, off + n) \in Seq(Byte)
        /\ Len(SubSeq(s, off + 1, off + n)) = IF off + 1 <= off + n THEN (off + n) - (off + 1) + 1 ELSE 0
        /\ \A i \in 1..((off + n) - (off + 1) + 1) : SubSeq(s, off + 1, off + n)[i] = s[off + 1 + i - 1]
    BY <2>1, <2>2, SubSeqProperties
  <2>4. \A i \in 1..n : off + 1 + i - 1 = off + i
    BY <1>1, <1>2
  <2>5. Len(got) = n
    BY <1>1, <1>2, <1>6, <2>2, <2>3
  <2>6. \A i \in 1..n : got[i] = s[off + i]
    <3> SUFFICES ASSUME NEW i \in 1..n PROVE got[i] = s[off + i]
      OBVIOUS
    <3>1. got[i] = s[off + 1 + i - 1]
      BY <1>6, <2>2, <2>3
    <3> QED
      BY <2>4, <3>1
  <2> QED
    BY <1>6, <2>3, <2>5, <2>6
<1>8. got = out
  <2>1. out = [i \in 1..n |-> out[i]] /\ \A i \in 1..n : out[i] = data[Node(p, d).data_offset + off + i - 1]
    OBVIOUS
  <2> HIDE DEF n, out
  <2>2. ASSUME NEW i \in 1..n PROVE out[i] = got[i]
    <3>1. off + i \in 1..size /\ Node(p, d).data_offset + (off + i) - 1 = Node(p, d).data_offset + off + i - 1
      BY <1>1, <1>2
    <3>2. s[off + i] = data[Node(p, d).data_offset + (off + i) - 1]
      BY <1>4, <3>1
    <3> QED
      BY <1>7, <2>1, <3>1, <3>2
  <2>3. got = [i \in 1..n |-> got[i]]
    BY <1>1, <1>7
  <2> QED
    BY <2>1, <2>2, <2>3
<1>9. Handles' = [Handles EXCEPT ![p][d].pos = off + n]
  <2> HIDE DEF n
  <2>1. off + n \in Nat
    BY <1>1, <1>2
  <2> QED
    BY <1>1, <2>1, PositionSet
<1> HIDE DEF n, out
<1>10. Handles[p][d] # Closed /\ Handles[p][d].file = k /\ Handles[p][d].pos = off
  BY <1>1, HandleShows DEF k, off
<1>11. FileBytes' = FileBytes
  BY DEF Read, fs, FileBytes, Contents
<1>12. answer' = Service!Got(got)
  BY <1>1, <1>8, SameAnswers
<1>13. /\ Service!Taken(FileBytes[Handles[p][d].file], Handles[p][d].pos, len) = got
       /\ Handles[p][d].pos <= Len(FileBytes[Handles[p][d].file])
  BY <1>2, <1>4, <1>10 DEF got, s
<1>14. Handles' = [Handles EXCEPT ![p][d].pos = @ + Len(got)]
  BY <1>7, <1>9, <1>10
<1> QED
  BY <1>10, <1>11, <1>12, <1>13, <1>14 DEF Service!Read

(* A read behind its file returns any bytes. *)
LEMMA ReadBehindShown ==
  ASSUME VfsInv, NEW p \in Proc, NEW d \in Fd, NEW len \in Nat, Read(p, d, len),
         ~(Offset(p, d) <= Node(p, d).size)
  PROVE  Service!ReadBehind(p, d, len)
<1> DEFINE k == files[p][d].node
<1>1. PICK m \in 0..len :
        /\ InUse(p, d) /\ (Offset(p, d) + m) % SizeT \in Nat
        /\ files' = [files EXCEPT ![p][d].offset = (Offset(p, d) + m) % SizeT]
        /\ \E bytes \in [1..m -> Byte] : answer' = Got(bytes)
  BY ReadStrays
<1>2. k \in 1..Len(nodes) /\ Node(p, d) = nodes[k] /\ Offset(p, d) \in Nat /\ Node(p, d).size \in Nat
  BY <1>1, HandleFacts
<1>3. Handles[p][d] # Closed /\ Handles[p][d].file = k /\ Handles[p][d].pos = Offset(p, d)
  BY <1>1, HandleShows
<1>4. Len(FileBytes[k]) = Node(p, d).size
  BY <1>2, FilesShown DEF IsFile
<1>5. Handles[p][d].pos > Len(FileBytes[Handles[p][d].file])
  BY <1>2, <1>3, <1>4
<1>6. Handles' = [Handles EXCEPT ![p][d].pos = (@ + m) % SizeT]
  <2> DEFINE x == (Offset(p, d) + m) % SizeT
  <2>1. x \in Nat /\ files' = [files EXCEPT ![p][d].offset = x]
    BY <1>1
  <2>2. (Handles[p][d].pos + m) % SizeT = x
    BY <1>3
  <2> HIDE DEF x
  <2>4. InUse(p, d)
    BY <1>1
  <2>3. Handles' = [Handles EXCEPT ![p][d].pos = x]
    BY <2>1, <2>4, PositionSet
  <2> QED
    BY <2>2, <2>3
<1>7. FileBytes' = FileBytes
  BY DEF Read, fs, FileBytes, Contents
<1>8. \E bytes \in [1..m -> Byte] : answer' = Service!Got(bytes)
  BY <1>1, SameAnswers
<1> QED
  BY <1>3, <1>5, <1>6, <1>7, <1>8 DEF Service!ReadBehind

(* Opening and closing set one descriptor. *)
LEMMA DescriptorShown ==
  ASSUME VfsInv, NEW p \in Proc, NEW d \in Fd, NEW h \in Handle \cup {Closed},
         files' = [files EXCEPT ![p][d] = h]
  PROVE  Handles' = [Handles EXCEPT ![p][d] = Shown(h)]
<1>1. files \in [Proc -> [Fd -> Handle \cup {Closed}]]
  BY DEF VfsInv, VfsTypes
<1>2. HandlesIn(SetFd(files, p, d, h)) = SetFd(HandlesIn(files), p, d, Shown(h))
  BY <1>1, ShownSet
<1>3. Handles = HandlesIn(files) /\ Handles' = HandlesIn(files')
  BY MappedTo
<1> QED
  BY <1>2, <1>3 DEF SetFd

(* The descriptor mcs_sys_open takes is the lowest. *)
LEMMA OpenShown ==
  ASSUME VfsInv, NEW p \in Proc, FreeFds(p) # {}, NEW i \in Nat, OpenFd(p, i)
  PROVE  \E d \in Fd : Service!Open(p, d, i)
<1> DEFINE d == Least(FreeFds(p))
           h == [node |-> i, offset |-> 0]
<1>1. /\ d \in Fd /\ files[p][d] = Closed /\ \A e \in Fd : files[p][e] = Closed => d <= e
      /\ h \in Handle /\ files' = [files EXCEPT ![p][d] = h] /\ answer' = Ok(d)
  BY Opened
<1>2. h.node = i /\ h.offset = 0
  OBVIOUS
<1> HIDE DEF d, h
<1>3. Handles' = [Handles EXCEPT ![p][d] = Shown(h)]
  <2>1. h \in Handle \cup {Closed} /\ d \in Fd /\ files' = [files EXCEPT ![p][d] = h]
    BY <1>1
  <2> QED
    BY <2>1, DescriptorShown
<1>4. Shown(h) = [file |-> i, pos |-> 0]
  BY <1>1, <1>2, ShownIs
<1>5. Handles[p][d] = Closed /\ \A e \in Fd : Handles[p][e] = Closed => d <= e
  BY <1>1, HandleShows DEF InUse
<1>6. Service!Open(p, d, i)
  BY <1>1, <1>3, <1>4, <1>5, SameAnswers DEF Service!Open
<1> QED
  BY <1>1, <1>6

(* The arena as it was shows the same files. *)
LEMMA SameBytes == UNCHANGED fs => FileBytes' = FileBytes
BY DEF fs, FileBytes, Contents

(* Every step of the code is one of the service. *)
LEMMA StepShown ==
  ASSUME VfsInv, [Next]_vars
  PROVE  [Service!Next]_(Service!vars)
<1>0. VfsInv'
  BY NextVfs
<1>1. /\ Handles = HandlesIn(files) /\ Handles' = HandlesIn(files')
      /\ nodes \in Seq(RamNode) /\ Len(nodes) \in Nat
      /\ FileBytes = BytesIn(nodes, data) /\ FileBytes' = BytesIn(nodes', data')
  BY <1>0, MappedTo DEF VfsInv, VfsTypes
<1>2. ASSUME UNCHANGED fs, UNCHANGED files,
             NEW e \in {"EINVAL", "ENFILE", "ENOENT", "ENOSPC", "EBADF"}, answer' = Err(e)
      PROVE  Service!Next
  <2>1. Service!Refuse
    BY <1>1, <1>2, SameBytes, SameAnswers DEF Service!Refuse
  <2> QED
    BY <2>1 DEF Service!Next
<1>3. ASSUME NEW n \in Names, SeedFails(n) PROVE Service!Next
  BY <1>2, <1>3 DEF SeedFails
<1>4. ASSUME NEW n \in Names, NEW w \in Buffers, Fits(n, w), SeedFile(n, w) PROVE Service!Next
  <2>1. /\ w \in Seq(Byte) /\ Len(w) <= Capacity /\ data_used + Len(w) <= ArenaBytes
        /\ data_used \in Nat /\ VfsTypes
    BY <1>4, VfsAssumption DEF Fits, VfsInv, VfsTypes
  <2>2. CreateFile(n, Len(w)) /\ Stores(data_used, w) /\ files' = files /\ answer' = Ok(0)
    BY <1>4 DEF SeedFile
  <2>3. \A a \in 0..(ArenaBytes - 1) :
          data'[a] = IF a \in data_used..(data_used + Len(w) - 1) THEN w[a - data_used + 1] ELSE data[a]
    BY <2>1, <2>2, StoresType
  <2>4. BytesIn(nodes', data') = Append(BytesIn(nodes, data), w)
    BY <1>0, <2>1, <2>2, <2>3, AppendsBytes
  <2>5. Service!Seed(w)
    BY <1>1, <2>2, <2>4, SameAnswers DEF Service!Seed
  <2> QED
    BY <2>5 DEF Service!Next
<1>5. ASSUME NEW p \in Proc, FdTableInit(p) PROVE Service!Next
  <2>1. UNCHANGED fs /\ files' = [files EXCEPT ![p] = [d \in Fd |-> Closed]] /\ answer' = Ok(0)
    BY <1>5 DEF FdTableInit, NoFds
  <2>2. HandlesIn(files') = [HandlesIn(files) EXCEPT ![p] = [d \in Fd |-> Closed]]
    <3>1. files \in [Proc -> [Fd -> Handle \cup {Closed}]]
      BY DEF VfsInv, VfsTypes
    <3>2. \A q \in Proc, e \in Fd : files'[q][e] = IF q = p THEN Closed ELSE files[q][e]
      BY <2>1, <3>1
    <3>3. Shown(Closed) = Closed
      BY DEF Shown
    <3> QED
      BY <3>2, <3>3 DEF HandlesIn
  <2>3. Service!Restart(p)
    BY <1>1, <2>1, <2>2, SameBytes, SameAnswers DEF Service!Restart
  <2> QED
    BY <2>3 DEF Service!Next
<1>6. ASSUME NEW p \in Proc, NEW n \in Names \cup {Root}, Open(p, n) PROVE Service!Next
  <2> DEFINE i == Least(Lookup(n))
  <2>1. Lookup(n) \subseteq 1..Len(nodes) /\ Lookup(n) \subseteq Nat /\ Lookup(n) # {}
    BY <1>1, <1>6 DEF Lookup, Open
  <2>2. i \in 1..Len(nodes) /\ i \in Nat
    BY <2>1, LeastIs
  <2>3. FreeFds(p) # {} /\ OpenFd(p, i) /\ UNCHANGED fs
    BY <1>6 DEF Open
  <2> HIDE DEF i
  <2>4. PICK d \in Fd : Service!Open(p, d, i)
    BY <2>2, <2>3, OpenShown
  <2>5. i \in DOMAIN FileBytes /\ FileBytes' = FileBytes
    BY <2>2, <2>3, FilesShown, SameBytes
  <2>6. Service!OpenOld(p, d)
    BY <2>4, <2>5 DEF Service!OpenOld
  <2> QED
    BY <2>6 DEF Service!Next
<1>7. ASSUME NEW p \in Proc, NEW n \in Names \cup {Root}, OpenCreates(p, n) PROVE Service!Next
  <2>1. FreeFds(p) # {} /\ OpenFd(p, Len(nodes) + 1) /\ CreateFile(n, 0) /\ data' = data
    BY <1>7 DEF OpenCreates
  <2>2. Len(nodes) + 1 \in Nat
    BY <1>1
  <2>3. PICK d \in Fd : Service!Open(p, d, Len(nodes) + 1)
    BY <2>1, <2>2, OpenShown
  <2>4. BytesIn(nodes', data') = Append(BytesIn(nodes, data), <<>>)
    <3> DEFINE w == <<>>
    <3>1. w \in Seq(Byte) /\ Len(w) = 0 /\ data_used \in Nat
      BY DEF VfsInv, VfsTypes
    <3> HIDE DEF w
    <3>2. \A a \in 0..(ArenaBytes - 1) :
            data'[a] = IF a \in data_used..(data_used + Len(w) - 1) THEN w[a - data_used + 1] ELSE data[a]
      BY <2>1, <3>1
    <3>3. CreateFile(n, Len(w)) /\ Len(w) <= Capacity /\ (Len(w) # 0 => data_used + Len(w) <= ArenaBytes)
      BY <2>1, <3>1, VfsAssumption
    <3>4. BytesIn(nodes', data') = Append(BytesIn(nodes, data), w)
      BY <1>0, <3>1, <3>2, <3>3, AppendsBytes
    <3> QED
      BY <3>4 DEF w
  <2>5. Service!OpenNew(p, d)
    BY <1>1, <2>3, <2>4, FilesShown DEF Service!OpenNew
  <2> QED
    BY <2>5 DEF Service!Next
<1>8. ASSUME NEW p \in Proc, NEW n, NEW c, OpenFindsNothing(p, n, c) \/ OpenRefused(p) PROVE Service!Next
  BY <1>2, <1>8 DEF OpenFindsNothing, OpenFailed, OpenRefused
<1>9. ASSUME NEW p \in Proc, NEW d \in Fd, NEW n \in 0..MaxLen, Read(p, d, n) PROVE Service!Next
  <2>1. n \in Nat
    BY VfsAssumption
  <2>2. Service!Read(p, d, n) \/ Service!ReadBehind(p, d, n)
    BY <1>9, <2>1, ReadShown, ReadBehindShown
  <2> QED
    BY <2>2 DEF Service!Next
<1>10. ASSUME NEW p \in Proc, NEW d \in Fd, NEW n \in Positions, NEW whence, Lseek(p, d, n, whence)
       PROVE  Service!Next
  <2>1. InUse(p, d) /\ UNCHANGED fs /\ n \in Nat
    BY <1>10, VfsAssumption DEF Lseek
  <2>2. Handles[p][d] # Closed /\ Handles[p][d].pos = Offset(p, d)
    BY <2>1, HandleShows
  <2>3. CASE files' = [files EXCEPT ![p][d].offset = n] /\ answer' = Ok(AsInt(n))
    <3>1. Handles' = [Handles EXCEPT ![p][d].pos = n]
      BY <2>1, <2>3, PositionSet
    <3>2. Service!Seek(p, d, n)
      BY <2>1, <2>2, <2>3, <3>1, SameBytes, SameAnswers DEF Service!Seek
    <3> QED
      BY <3>2 DEF Service!Next
  <2>4. CASE files' = files /\ answer' = Ok(AsInt(Offset(p, d)))
    <3>1. Service!Tell(p, d)
      BY <1>1, <2>1, <2>2, <2>4, SameBytes, SameAnswers DEF Service!Tell
    <3> QED
      BY <3>1 DEF Service!Next
  <2> QED
    BY <1>10, <2>3, <2>4 DEF Lseek
<1>13. ASSUME NEW p \in Proc, NEW d \in Fd, Close(p, d) PROVE Service!Next
  <2>1. InUse(p, d) /\ files' = [files EXCEPT ![p][d] = Closed] /\ answer' = Ok(0) /\ UNCHANGED fs
    BY <1>13 DEF Close
  <2>2. Handles' = [Handles EXCEPT ![p][d] = Shown(Closed)]
    BY <2>1, DescriptorShown
  <2>3. Shown(Closed) = Closed /\ Handles[p][d] # Closed
    BY <2>1, HandleShows DEF Shown
  <2>4. Service!Close(p, d)
    BY <2>1, <2>2, <2>3, SameBytes, SameAnswers DEF Service!Close
  <2> QED
    BY <2>4 DEF Service!Next
<1>14. ASSUME NEW p \in Proc, NEW d \in Fd, BadFd(p, d) PROVE Service!Next
  BY <1>2, <1>14 DEF BadFd
<1>15. ASSUME NEW p \in Proc, NEW d \in Fd, NEW w \in Buffers, Within(p, d, w), Write(p, d, w)
       PROVE  Service!Next
  <2>1. /\ InUse(p, d) /\ files' = [files EXCEPT ![p][d].offset = Offset(p, d) + Len(w)]
        /\ answer' = Ok(Len(w))
    BY <1>15 DEF Write
  <2>2. Offset(p, d) + Len(w) \in Nat
    <3>1. Offset(p, d) \in Nat /\ w \in Seq(Byte)
      BY <2>1, HandleFacts, VfsAssumption
    <3>2. Len(w) \in Nat
      BY <3>1
    <3> QED
      BY <3>1, <3>2
  <2>3. Handles' = [Handles EXCEPT ![p][d].pos = Offset(p, d) + Len(w)]
    BY <2>1, <2>2, PositionSet
  <2>4. /\ Handles[p][d] # Closed /\ Handles[p][d].file = files[p][d].node
        /\ Handles[p][d].pos = Offset(p, d)
    BY <2>1, HandleShows
  <2>5. \E gap \in Service!Gaps(FileBytes[files[p][d].node], Offset(p, d)) :
          FileBytes' = [FileBytes EXCEPT ![files[p][d].node] = Service!Overwrite(@ \o gap, Offset(p, d), w)]
    BY <1>1, <1>15, WritesBytes
  <2>6. Service!Write(p, d, w)
    BY <2>1, <2>3, <2>4, <2>5, SameAnswers DEF Service!Write
  <2> QED
    BY <2>6 DEF Service!Next
<1>16. CASE UNCHANGED vars
  <2>1. FileBytes' = FileBytes /\ Handles' = Handles /\ answer' = answer
    BY <1>1, <1>16, SameBytes DEF vars, fs
  <2> QED
    BY <2>1 DEF Service!vars
<1>17. CASE Next
  <2>1. CASE Call
    BY <1>3, <1>4, <1>5, <1>6, <1>7, <1>8, <1>9, <1>13, <1>14, <1>15, <2>1 DEF Call
  <2> QED
    BY <1>10, <1>17, <2>1 DEF Next
<1> QED
  BY <1>16, <1>17

(* Processes whose writes stay inside the capacity of their files see      *)
(* files of their own bytes, wherever they seek: no write, create, seed or *)
(* failed open shows in another file or moves another descriptor, and a    *)
(* read inside the file returns what was written last.  Only a read behind *)
(* the end may return any bytes, and a write there leave any in the gap.   *)
THEOREM FilesAreSeparate == Spec => FileSpec
<1>1. Init => Service!Init
  <2> SUFFICES ASSUME Init PROVE Service!Init
    OBVIOUS
  <2>1. VfsInv
    BY InitVfs
  <2>2. FileBytes \in Seq(Seq(Byte)) /\ Len(FileBytes) = 1 /\ FileBytes[1] = <<>>
    <3> DEFINE r == [name |-> Root, size |-> 0, data_offset |-> 0, data_capacity |-> 0]
    <3>1. nodes = <<r>> /\ r.size = 0
      BY DEF Init
    <3> HIDE DEF r
    <3>2. Len(nodes) = 1 /\ nodes[1].size = 0
      BY <3>1
    <3>3. IsFile(nodes, data, 1) /\ FileBytes[1] = FileOf(nodes, data, 1)
      BY <2>1, <3>2, FilesShown
    <3>4. FileBytes[1] \in Seq(Byte) /\ Len(FileBytes[1]) = 0
      BY <3>2, <3>3 DEF IsFile
    <3>5. FileBytes[1] = <<>>
      BY <3>4, EmptySeq
    <3> QED
      BY <2>1, <3>2, <3>5, FilesShown
  <2>3. FileBytes = << <<>> >>
    <3>1. <<>> \in Seq(Byte)
      OBVIOUS
    <3>2. \A e \in Seq(Byte) : <<e>> \in Seq(Seq(Byte)) /\ Len(<<e>>) = 1 /\ <<e>>[1] = e
      OBVIOUS
    <3>3. << <<>> >> \in Seq(Seq(Byte)) /\ Len(<< <<>> >>) = 1 /\ << <<>> >>[1] = <<>>
      BY <3>1, <3>2
    <3>4. \A i \in 1..1 : i = 1
      OBVIOUS
    <3> QED
      BY <2>2, <3>3, <3>4, SeqEqual
  <2>4. Handles = [p \in Proc |-> [d \in Fd |-> Closed]]
    BY DEF Init, NoFds, Handles, InUse
  <2> QED
    BY <2>3, <2>4, SameAnswers DEF Init, Service!Init
<1>2. VfsInv /\ [Next]_vars => [Service!Next]_(Service!vars)
  BY StepShown
<1> QED
  BY <1>1, <1>2, VfsInvariance, PTL DEF Spec, FileSpec, Service!Spec
=============================================================================
